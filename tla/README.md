# wwan-proxy: TLA+ models, checks and proofs

wwan-proxy runs SOCKS5 and HTTP proxy servers over WWAN interfaces, and manages
them: configuration in SQLite behind a web interface, hot reload, heartbeats
that restart a modem through an external service (Vohive), statistics, and an
update agent. The proxy is a concurrent Go program, and most of what can go wrong
in it goes wrong between goroutines; its web console is a React program, where it
goes wrong between renders, timers, sockets and answers. These modules model that
part of both: every model is written from the code (paths and lines are in
`PROJECT.json` under `map`), checked by TLC on small instances, and the safety
properties that the runs check are proved by TLAPS for all values of the constants.

Contents: 1 inventory, 2 how to read the models, 3 the modules, 4 the runs and
what they show, 5 bounds, 6 fairness, 7 proofs, 8 where code and documentation
disagree, 9 what is not modelled, 10 plan.

## 1. Inventory

Paths are relative to `src/internal/`, or to the repository when they begin with
`web/` or `scripts/`. *M* marks what has a module.

| Component | State it keeps | Operations | Talks to |
|---|---|---|---|
| Manager *M* (`manager/manager.go`) | `instances` by id, `m.transition` (one lifecycle call at a time), `m.mu`, the drain group, the root context; per instance: two servers, a cancel function, the goroutine group, shared limiters | StartAll, Reload (preflight, new instance, wait until ready, hand over, roll back), Remove, Close, the drain of a retired instance | store (reads the row, writes it back after a failed reload), servers, metrics, heartbeat, web |
| Metrics and statistics *M* (`manager/metrics_handoff.go`, `stats_collector.go`, `store/server_stats.go`) | counters of each generation, `metricCarry`, `retiringMetrics`, the collector's last snapshot, one row per minute | beginMetricHandoff, finishMetricHandoff, Snapshots, collect, flush, prune | manager, store, web (overview) |
| Heartbeat and recovery *M* (`manager/heartbeat.go`, `vohive_heartbeat.go`) | per instance: failure count, previous result, time of the last recovery; `vohiveHealth` with the fast-mode references | probe, save, recovery (restart the modem, reload), reload after a failure ended, fast and slow poll | manager (Reload), store, Vohive |
| SOCKS5 server (`socks5/server.go`, `protocol.go`) | listener, `acceptingStopped`, `closing`, sets of connections, counters | Serve, StopAccepting, GracefulClose, Close, one session per connection | limiters, access rules, resolver, relay, BIND, UDP |
| UDP association *M* (`socks5/udp.go`) | queue of datagrams, two outbound sockets, `allowedTargets` (grants), last activity, diagnostics | receive, resolve, send, respond, expire and evict grants, close | limiters, resolver |
| BIND *M* (`socks5/bind.go`) | its listener, the watcher of the control connection, the context | listen, accept a peer, announce it, relay | access rules, relay, server's set of connections |
| DoH resolver *M* (`socks5/doh.go`, `doh_cache.go`) | cache with a byte count, `inflight`, provider ranking | cachedQuery, race, store, evict, close | SOCKS5 and HTTP dials, UDP workers |
| HTTP proxy server *M* (`httpproxy/server.go`) | listener, `http.Server`, `closing`, set of tracked tunnels, handler group | Serve, StopAccepting, GracefulClose, Close, forward, CONNECT | limiters, SOCKS5 server's dialer, relay |
| Relay *M* (`netrelay/relay.go`) | time of the last activity | two copiers, half close, idle watchdog | sessions and tunnels |
| Session budgets *M* (`policy/access.go`) | `Limiter.active`, `IPLimiter.active` by address, their ceilings | Acquire, release, SetMax | accept loops, HTTP handlers, UDP associations, manager |
| Access rules *M* (`policy/access.go`) | an immutable list of rules | AllowTarget, AllowTargetOnAnyPort | sessions, BIND, UDP |
| Configuration API *M* (`webui/server.go`, `store/store.go`) | rows of `servers`, `configurationMu` | save, toggle, delete, with compensation when the reload fails | store, manager |
| Web sessions *M* (`webui/auth.go`, `settings.go`, `store/auth.go`) | rows of `web_sessions`, cached validations of the overview sockets | login, logout, revoke, change of the administrator or the lifetime, validation | store |
| Update agent *M* (`selfupdate/`) | `busy`, the status file, the socket | Trigger, handle, performUpdate, exit and restart | web, supervisor, installer |
| Console: session and overview socket *M* (`web/src/hooks/useSession.ts`, `useOverview.ts`, `lib/api.ts`, `App.tsx`) | React state: `session`, `overview`, `connection`; refs to the socket and to the promise of a refresh; per effect: `stopped`, `attempts`, the retry timer | refresh of the session, expiry timer, connect, onopen/onmessage/onclose, retry, online, visible, refresh of the overview, the calls of the pages | web sessions, overview pushes, other tabs (cookie) |
| Console: server editor *M* (`web/src/components/ServerEditor.tsx`, `lib/serverForm.ts`) | the open editor, its tab, switches, invalid field; the draft with its rows of users | edit, change, save, delete, cancel; serverToForm, formToServer | settings and configuration API, `store/proxy_credentials.go` |
| Console: queries *M* (`web/src/hooks/useQuery.ts`, three pages) | path, revision, `data`, `loading`, `error` | select, refresh, answer | read-only API |
| Console: traffic history *M* (`web/src/hooks/useOverview.ts`) | points, baselines by server, service id; a copy in localStorage | sample, load, save | overview pushes |
| Console: update card *M* (`web/src/components/UpdateCard.tsx`) | `info`, `busy`, `restarting`, the poll loop | query, check, install, poll | update API, through restarts of the service |
| Select diagnosis *M* (`scripts/debug-webui-select.js`) | recorded interactions, pending timers, errors, `stopped` | interact, snapshot, report, stop, paste again | the page it is pasted into |
| Store (`store/`) | one SQLite connection, migrations, relocation of the file, log sink | open, migrate, statements | all |
| Vohive client (`vohive/`) | token | login, health, restart of a device | heartbeat |
| Configuration values (`config/`), chained upstream (`socks5/upstream.go`), racing DNS transport (`socks5/dns_conn.go`), read-only handlers, `cmd/`, pages that only show (`web/src/pages`), install scripts (`scripts/`) | see section 9 | | |

The components meet in five places, and the hard behaviour is there.

* **The hand-over.** A reload replaces a running generation by a new one on the
  same address: the old listener must be closed before the new one can bind,
  both are in retry loops, sessions of the old one go on for up to 30 s, limits
  and counters are shared or handed on, and any step can fail and be rolled back.
  Correct means: one accepting generation, nothing lost or left behind, no
  session cut, budgets and counters exact across generations.
* **The three writers of a configuration.** The web API changes a row and then
  the instance; a heartbeat or a recovery reloads the instance and writes a row
  back when that fails; they hold different mutexes. Correct means: what runs is
  what is stored, and what was answered was done.
* **Shutdown.** Drains and closes race with work that is just beginning: a
  hijacked connection not yet tracked, a socket opened after all were closed, a
  peer accepted when the client has gone. Correct means: when a call returns
  nothing is left, and work a drain promises to keep is kept.
* **Waiting for each other.** A reload joins goroutines while it holds
  `m.transition`; some of these goroutines call Reload. Followers wait for a
  flight that another caller leads. Correct means: everybody returns.

* **The page and the service.** The console shows what answers and pushes told it,
  in whatever order they came, across closed sockets, logins of other tabs,
  revoked sessions, updates that restart the service, and its own reloads.
  Correct means: what is shown is of the present selection and login, what is
  saved is what the user typed and nothing else, and what goes on is shown to end.

`PROJECT.json` lists each hazard at its line with the properties that cover it.

## 2. How to read the models

A module models one component. Its variables carry the names of the fields they
stand for, an action is a stretch of code that runs without another goroutine
being able to see it half done: a critical section, a statement of the
database, a call that blocks. A mutex that is held over several such stretches
is a variable (`op` for `m.transition`, `held` for `configurationMu`). Where a
goroutine blocks, there are two actions around it. In the console an action is an
event handler or a callback, which JavaScript runs to its end; what it sets is
seen only after React has rendered, so that state is there twice, as it was set
and as it was shown, and a `Commit` in between runs the effects.

Data are abstracted to what the properties tell apart. A configuration is a
model value, with its budget and whether it has an HTTP listener; a session
is a count; a response of a name server is a size and a lifetime; a target
is a model value. Failures of the outside (a port taken, a database
error, a dial that fails, a peer that stays silent) are choices, bounded by a
constant where they would otherwise make the state space infinite.

Some operators are preceded by a variant with a plausible mistake in it, commented
as a fault (`CreateFreshLimits`, `FinishForgets`, ...). Nothing in the
specification uses them; each property is shown to notice one of them when it
takes the operator's place (`mutants` in `PROJECT.json`).

## 3. The modules

| Module | Models | State and actions, and the code they come from |
|---|---|---|
| `Manager` | lifecycle of one server | `instances` is the entry of the map (a generation or `None`), `op` the call that holds `m.transition` and where it is, `lst[<<g, p>>]` the bind/serve/retry loop of generation `g` for protocol `p`, `open` its sessions, `drain` its drain goroutine, `lim` the object of limiters it uses, `closer` the call of `Close`. The disjuncts of `Transition` are the stretches of StartAll, Reload and Remove between two points where they block; `Closing` those of Close; `ListenerLoop` is `launch` with the server's Serve; `Drainer` is `drainInstance`. Servers share only `m.transition`, the map and the drain group: one server stands for each. |
| `Succession` | what clients are promised of the generations | the abstract specification of `Manager`: the life of each generation (`none`, `current`, `retired`, `closing`, `over`), the sessions, whose time is over. A generation takes the place of the one before it; a replaced one closes its HTTP server and then its SOCKS5 server, each when it has no session or time is over. `LifeOf` in `Manager` is the mapping: a generation is the current one while the map (or Close) has it, `closing` from the end of its HTTP drain, `over` when its context is cancelled. |
| `Metrics` | counters over generations | extends `Manager` with `count`, `carry`, `retiring`, `base`, `last`, `rows`. Each lifecycle step is composed with the handoff it calls. |
| `Heartbeat` | heartbeat, recovery, fast mode | extends `Manager` with `hb`, `prev`, `failures`, `fast`, `rec`, `cooling`: heartbeat goroutines are part of the group that a shutdown waits for and call `Reload` themselves. |
| `Admission`, `Budget` | limiters | a session takes the slot of its address first and one of the total second, in the SOCKS5 accept loop or in the HTTP handler, and gives them back in the code's order. `Budget` is the abstract promise: a counted set with a ceiling that may be lowered under it. |
| `AccessRules` | rule lists | a state is a list being appended to; the decision is a function of it. |
| `HttpDrain` | shutdown of the HTTP proxy | connections in the stages of a request or a tunnel; `GracefulClose` and `Close` in their steps; `net/http` external. |
| `BindAccept` | one BIND request | the session, the watcher that reads the control connection, the watcher of the context. |
| `Relay` | a tunnel | two copiers, the watchdog, the session; time in ticks. |
| `UdpAssociation` | one association | loop, workers, readers, grants with tokens, deferred shutdown in its order. |
| `DnsCache` | resolver | cache with its byte count, flights, the race, callers with contexts; a clock in ticks, of which `Second` make a second, and lifetimes in whole seconds. |
| `Configuration` | web API, rows, instances | handlers in the steps between their statements, background reloads, the manager's write-back. |
| `WebSession` | login sessions | rows, handlers, sockets with their cached validation. |
| `SelfUpdate` | update agent and controller | calls of `Trigger`, handlers, the update, the status file, the life of the process. |
| `Console` | one tab's session and overview socket | `session` (set) and `shown` (rendered), the effect of useOverview with its sockets, retry timer and pending refresh; cookie and logins shared with other tabs; what is on the wire of each socket, and who is closing it: a socket the page has replaced may deliver until it is gone, one the server closes is CLOSING until its onclose; one call of a page. Handlers and callbacks are actions, `Commit` is a render with its effects. |
| `Editor` | life of the server editor | editors opened by `edit`, the tab, the switches that show and hide fields, which fields are wrong; what `onFinishFailed` selects against what is rendered. |
| `ServerForm` | configuration, form, and back | rows of users with the name each was loaded under, ports and DNS in the forms earlier versions stored; `formToServer`, then `Validate` and `prepareProxyCredentials` of the server; another client that saves. |
| `QueryView` | useQuery and its three pages | the selection, the effect's path, the answers under way, `data`, `loading`, `error`. |
| `TrafficHistory` | sample and localStorage | counters of servers that restart, the service, two tabs with their histories, the stored copy, crash of the page. |
| `SelectDiagnostics` | the diagnosis script | runs of the script, the listeners and timers of each, what was printed. |
| `UpdateCard` | the update card | the card's state, its queries and poll, the agent's operation, restarts of the service. |

`...Proofs` modules hold theorems. `MC...` modules give the constants model
values and symmetry sets, and group components for TLC:

| MC module | Checks | Subjects |
|---|---|---|
| `MCManager`, `MCHeartbeat` | the module of that name | one |
| `MCPolicy` | `Admission`, `AccessRules` | `budgets`, `rules` |
| `MCStore` | `Metrics`, `Configuration` | `traffic`, `alone` (the web API with failing statements), `reloads` (the web API with a background reload) |
| `MCTunnels` | `HttpDrain`, `BindAccept`, `Relay` | `http`, `bind`, `relay` |
| `MCNetwork` | `UdpAssociation`, `DnsCache` | one each |
| `MCWeb` | `WebSession`, `SelfUpdate`, `UpdateCard` | `sessions`, `update`, `card` |
| `MCPages` | `Console`, `Editor`, `ServerForm`, `QueryView`, `TrafficHistory`, `SelectDiagnostics` | `console`, `editor`, `form`, `query`, `history`, `select` |

The components of such a group share no state and call none of each other's
operations, so nothing would be learnt from interleaving them: the variable
`subject` says which of them a behaviour is about, the others keep their initial
values, and a property of the group is the conjunction of those of the
components. What does interact is composed for good, see below. A module that
shares names with another of its group is taken with INSTANCE and a renaming,
otherwise with EXTENDS. The assumptions on the constants of an instantiated
module are definitions there and assumed in the MC module, so that TLC evaluates
them.

Each component module has a type invariant (`TypeOK`, `HeartbeatTypeOK`,
`MetricsTypeOK`, `RulesTypeOK`, `FormTypeOK`). Those of `Manager`, `Admission`,
`AccessRules` and `Console` are proved, and the run `manager` has the first; the others
document the variables and can be added to any configuration.

Compositions: `Metrics` and `Heartbeat` extend `Manager` and add their steps to
its steps, so that they are checked against the real order of the hand-over and
not against an idealised one. `Configuration` models `Reload` again, coarsely
(ready or not), because its subject is the row and not the listener.
`Admission` contains an instance of `Budget` with a refinement mapping
(`Total!Spec`, the property `TotalBudget`), `Manager` one of `Succession`
(`Clients!Spec`, the property `GenerationsSucceed`).

## 4. The runs

`pass` runs hold; `violation` runs state what a document, comment or test says
and find it violated by the code (section 8).

| Run | Module | Kind | Properties | What it shows |
|---|---|---|---|---|
| `manager` | `MCManager` | pass | `TypeOK`, `OnlyCurrentAcceptsSOCKS`, `NothingLost`, `LimitsHold`, `GenerationsSucceed`, `SessionsSurviveReload` | Start, hot reload with rollback, remove and close of one server with and without an HTTP listener, one administrator write and one outside failure: one accepting SOCKS5 generation, no generation lost and nothing left after Close, limits that follow the configuration and are shared by all generations, generations that succeed one another as the abstract specification promises clients, no session cut by a reload that keeps the server enabled. |
| `manager_live` | `MCManager` | pass | `CallsReturn`, `GenerationsSettle` | Under weak fairness of the goroutines and timers every lifecycle call and Close of a server without a Vohive device return, every retired generation is drained, and the current generation ends up serving on both listeners, although a retired one's HTTP listener can take its port for a while: with one write of the configuration (first enable, disable, Remove), one failure, or the end of the process. |
| `heartbeat` | `MCHeartbeat` | pass | `FastWhileFailing`, `CloseEndsRecovery`, `NewestWriterWins` | Heartbeats of up to three generations, a recovery through Vohive, reloads and Close: a replaced generation never overwrites its successor's row, the fast poll mode is on while the current generation fails, and no heartbeat or recovery goroutine outlives Close. |
| `policy` | `MCPolicy` | pass | `Exact`, `AnyPortExact`, `TotalBudget`, `ClientBudget` | Three sessions of two addresses through two accept loops and the HTTP handlers under ceilings that change at any moment: the counters are exact and the total implements the abstract budget. Every list of up to three rules: the candidates of AllowTargetOnAnyPort decide for all ports. |
| `store` | `MCStore` | pass | `TrafficKept`, `RowsDecide`, `AnswersMatchRow` | The traffic of three generations while the collector ticks: a snapshot counts each of them once, and the stored rows add up to it. The configuration API with two handlers, failing statements or a background reload: what runs is what is stored, what is deleted stays stopped, and, without background reloads, an answer tells what became of the row. |
| `network` | `MCNetwork` | pass | `Exact`, `EndsCleanly`, `CacheSound`, `HitsAge` | A UDP association of two workers, two targets of different families and a grant table of one entry, so that grants expire, are evicted, fail and are renewed while responses arrive: the targets whose responses pass are exact, no datagram is lost uncounted, nothing is left after the shutdown, which never waits for something that cannot come. Two questions for a bounded cache, two callers, two providers, expiry, eviction, cancellation and shutdown: the byte count is exact, misses are coalesced, a follower always has somebody who will wake it, and a cached answer is said to be good, to the second, for as long as it is kept. |
| `tunnels` | `MCTunnels` | pass | `NothingLeft`, `BindSettled`, `CutWhenDue`, `DrainKeepsWork`, `EverythingEnds` | Requests and tunnels in every stage under GracefulClose and Close, one BIND with both watchers, one relay: a drain keeps work and leaves nothing, a peer is announced only over an untouched control connection, a tunnel is cut neither early nor late, and everything ends whatever clients and peers do. |
| `web` | `MCWeb` | pass | `RevokedStays`, `UpdateInOrder`, `EndsWhatItMust`, `UpdateSeen` | Logins, logouts, revocations and changes of the lifetime beside the overview sockets and their cached validations, with a failing statement: what was revoked is never found valid again and its socket is closed. Two requests for an update, late answers and an agent that dies: one update at a time, true answers, and an agent that can run the next one. The browser's update card against an agent that restarts the service: it ends saying what became of the update. |
| `pages` | `MCPages` | pass | `SocketDiscipline`, `FreshAnswer`, `ChartedOnce`, `WholeReports`, `FirstErrorShown`, `CredentialsKept`, `SavedAsLoaded` | The web console, part by part. The tab's session and its socket keep one connection that the page has not closed, and what a replaced one still delivers changes nothing, whatever order React's batches, timers, network events and other tabs come in; a page shows the answer to what is selected now; the traffic curve charts no byte twice; a form that is not accepted turns to its first error; saving keeps every password that was not typed and gives back what was loaded; the diagnosis script prints whole reports of one run at a time. |
| `console` | `Console` | pass | `RefreshSettles`, `ChangeShown` | Under fairness of the browser, the network and the server, a refresh of the console ends, and each change of the configuration is shown by a dashboard that keeps its login, through closed sockets, lost answers and a new name of the administrator. |
| `heartbeat_deadlock` | `MCHeartbeat` | violation | `HeartbeatReloadReturns` | The Reload a recovered heartbeat calls finds the server disabled, shuts its own generation down and waits for the goroutine it runs in, holding m.transition. |
| `console_revoked` | `Console` | violation | `RevokedReturnsToLogin` | The session is revoked while the overview socket is down: the handshakes that follow are refused without the close code by which the page would know, and the dashboard stays and reconnects again and again. |

Why these properties.

* What a returned call promises against what other goroutines still hold:
  `NothingLost` (a generation that has sessions or listeners is in the map, in the
  hands of a call, or being drained, so that somebody will end it, and after Close
  there is none), `NothingLeft`, `CloseEndsRecovery`.
* One at a time, although several ask: `OnlyCurrentAcceptsSOCKS` depends on a
  flag set by one goroutine before the bind of another returns; `UpdateInOrder`;
  `CacheSound`; `SocketDiscipline` (one socket that the page has not closed, whoever
  connects; the socket of the login that is shown; one promise and one timer of a refresh;
  nothing that a replaced socket still delivers is shown).
* A counter against the things counted, over paths that add and give back in
  different places: `Exact`, `LimitsHold`, `TrafficKept`, `CacheSound`,
  `ChartedOnce`. In `MCNetwork` `Exact` says that the grants are those a
  description of who was sent to and when gives, and that each datagram is
  accounted for once.
* A mechanism against a description that does not use it: `AnyPortExact`
  compares the candidate ports with all ports; `TotalBudget` and `GenerationsSucceed`
  are refinements: the first of a counted set, the second of a succession that knows
  nothing of calls, listeners, rollbacks and drain goroutines;
  `CredentialsKept` says which password each user has after a save by what was
  typed and loaded, not by the flags that are sent; `SavedAsLoaded` compares
  configurations by what runs, across two conversions; `FirstErrorShown` compares
  the tab that is chosen by names with the tab that renders the field.
* What no step may do: `SessionsSurviveReload`, `DrainKeepsWork`,
  `NewestWriterWins`, `AnswersMatchRow`, `HitsAge` (a hit tells, to the second, how long the
  cached answer is still kept, whenever in its life it is handed out).
* Told and done: `RowsDecide` (what runs is what is stored, what is deleted stays
  stopped), `RevokedStays`, `FreshAnswer`, `WholeReports`, `BindSettled` (a peer is
  announced over an untouched control connection, and a BIND that ended is
  answered for the reason it ended), `CutWhenDue` (a half-closed tunnel goes on,
  silence is cut in time, a clean end has delivered everything).
* Waiting: `CallsReturn`, `GenerationsSettle`, `EverythingEnds`, `EndsWhatItMust`,
  `UpdateSeen`, `RefreshSettles`, `ChangeShown` under fairness; `NothingLost` (whoever
  holds `m.transition`, drains or closes waits for something that can go on),
  `CloseEndsRecovery` (so does Close when heartbeats and recoveries call Reload),
  `EndsCleanly` (what a shutdown of a UDP association still waits for can move),
  `NothingLeft` and `BindSettled` (the same of the drain and the close of the HTTP
  server, of a relay and of a BIND request: `NeverStuck`) and `CacheSound` (a follower of a flight has a leader who is under way) state as
  invariants what their liveness rests on, and need no fairness.

A property named in a run may be the conjunction of several that are defined, each
with its comment, in the component's module: `NothingLost` is `NoOrphan`,
`CloseLeavesNothing` and `NobodyStuck`, `LimitsHold` is `LimitsFollowCurrent` and `BudgetShared`,
`UpdateInOrder` is `OneUpdate`, `ProgressShown` and `AnswerTrue`, `CacheSound` is
`BytesExact`, `OneRace` and `FollowersLed`, and so on.

## 5. Bounds

* `manager`: one server, two configurations of which one has an HTTP listener,
  three generations, one write of the administrator, one outside failure. Three
  generations are a running one, a retired one that drains and a replacement; the
  failure strikes at every place, because the place is chosen. The two
  configurations make "old" and "new" differ in budget (one session or two) and in the HTTP
  listener. The constraint
  `SignalWithOne` (in `MCManager`) lets the signal meet the write or the failure, not
  what both have led to; the theorems of section 7 have no such bound.
  `manager_live` takes one configuration with both listeners, whose loops bind, retry and
  hand over, one write of it and one outside failure. The constraint `OneDisturbance` gives
  a behaviour one of three things: the write, which enables a server for the first time,
  disables it or removes it, the failure, with its rollback, or the end of the process. One
  is enough to make a call wait where it otherwise would not; that no combination of them
  leaves anyone waiting for nobody is `NobodyStuck`, which `manager` checks with a write and
  a failure and section 7 proves without bounds.
* `heartbeat`: a threshold of two failures and one restart, three generations, no
  HTTP listener. The constraint `Quiet` (in `MCHeartbeat`) leaves out the signal, the
  drain's timeout, Close over a third generation, and what comes after the cooldown of
  the one recovery: none of the three properties can tell these apart.
* `store`: for `Metrics` a traffic of 2 distinguishes counted before and counted
  after the handoff; one write, one failure. For `Configuration` two ids, two
  addresses, two handlers, three requests, and either one failing statement or
  one background reload: a conflict, a move to a free address, a delete under a
  reload and a failed compensation are all within that.
* `policy`: three sessions of two addresses, ceilings 0 (unlimited), 1, 2: a
  ceiling can be reached, lowered under the use, and shared by two loops. Ports 1
  to 3, three rules, one target (a rule matches it or not): ranges that touch,
  overlap, contain each other and end at either end of the ports. The proofs
  lift both.
* `network`: for the association two targets of different families, a table of one grant, two workers, a
  queue of one, two datagrams, one tick with lifetimes of one: every limit is
  reached and exceeded, and a grant is given, refreshed, evicted and expired.
  For the resolver two questions, two providers, two callers; two entries and two bytes
  with answers of up to three, so that one answer may evict another or be too
  large; two ticks in a second, lifetimes of up to two seconds and a clock of two ticks, so
  that a hit comes within a second and after one. The constraint `ClosedInTime` (in
  `MCNetwork`) lets the resolver be closed before the last tick only.
* `tunnels`: two connections, so that a request and one that is becoming a tunnel
  are there at once, with one drain and one close; a BIND peer that is admitted
  and one that is not; an idle time of two ticks, which separates "active within
  it" from "active at its edge", and two chunks each way.
* `web`: two sessions, two handlers, a lifetime of one tick and one tick, three
  requests, one failing statement; two requests for an update and one fault; for
  the card one install, one check, restarts of the service and a lost answer.
* `pages`: for the console two logins of the tab, one of another tab, one new name,
  one change, one fault, of which, and of the logins that end, the constraint
  `OneSurprise` (in `MCPages`) lets
  one behaviour have one: each of them then meets every order of sockets, renders,
  timers and calls. Two sockets are enough, the tab's own and one it has replaced and
  that may still deliver, since the name of a socket of which nothing is left is used again. For the editor
  one editor with two edits of which one may make a field unfit, for the form two
  rows, two names, a password that looks like the redaction and one that does not,
  and two edits, for the queries the two of the statistics page with two selections,
  for the history one server with two bytes, one tab, a curve of two points, one
  restart and a clock that may go back (the time 0 of an empty history is more than a
  window ago, as it is for any clock), for the script two runs and two triggers.
* `console`: one login of the tab, one change, one new name, one fault; what repeats
  for ever (pushes, refused handshakes, retries, refreshes) is not bounded. The constraint
  `EndedInCalm` lets a login that has ended meet one of the change, the name and the
  fault: `ChangeShown` asks for nothing then, and a refresh meets each. The tab is
  the only one of its browser (`OnlyTabSpec`): with the login of another one
  `ChangeShown` fails (`FairSpec`, two logins, of which one is the other tab's), by the
  two updates in one render of section 8.

Counters bounded for TLC (generations, saves, faults, requests, traffic, the
clocks) are bounds of the behaviours and named as such where they are declared;
the others (budgets, table and queue sizes, thresholds) are parameters of the
program. Deadlock checking is off in most runs because the bounded behaviours
end and because a server may be idle; whether something is stuck is the
question of the liveness runs.

## 6. Fairness

The runs `manager_live`, `tunnels`, `web`, `console`, `heartbeat_deadlock` and
`console_revoked` have a fair specification. Those of the service assume weak fairness of single goroutines: a goroutine that
can go on does. This is what the Go scheduler gives. Mutexes are handed over
fairly (Go's starvation mode), which weak fairness of each goroutine's next step
states wherever a step needs a mutex. Timers fire: the readiness timeout, the
retry backoff, the drain deadline, the timeout of a query or of a BIND, the idle
watchdog. Nothing is assumed of administrators, clients, peers, upstream
servers and failures: they may do nothing for ever, and may do their worst.
Each `FairSpec` says above it whose fairness it is. Cases that need a word:

* `Manager`: a drain ends because its context expires after 30 s and the
  servers are then closed; the model has no fairness of sessions. Its generations have no
  heartbeat: `Joined` waits for the listeners' goroutines, so that `CallsReturn`, like
  `NobodyStuck`, is about servers without a Vohive device. For a server with one, a call
  may never return (`HeartbeatReloadReturns`, section 8).
* `DnsCache` and `UdpAssociation` are checked without fairness: a follower's
  return must not rest on its own timeout, and a write may be parked until its
  socket is closed, so that what is checked is the invariant that the one who
  must act next can (`FollowersLed`, `NeverStuck`).
* `NeverStuck` of `UdpAssociation`, `HttpDrain`, `BindAccept` and `Relay` and `NobodyStuck`
  of `Manager` write the guards of those who go on by themselves out (`LoopsTurn`,
  `WorkersTurn`, `HandlersTurn`, `CallsTurn`, `CopiersTurn` and so on). That they are the
  guards, that is that each is true exactly when the action is `ENABLED`, is `TurnsExact`
  of these modules, which holds in all states of the runs `network`, `tunnels` and
  `manager` and is commented out in `MCNetwork.cfg`, `MCTunnels.cfg` and `MCManager.cfg`. `CloseGoesOn` does the same for heartbeats and
  recoveries (`HeartbeatsTurn`, `RecoveriesTurn`).
* `Relay`: a blocked `Write` is not fair; what ends it is the watchdog.
* `Console`: React renders what was set, timers fire, a handshake and a request are
  answered, a closed connection is noticed, and a push that is on the wire arrives.
  Nothing is assumed of the user, of other tabs, of the network's closing of
  connections, nor of the time at which a login runs out. That the server sends a
  new state is strongly fair: connections may close again and again, but not each
  of them before its first push, which the server sends at once.
* `UpdateCard`: React renders, polls go on and are answered or fail, and the deadline
  of five minutes is reached. Nothing is assumed of the agent: it may never end.

## 7. Proofs

TLAPS has checked the following for every value of the constants, under the
assumptions next to their declaration (types of the bounds, finiteness of the
set of sessions).

| Theorem | Property | What it establishes |
|---|---|---|
| `ManagerProofs!TypeCorrect` | `TypeOK` | Every variable of the lifecycle model keeps its type, for every set of configurations and all bounds; the generation a call works on is one that exists. |
| `ManagerProofs!OnlyCurrentAccepts` | `OnlyCurrentAcceptsSOCKS` | For any number of reloads, failures and configurations, while the manager is open no SOCKS5 listener other than the current generation's accepts, whatever its retry loop was doing when it was replaced. |
| `ManagerProofs!DrainsInOrder` |  | A retired generation's SOCKS5 server, through which its HTTP requests dial, is drained only after the last of them ended, however its drain is cut short. |
| `ManagerProofs!ReloadKeepsSessions` | `SessionsSurviveReload` | A reload that keeps the server enabled, failed or not, and the drain after it end no established session but those of a failed replacement and those still open at the deadline or at the end of the root context. |
| `ManagerProofs!NothingIsLost` | `NothingLost` | Whatever failed on the way, a generation that still works or holds a session is in the map, being drained or in Close's hands between calls, and nothing is left once Close has returned; a call that holds m.transition, a drain or a Close that waits for goroutines waits for one that can go on. |
| `ManagerProofs!LimitsAreKept` | `LimitsHold` | After every call the limits in force are those of the current configuration, and while nobody writes the configuration the sessions of all generations together stay within its budget. |
| `ManagerProofs!ClientsSeeSuccession` | `GenerationsSucceed` | The lifecycle implements the abstract succession, step by step, for any number of reloads, failures and configurations: one generation serves at a time, a replaced one never serves again and keeps its sessions until they end or its time is over, and one that is over has nothing left. |
| `LifecycleProofs!FastWhileItFails` | `FastWhileFailing` | For any number of generations, heartbeats and recoveries: one reference of the fast mode is held for each generation whose last probe failed, so that the current one's keeps the mode on, whatever retired generations do. |
| `LifecycleProofs!NewestGenerationWrites` | `NewestWriterWins` | A generation that has been replaced never writes the heartbeat row after its successor: what replaces it has waited for its heartbeat first. |
| `LifecycleProofs!CloseEndsEveryRecovery` | `CloseEndsRecovery` | When Close has returned, no heartbeat and no recovery of any generation is left, whatever reloads, drains and failures came before; and once it has begun, whoever it waits for can go on, although heartbeats and recoveries ask for Reload meanwhile. |
| `LifecycleProofs!HeartbeatsKeepSuccession` | `GenerationsSucceed` | Whatever heartbeats and recoveries do and whoever calls Reload, clients see the generations succeed one another as the abstract succession says. |
| `LifecycleProofs!TrafficIsKept` | `TrafficKept` | For any number of generations, failures and snapshots: a snapshot counts what each generation has carried once, whether it is the current one, is being retired, drains or has been folded into the carry, and the stored rows add up to it. |
| `LifecycleProofs!TrafficKeepsSuccession` | `GenerationsSucceed` | The counters and the collector change nothing of the succession of generations that clients see. |
| `LifecycleProofs!StoreKeepsTraffic` | `TrafficKept` | The same in the run that joins the counters with the configuration API. |
| `LifecycleProofs!StoreInvariant` |  | The inductive invariant of the configuration API: both mutexes are held by whoever is where it holds them, nothing of a deleted server runs or is being brought up; and without background reloads, what a request has checked, stored and left alone by each of its steps. |
| `LifecycleProofs!RowsDecideAlways` | `RowsDecide` | For any number of handlers, background reloads, servers and addresses: a deleted server stays stopped; and without background reloads and failures of the database, what runs is what is stored whenever nobody is changing anything. |
| `LifecycleProofs!AnswersAreTrue` | `AnswersMatchRow` | For any number of handlers and requests, without background reloads: a success was stored even when the database fails, and a refusal has left the row as it was, however far the request had come. |
| `PolicyProofs!CountersExact` | `Exact` | For any number of sessions and addresses the counters are the numbers of sessions that hold a slot: no path leaks a slot or releases one twice. |
| `PolicyProofs!TotalBudgetHolds` | `TotalBudget` | The total implements the abstract budget: a session is admitted only while fewer than the ceiling in force hold a slot, across listeners and generations. |
| `PolicyProofs!ClientBudgetHolds` | `ClientBudget` | No address is counted for a session at or above its ceiling in force. |
| `PolicyProofs!AnyPortDecides` | `AnyPortExact` | For every list of rules and all ports, the boundary ports tried by AllowTargetOnAnyPort give the same answer as trying every port. |
| `PolicyProofs!LaterRulesYield` |  | A rule appended to a list of any length changes only decisions that were the default's. |
| `NetworkProofs!AssociationSound` |  | Of a UDP association alone, for any workers, targets, queue and grant table: the grants are exact, every datagram is accounted for, and nothing is left after the end. |
| `NetworkProofs!CacheIsSound` |  | Of a resolver's cache alone, for any questions, providers, callers and sizes: the byte count is the sum of the entries, a question has one race at a time, and whoever waits has a leader. |
| `NetworkProofs!NetworkExact` | `Exact` | Exactly the targets that a datagram was sent to within the lifetime of a grant may answer, whatever evictions, expiries, failures and renewals happen meanwhile, and no datagram is lost without being counted. |
| `NetworkProofs!NetworkEndsCleanly` | `EndsCleanly` | For any workers, targets, queue and grant table: what has ended has no open socket, no reader and no worker, and while an association ends its loop, a worker or a reader can go on without the client, a target, or time. |
| `NetworkProofs!NetworkCacheSound` | `CacheSound` | The cache's byte count and limit, one race for each question, and a leader for everyone who waits, for every number of questions, providers and callers. |
| `NetworkProofs!NetworkHitsAge` | `HitsAge` | Whenever a cached answer is handed out, it is said to be good for as long as it is kept and for less than a second longer, for any lifetimes and any number of ticks in a second. |
| `TunnelsProofs!HttpDrains` |  | Of the HTTP server alone, for any number of connections: what has returned leaves nothing behind, what has not waits for a handler that will tell it, Close for none that waits in its turn, and a drain that nothing forces keeps requests and tunnels. |
| `TunnelsProofs!TunnelsLeaveNothing` | `NothingLeft` | After Close or GracefulClose no handler, tunnel or upstream connection is left, after Bidirectional no goroutine and no connection, whatever the order of dials, hijacks, copies and timers; and until then no wake-up is lost and whoever is waited for can go on. |
| `TunnelsProofs!TunnelsKeepWork` | `DrainKeepsWork` | A drain of the HTTP server cuts no plain request and no established tunnel, for any number of connections. |
| `TunnelsProofs!TunnelsSettleBind` | `BindSettled` | The peer of a BIND request is announced over an untouched control connection only, and a request that has ended was answered for the reason it ended, whatever the watchers, peers and the deadline do; and none of its goroutines waits for ever. |
| `TunnelsProofs!TunnelsCutWhenDue` | `CutWhenDue` | For every idle timeout and amount of data: a tunnel is cut neither early nor late, a half-closed one goes on, and a clean end has delivered everything. |
| `WebSessionProofs!SessionsRevokedStays` | `RevokedStays` | What was revoked is never found valid again, for any number of sessions, handlers and sockets and any lifetimes. |
| `WebSessionProofs!WebUpdateInOrder` | `UpdateInOrder` | For any number of calls: one update at a time, which whoever reads the status sees in progress, and an answer that says what was done, whatever answers are late and whenever the agent dies. |
| `PagesProofs!ConsoleSocketDiscipline` | `SocketDiscipline` | Whatever the order of events and renders, a tab has at most one live socket, which its effect owns, and a retry is armed only for a socket that is closed. |
| `PagesProofs!FormCredentialsKept` | `CredentialsKept` | A saved form never loses or exchanges a password that was not typed, for any set of names and passwords. |
| `PagesProofs!FormSavedAsLoaded` | `SavedAsLoaded` | What is sent without an edit is what was loaded. |
| `PagesProofs!PagesFirstErrorShown` | `FirstErrorShown` | When a form is not accepted, the tab that is selected has the field the user is sent to, whatever switches hide and show. |
| `PagesProofs!PagesFreshAnswer` | `FreshAnswer` | For any queries, selections and numbers of requests: a page that neither loads nor complains shows the answer for what is selected, whatever order requests and answers come in. |
| `PagesProofs!PagesChartedOnce` | `ChartedOnce` | For any tabs, servers, window and number of points: no history charts more than was carried, and the intervals of its points do not overlap, however tabs save and load, the clock goes back and servers restart. |
| `PagesProofs!PagesWholeReports` | `WholeReports` | For any number of runs, menus and events: the runs' reports come in the order of their pasting, one of each, and each is whole and about one menu. |

`ManagerProofs`. The type invariant needs to know that the generation a call
works on exists (`CallInv`): a call creates a generation in one step and
launches, waits for or shuts it down in later ones. `TypeInv` is both together.
That no retired SOCKS5 listener accepts is not inductive by itself: a loop that
has left the map may be between bind and accept at that moment. `IndInv` adds
that a generation which has left the map has been told to stop
(`LeftRefuses`), that a loop told to stop is past accepting for good
(`RefusalEndsLoop`), and that a generation not yet created has no loop
(`NotYet`). The proof of each part goes over the actions; the lemmas about what
a shared step does (`CloseListeners`, `ShutdownInstance`, `scheduleDrain`) are
stated once. The corresponding property of the HTTP listeners cannot be proved:
`RefusalEndsLoop` fails for them, which `MCManagerFurther.cfg` shows (section 8).
That a drain closes its servers in order needs that a draining HTTP server takes
no new request (`DrainOrder`), and that a generation without one stays silent
(`HTTPSilent`). `LossInv`, for `NothingLost`, gives each generation an owner
(`OwnerInv`): the map, a drain, Close, or the call between hand-over and
`scheduleDrain`; one without an owner is quiet. Each owner's part says what it has
done by which step (`CallOwns`, `CloseOwns`, `DrainOwns`), so that a generation is
let go only when it is quiet. For the budget, `OneObject` says that without a write
of the configuration every generation has the first one's limits, and `OpenFits`
that those count the open sessions; `LimitsFit` is about the maxima, also in the
middle of a rollback.

`ClientsSeeSuccession` is the refinement of `Succession`: `InitClients` maps the initial
state, and there is a lemma for each kind of step (`StopClients`, `DrainClients`,
`CallClients`, `CloseClients`, `SessionClients`), which says which abstract step it is, or
that clients see nothing of it. `SuccInv` is what the mapping needs beyond `LossInv`: the
signal ends every generation's context (`HaltEnds`), and before it only a generation that
was shut down has none (`OverIsShut`); one that was created was started or stopped
(`StartedOrOver`); one that left the map refuses new sessions, unless Close is about to
stop it (`GoneRefuses`); only one that left the map drains, and it is over when it waits
for its goroutines (`DrainLeaves`); and a call has not begun to drain the generation it
replaces (`CallOrder`), which is what allows a rollback to be seen as the end of the
replacement only. From these, a generation that is replaced for clients is replaced in
the code, and what a drain or a shutdown closes has no session whose time is not over.

`NobodyStuck`, the last part of `NothingLost`, rests on `SuccInv` too (`StuckInv`): a call
or Close waits only for the goroutines of a generation whose context it has ended
(`WaitedIsStopped`), a drain for one that its servers' shutdown has stopped, and a drain
that is left when the manager closes has no time left (`CutShort`), so that Close does
not wait for clients. A loop whose context has ended always has a next step. All this is
about `Manager` alone: with heartbeats a call that holds `m.transition` may wait for a
heartbeat that wants it, which is the first finding of section 8.

`LifecycleProofs` is about what runs on top of the lifecycle. Every step of
`Heartbeat` is a step of `Manager` or leaves it alone (`HeartbeatsRunManager`), so
that the invariants of `ManagerProofs` hold of its behaviours and can be used.
`FastWhileFailing` needs the exact count (`FastInv`): the references of the fast mode
are as many as the generations whose last probe failed. `NewestWriterWins` is a
statement about two generations; what is inductive is that a heartbeat whose context
is not cancelled is the newest generation's, whatever the call in progress is about to
replace (`NewestInv`). For `CloseEndsRecovery`, `AttendedInv` says who will still wait
for a heartbeat (the map, the call, a drain, Close), and `LossInv` of `ManagerProofs`
that Close has waited for each of these when it returns. That Close does return
(`CloseIsNotStuck`) is `StuckInv`, and that no heartbeat and no recovery is in a Reload
while Close holds `m.transition` (`CallersCall`): one that asks for it now is refused at
once. The deadlock of the finding is therefore one of a call, never of a Close that has
begun. `HeartbeatsKeepSuccession` is the refinement of `Succession` with whatever
heartbeats and recoveries ask for, and `TrafficKeepsSuccession` the same with the counters
and their collector.

`TrafficKept` of `Metrics` is a statement about sums over the generations in the map, the
retiring ones and the rest. The balance that is inductive: the carry, and what the
retiring generations have counted beyond the base they were given, is what all the
generations outside the map have counted. It needs who can still count: a generation
that is folded into the carry has settled, one that is not yet launched has counted
nothing, and one that is retiring has left the map and is not drained. What a step does
to one generation's count or to one of the sets is then a lemma of `SumTheorems` about
one element.

For `Configuration`, `ConfInv` holds whatever reloads: a process is between the lock and
the unlock of `m.transition` exactly when it holds it, and a handler past `start` exactly
when it holds `configurationMu`; so at most one Reload is bringing an instance up, none
is of a server without a row, and no row comes back but by the INSERT of a new id
(`Deletions`). `AloneInv`, for behaviours without background reloads, says for each place
of a handler what it has checked and stored (`Checked`), and, while the database works,
what it has left as it was (`Honest`): the old instance runs until the new one is ready,
the row is the new one from the write to the compensation, and the previous address is
still free, so that the compensation cannot be refused. The attempt to prove that a
refused request restores its row in every behaviour failed with a reason: with two
background reloads it does not (section 8), which the bounds of the run had hidden. The
property now says so, and `ConfigurationFurther.cfg` has the counterexample.

`SumTheorems` says what `SumFunctionOnSet` of the community modules computes: zero
for the empty set, one element more adds its value, whatever order the fold takes.
The library's theorems of induction take an operator as a parameter, which cannot be
instantiated here; each induction is done on a least counterexample instead, a set of
naturals (`LeastNatural`, from the well-foundedness of `<`). The byte count of the
cache rests on it.

`PolicyProofs`. Of `Admission`, `TypeOK` (counters are natural numbers) and `Exact`
(they are the numbers of holders) are inductive only together, since a release
subtracts. Each step moves one session in or out of the holders; lemmas on
cardinality say what that does to each count. The ceilings follow from the
invariant and the step; `TotalBudgetHolds` is the refinement of `Budget`. Of
`AccessRules`: for a port take the greatest boundary not above it; the same rules
contain both, so the first of them, and the decision, is the same. The least
matching rule exists by well-foundedness of the naturals. Appending a rule leaves
the hits of the shorter list in place.

`NetworkProofs` proves each component first and then the run that joins them: a
step of the run is a step of one and leaves the other alone. `GrantsExact` and
`Accounted` hold in the middle of a send only together with where each worker is
(which grant it holds, what is left of its datagram), what a socket's reader has
taken, and in which order the end of the association closes, cancels and waits. The
cache's invariant relates its entries, the sum of their bytes, the callers of a flight
and their leader; that a follower has a leader who is under way is inductive only
with `OneRace` and the places of the callers. `EndsCleanly` follows from the
association's invariant: whoever the end of the association waits for is past what
only a client, a target or time could end, since the sockets it sits on are closed;
that needs that a reader is of a socket that was opened (`Attached`). `HitsAge` rests on
two facts: an entry is kept for at most its lifetime from now (`Due`), and the whole seconds
of a time are no more than the time and less than a second short of it (`WholeSeconds`).

`TunnelsProofs` has an invariant for each of the three components, which relates the
stages of connections, requests and tunnels to the counters that the two ways to
close wait for (`HttpDrain`), the two watchers to the result and the reply
(`BindAccept`), and the copiers' ends to the watchdog's clock (`Relay`). The action
property `DrainKeepsWork` follows from the invariant step by step.
That nobody waits for ever is an invariant for each too. A call of the HTTP server that
waits has read a channel that is not closed only while there is a handler, who will close
it (`Signalled`: no wake-up is lost, although the count may rise again until `closing` is
set), and when Close waits every tunnel and every plain request has lost its connection
(`Severed`). In a BIND request a watcher ends during the wait only when it has closed the
listener (`Watchful`), and the session that waits for the watcher has set the deadline
that ends its Read. A relay's watchdog ends only when the connections are closed
(`WatchdogLast`), which unblocks the copiers.

`WebSessionProofs`. That a revoked session stays dead although a push may have read
it before needs: a token is used once (`TokensOnce`), a row that was deleted is in
no hands that would write it back (`DeletedIsDead`), a revocation that has deleted
and not yet invalidated holds the mutex that a caching push needs (`Mutex`), and a
revoked token's cached validation says so (`RevokedIsDead`). `UpdateInOrder` is about what
calls of the agent and its one job do to each other; inductive is who has the agent
(`OneOwner`: the call that is about to queue its update, or whose update is not over, has
set the flag and is the only one) and, for each place of a call, what was done for it
(`Told`).

`PagesProofs`. `SocketDiscipline` of `Console` relates what was set, what is rendered
and what the effect holds, and is inductive only with the types of the three: a socket
that the page has not closed is the effect's own, a name that is free closes nothing and
the page has not closed the socket it uses (`ClosingsKnown`), a retry is armed only without
one, a stopped effect has neither, and what is on a socket's wire is no newer than the
server's last snapshot (`SnapshotsInOrder`). The steps that connect, stop and settle are lemmas; each
handler is proved from them. Of `ServerForm`: what a save does to the users depends
on what was sent, and that on the draft of an earlier moment, during which another
client may have saved. The invariant says that what is under way is what the draft
would send now (`SentIsDraft`: the form is disabled meanwhile) and that a form without
an edit says what is stored (`SaysWhatIsStored`).
Of `Editor`: `FirstErrorShown` needs no invariant of the state; each field is on the pane
of its tab wherever it is rendered (`PaneOfField`), and nothing but a refused form says
where to scroll. Of `QueryView`: `FreshAnswer` is inductive with what each request was
made for: the one that is current is the effect's, and what is shown came to it
(`QueryInv`). Of `SelectDiagnostics`: a report is whole because a run that has seen a menu
has the rest of its timers (`Looking`) and has recorded what opened it (`Recorded`).

`ChartedOnce` of `TrafficHistory` compares a chart with what was ever carried, although the
counters start again with each generation. The invariant is a budget (`ChartInv`): what a
history charts, and what it would still chart if the counters were read now (`Rest`), is
no more than what was carried; and so for a history and a snapshot on its way to it (`Due`:
what the snapshot gained on the baselines, and what came after it). A step of the server
adds at no instance more to what is due than to what was carried, so that one lemma on sums
(`BudgetKept`) covers traffic, reloads and restarts; a sample moves what is due to what is
charted, or drops it; and saving, loading and a crash only exchange histories that each
have the budget. Points that are added begin where the last sample was, so that intervals
do not overlap, even after the clock was set back.

Only model-checked: liveness, since fairness is out of the prover's reach, and
the `TurnsExact` of five modules, which no run lists and which speak of `ENABLED`
(section 6). Every safety
property of a passing run, invariant, action property or refinement, is a theorem, for
every value of the constants.

The version of tlapm used mistranslates an `@` inside an `EXCEPT` that is itself the
value of another `EXCEPT` and refers to the inner one; the definitions proofs are
about write the value out there.

## 8. Where the code and what is said of it disagree

Two of them are `violation` runs; the texts and lines are under `findings`.

* `heartbeat_deadlock` (`internal/manager/heartbeat.go:191`). The Reload a recovered heartbeat calls finds the server disabled, shuts its own generation down and waits for the goroutine it runs in, holding m.transition.
* `console_revoked` (`web/src/hooks/useOverview.ts:167`). The session is revoked while the overview socket is down: the handshakes that follow are refused without the close code by which the page would know, and the dashboard stays and reconnects again and again.

The others were found in the same way and can be reproduced with the
configuration named. Their properties are stated in the modules with the others
and hold in no run of section 4. A configuration with
several has one of them active and the others commented: swap the comments to see
another.

* `tlc -config MCManagerFurther.cfg MCManager` violates `HardLimit` with that property active (`internal/manager/manager.go:421`). Reload of a server that is not in the map calls newInstance(cfg, nil) (manager.go:234-235), which allocates a new instanceLimits, while a generation retired by an earlier reload may still be draining with the old one (up to 30 s): reload, disable, enable, and the sessions of both generations together exceed max_connections. README.md:329 says of udp.max_associations, one of the four limiters of that object, "热重载的新旧 listener generation 共用同一额度", and internal/policy/access.go:194-196 "This lets listener generations share one hard budget while a hot reload drains established sessions." The run reaches it with a budget of one session and two open sessions.
* `tlc -config MCManagerFurther.cfg MCManager` violates `OnlyCurrentAcceptsHTTP` with that property active (`internal/httpproxy/server.go:185`). StopAccepting of the HTTP server closes s.listener if there is one and sets no flag, so a server that is between Listen and Serve, or in the retry backoff of launch, when its generation is replaced installs a listener afterwards (Serve checks only s.closing, lines 129-134) and takes the port its replacement is about to bind. The comment at server.go:183-184 says "Established HTTP requests and CONNECT tunnels remain usable while a replacement binds the same port"; the SOCKS5 server keeps acceptingStopped for this case (internal/socks5/server.go:209-220).
* `tlc -config MCStoreFurther.cfg MCStore` violates `SnapshotsMonotonic` with that property active (`internal/manager/manager.go:282`). Reload shuts a replacement that did not become ready down (manager.go:281-282) without beginMetricHandoffLocked, although its SOCKS5 listener may have accepted and counted traffic while its HTTP listener was not ready, or before the root context ended: the counts vanish from Snapshots. metrics_handoff.go:15-17 says of the handoff "Snapshots therefore remain monotonic across a hot reload". The run shows a snapshot smaller than the one before it.
* `tlc -config MCStoreFurther.cfg MCStore` violates `RowsWithinTraffic` with that property active (`internal/manager/stats_collector.go:140`). subOrCurrent returns the whole cumulative counter when it is smaller than the previous one, on the assumption that it was reset to zero; but a failed replacement only lowers it, so that traffic already stored in earlier rows is stored again. stats_collector.go:21-22 says "statsCollector records per-minute server statistics by diffing cumulative counter snapshots". In the run the rows add up to more than all generations have counted.
* `tlc -config MCStoreFurther.cfg MCStore` violates `NextTickRetries` with that property active (`internal/manager/stats_collector.go:85`). collect replaces c.last by the new snapshot before SaveServerStats is called, and a failed write is only logged (lines 85-90 and 108-113): the difference of that minute is in no later row. docs/superpowers/specs/2026-08-06-persistent-statistics-design.md:133 says "Collector write failures are logged; the next tick retries."
* `tlc -config MCHeartbeatFurther.cfg MCHeartbeat` violates `CooldownBetweenRecoveries` with that property active (`internal/manager/heartbeat.go:43`). lastVohiveAttempt and vohiveInProgress belong to the instance, and a recovery's own Reload (line 83) replaces the instance: the new generation may start the next recovery after consecutive_failures heartbeats, however long the cooldown is, even while the first recovery still runs. docs/superpowers/plans/2026-08-06-vohive-auto-recovery.md:554 describes the cooldown as "两次恢复操作之间的最小间隔" (the least time between two recoveries).
* `tlc -config MCHeartbeatFurther.cfg MCHeartbeat` violates `FastModeReleased` with that property active (`internal/manager/vohive_heartbeat.go:143`). The first failure of an instance's heartbeat takes a reference (enterVohiveFastMode) and its recovery gives it back; an instance that is replaced, disabled or removed while it fails never does, so that fastRefCount stays positive and Vohive is polled every 5 s for good. docs/superpowers/specs/2026-08-06-vohive-events-and-auto-recovery-design.md:21 says "所有外部心跳恢复 30s 后恢复常规定时间隔"; vohive_heartbeat.go:147 "Keep fast mode alive for a 30 s grace period after the last failure."
* `tlc -config HttpDrainHijacked.cfg HttpDrain` violates `HijackedDrains` (`internal/httpproxy/server.go:434`). src/internal/httpproxy/server.go:194-195 says of GracefulClose that it "drains ordinary HTTP requests via http.Server.Shutdown and separately waits for hijacked CONNECT handlers, which net/http no longer owns". A handler between Hijack (395) and track (402) is owned by neither: Shutdown returns without it, GracefulClose sets closing (200), and track then closes client and upstream, so an accepted CONNECT request is cut without a response although the drain has time left.
* `tlc -config DnsCacheCancelled.cfg DnsCache` violates `OwnCancellation` (`internal/socks5/doh_cache.go:72`). The race of a flight runs under the context of the caller that started it (doh_cache.go:83), and its error, context.Canceled or DeadlineExceeded included, is returned to every follower (71-73): a client that disconnects fails the lookups of other clients whose own contexts are fine and whose timeouts have hardly begun. doh.go:449-450 propagates a cancellation only "so abandoned HTTPS requests do not linger", meaning the cancellation of the caller itself ("Still propagate real caller cancellation and server shutdown"); the lookups failed here are not abandoned, and the next identical query would start a new race.
* `tlc -config ConfigurationFurther.cfg Configuration` violates `AddressesUnique` with that property active (`internal/store/store.go:345`). saveServer checks for a conflicting row and writes in two statements without a transaction, and Reload writes rows back (manager.go:323-328) without the web server's configurationMu, so the write of one can follow the check of the other and two rows get one listen address. store_test.go:35 states of a second server with the same address: "expected listen conflict".
* `tlc -config ConfigurationFurther.cfg Configuration` violates `RunsWhatIsStored` with that property active (`internal/webui/server.go:473`). After a failed Reload the handler writes the row it read before its own save, although Reload restores the configuration of the instance it found, and a background Reload may have started the new row in between: the new configuration runs and the old one is stored, until the next reload. reload_test.go:466-470 demands of a failed reload that SQLite and the listeners are rolled back together: "failed reload was not rolled back in SQLite" and the "restored-listener" answers.
* `tlc -config ConfigurationFurther.cfg Configuration` violates `AnsweredIsStored` with that property active (`internal/manager/manager.go:323`). A background Reload that read the old row and fails writes it back over the row the handler has just stored; the handler's Reload then loads the old row, succeeds, and the request is answered 200 with the new configuration (webui/server.go:481-482) although neither the store nor the instance has it. README.md:453 says of POST /api/servers/{id}/toggle: "启用或停用实例" (enables or disables the instance).
* `tlc -config ConfigurationFurther.cfg Configuration` violates `RefusedChangesNothing` with that property active (`internal/manager/manager.go:323`). Two background Reloads and three requests: the first leaves an instance that differs from its row (see RunsWhatIsStored); the second has noted that instance's configuration to write it back on failure, and does so after the handler's compensation (webui/server.go:469-479) has restored the row, so that a request that was refused leaves a row which is neither the one it found nor the one it asked for. reload_test.go:466-470 demands after a failed reload: "failed reload was not rolled back in SQLite".
* `tlc -config SelfUpdateStale.cfg SelfUpdate` violates `RefusedRightly` (`internal/selfupdate/controller.go:64`). src/internal/selfupdate/checker.go:26 defines ErrUpdateInProgress as "an update is already in progress", and src/internal/webui/update.go:71 answers with it. Trigger returns it whenever the status file says queued or running (controller.go:64-65), but the file outlives the agent: an agent that is stopped or killed during an update (serve returns at agent.go:147-148 without waiting for performUpdate), or whose last write fails (agent.go:282-284), leaves running behind, and neither serve nor Trigger ever corrects it. Every later request is refused with no update in progress until the file is removed: on Alpine and OpenWrt nothing removes it (alpine/wwan-proxy-updater.openrc:33, openwrt/wwan-proxy-updater.init:13 only create the directory), while on systemd the RuntimeDirectory of wwan-proxy-updater.service goes with the unit, which leaves the failed last write only as long as the agent stays up.
* `tlc -config WebSessionFurther.cfg WebSession` violates `LogoutDeletes` with that property active (`internal/webui/auth.go:122`). logout drops the error of DeleteSession, clears the cookie and answers 204 when the DELETE fails (or the context of the request is done): the session row stays and its token remains valid until it expires. README.md:301 says of the sessions "退出登录会立即删除服务端会话" (logging out deletes the server-side session at once).
* `tlc -config WebSessionFurther.cfg WebSession` violates `PolicyHolds` with that property active (`internal/webui/auth.go:136`). issueSession reads the lifetime (136) and creates the session later (142); a saveSettings that stores a shorter lifetime and applies it in between does not see the new session, which keeps the old lifetime. Two saveSettings at once, each a SaveSettings and then an ApplySessionLifetime, can also end with the lifetime of the one applied to the sessions and that of the other in the settings. store/auth.go:133-135 says of ApplySessionLifetime "A changed administrator policy therefore takes effect immediately for already logged-in devices as well as future logins."
* `tlc -config WebSessionFurther.cfg WebSession` violates `LiveIsKept` with that property active (`internal/store/auth.go:91`). ValidateSessionExpiry reads a row and, when it has expired, deletes it by its token in a second statement, without looking at the expiry again: when ApplySessionLifetime has dated the row anew in between, the device that the new policy logged in is logged out. store/auth.go:133-135: "A changed administrator policy therefore takes effect immediately for already logged-in devices as well as future logins."
* `tlc -config ConsoleRevoked.cfg Console` violates `DisconnectedRetries` with that property active (`web/src/hooks/useOverview.ts:171`). The page says "实时连接已断开，正在自动重连。" (src/web/src/App.tsx:343), and README.md:20 promises "断线自动退避重连" (reconnects with backoff when disconnected), but for the code 1008 the socket is left closed without a retry, and when an answer of the session's refresh comes before React has rendered the expiry, the dashboard keeps its effect and its closed socket.

No text says the following of the cache, so that it is not among the disagreements: the
time since an answer was stored is rounded down to seconds before it is taken off the
lifetimes (`internal/socks5/doh_cache.go:277`), while the entry expires at its exact time.
An answer with ten seconds to live that is handed out after 0.9 s says ten seconds again,
and a client may keep it up to a second longer than the cache does. `HitsAge` states both
bounds.

## 9. What is not modelled, and why

* Self-update release check and download (`internal/selfupdate/checker.go`, `internal/selfupdate/download.go`, `internal/selfupdate/interface.go`, `internal/webui/update.go`). HTTP requests to GitHub, version comparison and checksum verification: sequential code whose outcome is a choice in SelfUpdate.
* Web console: pages that only show (`web/src/pages/OverviewPage.tsx`, `web/src/pages/PerformancePage.tsx`, `web/src/components/TrafficChart.tsx`, `web/src/components/MetricCard.tsx`). Functions of the overview that is given to them; their state is presentation.
* Web console: built assets (`internal/webui/static/index.html`). Generated from src/web by its build.
* SOCKS5 protocol and session handling (`internal/socks5/server.go`, `internal/socks5/protocol.go`). The accept loop, the draining and the shutdown of the server are in Manager; the handshake of one session is a sequential parse whose wire format is abstracted away.
* UDP ports and advertised addresses (`internal/socks5/udp_port.go`). Planned with the admission of an association; the choice of a port is a probe of the operating system.
* Chained upstream proxy (`internal/socks5/upstream.go`). A sequential client handshake; the failures it reports are a failing dial of the models.
* Racing DNS transport (`internal/socks5/dns_conn.go`). Planned: candidates race and the losers are closed, dns_conn.go.
* Configuration validation and defaults (`internal/config/config.go`). Pure validation of one value, covered by unit tests; the models take validated configurations.
* SQLite schema, opening, relocation and migrations (`internal/store/store.go`, `internal/store/errors.go`). Planned: the crash windows of OpenWithWebDefault and of the credential migration. The credentials that a save keeps are in ServerForm; the rows of servers are in Configuration.
* Log sink and events (`internal/store/loghandler.go`, `internal/store/vohive_events.go`). Planned: the bounded queue of log records and its flush at shutdown.
* Vohive client and health (`internal/vohive/client.go`, `internal/vohive/health.go`, `internal/manager/heartbeat_diagnostics.go`). An HTTP client of an external service; RestartDevice is one outcome in Heartbeat, the token refresh is planned.
* Read-only web handlers and static files (`internal/webui/stats.go`, `internal/webui/vohive.go`, `internal/webui/static_handler.go`). No state of their own.
* Command-line programs (`cmd/wwan-proxy/main.go`, `cmd/socks5-check/main.go`). main wires the components together and passes the signal on (Interrupt and Close of Manager); socks5-check is a test client.
* Installation scripts (`scripts/install-alpine.sh`, `scripts/install-ubuntu.sh`, `scripts/install-openwrt.sh`). Shell scripts that act on the host: files, services and firewall rules, outside the reach of a state machine of this program.

Within the modelled components the `note` of each in `PROJECT.json` says what is
left out. Of the listed hazards these have no property yet:

* `internal/manager/manager.go:421`: A server is disabled and enabled again while the sessions of a generation that an earlier reload replaced still drain: the new generation gets limits of its own, and both together may admit more than the configured maximum. LimitsHold is about reloads that hand the limits on. The code does not prevent it: MCManagerFurther.cfg shows HardLimit violated (README, section 8).
* `internal/manager/stats_collector.go:85`: The database write fails after the collector has moved its reference snapshot on: the traffic of that minute is in no row. The code does not prevent it: MCStoreFurther.cfg shows NextTickRetries violated (README, section 8).
* `internal/manager/heartbeat.go:43`: The cooldown of the last recovery is remembered by an object that the recovery's own reload replaces. The code does not prevent it: MCHeartbeatFurther.cfg shows CooldownBetweenRecoveries violated (README, section 8).
* `internal/manager/vohive_heartbeat.go:134`: A goroutine that has taken a reference of the fast mode is cancelled before it gives it back, when its generation is replaced, disabled or removed while it fails: the mode stays on. The code does not prevent it: MCHeartbeatFurther.cfg shows FastModeReleased violated (README, section 8).
* `internal/manager/manager.go:323`: A reload of a heartbeat or a recovery fails and writes a configuration back that was read, or started, before a request changed the row. AnswersMatchRow is about behaviours without such reloads. With them either row is overwritten and two rows get one address: ConfigurationFurther.cfg shows AnsweredIsStored, RefusedChangesNothing and AddressesUnique violated (README, section 8).
* `internal/selfupdate/controller.go:64`: The status file outlives an agent that dies in the middle of an update, and says that the update is still running: the next request is refused although nothing runs. That the agent itself can run another update is EndsWhatItMust; the refusal before it is asked is not prevented: SelfUpdateStale.cfg shows RefusedRightly violated (README, section 8).
* `web/src/App.tsx:164`: edit waits for two calls; when they answer after a logout, the editor of the old login opens at the next one, and the onClose of an old save can close an editor opened since. Editor models both, and no text of the repository says what should happen.

## 10. Plan

Done, in this order: the hand-over (`Manager`), its counters and heartbeats
(`Metrics`, `Heartbeat`), the limiters (`Admission` with `Budget`), the UDP
association, the resolver, the writers of a configuration, the web sessions, the
access rules, the shutdown of the HTTP proxy, BIND, the relay, the update agent;
then the web console (`Console`, `ServerForm`, `Editor`, `QueryView`,
`TrafficHistory`, `UpdateCard`) and the diagnosis script; proofs of `Manager` (all
the safety properties of its run), `Admission`, `AccessRules`, `Console`, `ServerForm`,
`WebSession`, `SelfUpdate`, `Heartbeat`, `Metrics`, `Configuration`, `HttpDrain`,
`BindAccept`, `Relay`, `UdpAssociation`, `DnsCache`, `Editor`, `QueryView`, `TrafficHistory`,
`SelectDiagnostics`. A new component joins the group it is nearest to (`MCStore` for what is kept,
`MCNetwork` and `MCTunnels` for what carries traffic, `MCWeb` for the server's side of
the web interface, `MCPages` for the browser's), and so
that the time of a run stays within minutes a group is checked with the least
bounds that reach its hazards.

Next, modules:

1. the crash windows of the store: relocation of the database and migration of
   the credentials, with a crash between any two steps and a second start;
2. the log sink: bounded queue, batches, drop counters, flush at shutdown;
3. the Vohive client and its poll: token refresh, restart in two calls, fast mode;
4. the racing DNS transport: candidates, the winner, the closing of the losers;
5. the login limiter and the system settings;
6. the SOCKS5 server's own lifecycle (`Serve`, `closing`, the sets of
   connections), which `Manager` takes as a whole.

Next, proofs: as invariants without fairness, in the way of `NobodyStuck` and `NeverStuck`,
what the runs `web` and `console` rest on (`EndsWhatItMust`, `RefreshSettles`,
`ChangeShown`).

## Running

`tlc -config MCManager.cfg MCManager` checks one run, `tlapm ManagerProofs.tla`
one module of proofs. `PROJECT.json` has the table of runs, mutants, hazards,
findings and theorems, and for each definition the lines it models.
