--------------------------- MODULE TrafficHistory ---------------------------
(* The curve of the last five minutes, which each tab of the console makes   *)
(* of the counters in the snapshots it gets, and keeps in the browser        *)
(* (web/src/hooks/useOverview.ts, loadHistory, sample and save).  Upload and *)
(* download are treated alike: one counter stands for both.                  *)
EXTENDS Integers, FiniteSets, Functions

CONSTANTS
  Tabs,         \* tabs of one browser, one user
  Instances,    \* servers that run
  Apart,        \* 750 ms, in units of time
  Window,       \* five minutes, in units of time
  MaxPoints,    \* 300
  MaxTime,      \* bound: how long is watched
  MaxBack,      \* bound: by how much the clock is set back
  MaxBytes,     \* bound: bytes of an instance
  MaxRestarts   \* bound: restarts, of an instance or of the service

HistoryAssumption ==
  Apart \in Nat \ {0} /\ Window \in Nat /\ Apart <= Window /\ MaxPoints \in Nat \ {0}
  /\ MaxBack \in Nat /\ IsFiniteSet(Instances)

VARIABLES
  now, service, generation, counter, counted, restarts,   \* the server
  seen,         \* the snapshot each tab gets next; NoSnapshot for none
  history,      \* the samples of each tab; those in localStorage
  stored

serverVars == <<now, service, generation, counter, counted, restarts>>
vars == <<serverVars, seen, history, stored>>

NoBaseline == [generation |-> -1, bytes |-> 0]
\* Each point is later than those before it, so that the array is the set of its points.
EmptyHistory == [service |-> -1, at |-> 0, baselines |-> [i \in Instances |-> NoBaseline],
                 points |-> {}]
NoSnapshot == [at |-> 0, service |-> -1, instances |-> [i \in Instances |-> NoBaseline]]

\* counted is what was ever carried, counter what the current generation tells of it; the
\* time 0 of an empty history is long ago
Init ==
  /\ now = Window + MaxBack + 1 /\ service = 0 /\ generation = [i \in Instances |-> 0]
  /\ counter = [i \in Instances |-> 0] /\ counted = [i \in Instances |-> 0] /\ restarts = 0
  /\ seen = [t \in Tabs |-> NoSnapshot]
  /\ history = [t \in Tabs |-> EmptyHistory] /\ stored = EmptyHistory

-----------------------------------------------------------------------------
(* The server *)

Time ==
  /\ now < MaxTime /\ now' = now + 1
  /\ UNCHANGED <<service, generation, counter, counted, restarts, seen, history, stored>>

Traffic(i) ==
  /\ counted[i] < MaxBytes
  /\ counter' = [counter EXCEPT ![i] = @ + 1] /\ counted' = [counted EXCEPT ![i] = @ + 1]
  /\ UNCHANGED <<now, service, generation, restarts, seen, history, stored>>

\* A reload starts a new generation, whose counters start at zero; a restart of the
\* service does so for all of them
Reload(i) ==
  /\ restarts < MaxRestarts /\ restarts' = restarts + 1
  /\ generation' = [generation EXCEPT ![i] = @ + 1] /\ counter' = [counter EXCEPT ![i] = 0]
  /\ UNCHANGED <<now, service, counted, seen, history, stored>>
ServiceRestarts ==
  /\ restarts < MaxRestarts /\ restarts' = restarts + 1 /\ service' = service + 1
  /\ generation' = [i \in Instances |-> generation[i] + 1]
  /\ counter' = [i \in Instances |-> 0]
  /\ UNCHANGED <<now, counted, seen, history, stored>>

\* A snapshot is sent: the tab may get it later, and after another one is due.  The clock
\* it is dated by may have been set back.
Push(t, at) ==
  /\ seen[t] = NoSnapshot
  /\ seen' = [seen EXCEPT ![t] =
       [at |-> at, service |-> service,
        instances |-> [i \in Instances |->
                         [generation |-> generation[i], bytes |-> counter[i]]]]]
  /\ UNCHANGED <<serverVars, history, stored>>

-----------------------------------------------------------------------------
(* sample() *)

\* the history a snapshot is added to: of this service, and within the window
Recent(h, s) ==
  LET mine == IF h.service \notin {-1, s.service} THEN EmptyHistory ELSE h
  IN [mine EXCEPT !.service = s.service,
                  !.points = {p \in mine.points : p.at >= s.at - Window /\ p.at <= s.at}]

\* the instances whose counters go on from those of the baseline
Matched(h, s) ==
  {i \in Instances : /\ h.baselines[i].generation = s.instances[i].generation
                     /\ s.instances[i].bytes >= h.baselines[i].bytes}

Since(h, s) ==
  SumFunctionOnSet([i \in Instances |-> s.instances[i].bytes - h.baselines[i].bytes],
                   Matched(h, s))

\* slice(-300)
Last(points) ==
  {p \in points : Cardinality({q \in points : q.at > p.at}) < MaxPoints}

\* Fault: a snapshot that comes too soon is charted, and leaves the baseline alone
SampleKeepsBaseline(h, s) ==
  LET r == Recent(h, s)  elapsed == s.at - r.at
      points == IF Matched(r, s) # {} /\ elapsed > 0 /\ elapsed <= Window
                THEN r.points \cup {[at |-> s.at, since |-> r.at, bytes |-> Since(r, s)]}
                ELSE r.points
  IN IF elapsed > 0 /\ elapsed < Apart THEN [r EXCEPT !.points = points]
     ELSE [service |-> s.service, at |-> s.at, baselines |-> s.instances, points |-> points]

\* A point is charted as the bytes since the last one divided by the time since then
Sample(h, s) ==
  LET r == Recent(h, s)  elapsed == s.at - r.at
      points == IF Matched(r, s) # {} /\ elapsed >= Apart /\ elapsed <= Window
                THEN r.points \cup {[at |-> s.at, since |-> r.at, bytes |-> Since(r, s)]}
                ELSE r.points
  IN IF elapsed > 0 /\ elapsed < Apart THEN r
     ELSE [service |-> s.service, at |-> s.at, baselines |-> s.instances,
           points |-> Last(points)]

-----------------------------------------------------------------------------
(* A tab *)

\* onmessage; once in three seconds the history is saved
Message(t, save) ==
  /\ seen[t] # NoSnapshot /\ seen' = [seen EXCEPT ![t] = NoSnapshot]
  /\ history' = [history EXCEPT ![t] = Sample(@, seen[t])]
  /\ stored' = IF save THEN history'[t] ELSE stored
  /\ UNCHANGED serverVars

\* pagehide and the cleanup of the effect save; loadHistory reads what was saved last, by
\* whichever tab
Reopen(t) ==
  /\ stored' = history[t] /\ history' = [history EXCEPT ![t] = stored']
  /\ seen' = [seen EXCEPT ![t] = NoSnapshot]
  /\ UNCHANGED serverVars
\* The browser is killed, or cannot store anything
Crash(t) ==
  /\ history' = [history EXCEPT ![t] = stored] /\ seen' = [seen EXCEPT ![t] = NoSnapshot]
  /\ UNCHANGED <<serverVars, stored>>

Next ==
  \/ Time \/ ServiceRestarts
  \/ \E i \in Instances : Traffic(i) \/ Reload(i)
  \/ \E t \in Tabs :
       \/ Reopen(t) \/ Crash(t)
       \/ \E at \in now - MaxBack .. now : Push(t, at)
       \/ \E b \in BOOLEAN : Message(t, b)

Spec == Init /\ [][Next]_vars

-----------------------------------------------------------------------------
(* Properties *)

Histories == {history[t] : t \in Tabs} \cup {stored}

TypeOK ==
  /\ now \in 1..MaxTime /\ restarts \in 0..MaxRestarts
  /\ \A i \in Instances : counted[i] \in 0..MaxBytes /\ counter[i] \in 0..counted[i]
  /\ \A h \in Histories : h.at \in 0..MaxTime /\ Cardinality(h.points) <= MaxPoints

Charted(h) == SumFunctionOnSet([p \in h.points |-> p.bytes], h.points)

\* Each history charts a byte once at most, however tabs, reloads of the page and restarts
\* of servers interleave: the intervals of its points do not overlap, and their bytes are
\* no more than what was carried
ChartedOnce ==
  \A h \in Histories :
    /\ Charted(h) <= SumFunctionOnSet(counted, Instances)
    /\ \A p \in h.points : p.at - p.since \in Apart..Window /\ p.at \in h.at - Window .. h.at
    /\ \A p, q \in h.points : p # q => p.at <= q.since \/ q.at <= p.since
=============================================================================
