--------------------------- MODULE UdpAssociation ---------------------------
(***************************************************************************)
(* One SOCKS5 UDP association (internal/socks5/udp.go): the loop that      *)
(* reads the client's datagrams and queues them, the workers that resolve  *)
(* and send them, the readers that bring responses back, the grants that   *)
(* say whose responses pass, and the shutdown of all of them.              *)
(*                                                                         *)
(* Only the identity of an endpoint matters here: a target stands for what *)
(* targetKey makes of it.  A worker has at most one grant token at a time, *)
(* so that its name stands for the token's id.  Time is a counter that may *)
(* advance between any two steps.                                          *)
(***************************************************************************)
EXTENDS Integers, Sequences, FiniteSets, SequencesExt

CONSTANTS
  Targets,        \* keys of allowedTargets
  IPv6Targets,    \* those reached through the udp6 socket
  Sources,        \* endpoints that send datagrams to the relay port
  Workers,        \* udpResolveWorkers goroutines
  QueueCap,       \* udpResolveQueue
  MaxTargets,     \* udpMaxTargets
  TTL, Idle,      \* targetTTL and idle timeout
  MaxTime,        \* bound: the clock
  MaxDatagrams    \* bound: datagrams the pinned client sends

UdpAssumption ==
  /\ IsFiniteSet(Targets) /\ IPv6Targets \subseteq Targets
  /\ QueueCap \in Nat \ {0} /\ MaxTargets \in Nat \ {0}
  /\ TTL \in Nat \ {0} /\ Idle \in 1..TTL
  /\ MaxTime \in Nat /\ MaxDatagrams \in Nat

Nobody == "nobody"
NobodyAssumption ==
  /\ Nobody \notin Targets \cup Sources
  /\ {"none", "read", "ended"} \cap Targets = {}   \* of a reader, see there

VARIABLES
  chained,    \* the server has an upstream proxy: one socket serves all targets
  now,
  ctxDone,    \* the association's context: control connection, server, upstream
  phase,      \* of loop and of the function deferred in it
  after,      \* the context's AfterFunc has closed the sockets
  clientAt,   \* the pinned source, or Nobody
  clientOpen, \* the relay socket
  queue,      \* jobs
  worker,     \* what each worker does: [at, todo, exp, ok]
  sock,       \* out4, out6 and the upstream packet socket
  reader,     \* the goroutine that reads each of them, and its packet's source
  committed,  \* committedUntil of each grant, 0 when it is the zero time
  pending,    \* the pending tokens: [key, by, exp]
  last,       \* lastUnix
  received, uploaded, dropped,  \* diagnostics
  owed,       \* observer: until when a successful send entitles a target
  lost        \* observer: workers whose token was evicted

grantVars == <<committed, pending, owed, lost>>
countVars == <<received, uploaded, dropped>>
vars == <<chained, now, ctxDone, phase, after, clientAt, clientOpen, queue, worker,
          sock, reader, grantVars, last, countVars>>

Sockets == {"out4", "out6", "up"}
Time    == 0..(MaxTime + TTL)
Phase   == {"read", "cancel", "close", "join", "close2", "wait", "done"}
Rest    == [at |-> "idle", todo |-> <<>>, exp |-> 0, ok |-> FALSE]

Known == {k \in Targets : committed[k] # 0 \/ \E g \in pending : g.key = k}

TypeOK ==
  /\ chained \in BOOLEAN /\ now \in 0..MaxTime /\ ctxDone \in BOOLEAN
  /\ phase \in Phase /\ after \in BOOLEAN
  /\ clientAt \in Sources \cup {Nobody} /\ clientOpen \in BOOLEAN
  /\ queue \in Seq(Targets) /\ Len(queue) <= QueueCap
  /\ worker \in [Workers -> [at : {"idle", "resolve", "next", "out", "write", "fin",
                                   "ended"},
                             todo : Seq(Targets), exp : Time, ok : BOOLEAN]]
  /\ sock \in [Sockets -> {"none", "open", "closed"}]
  /\ reader \in [Sockets -> {"none", "read", "ended"} \cup Targets]
  /\ committed \in [Targets -> Time]
  /\ pending \subseteq [key : Targets, by : Workers, exp : Time]
  /\ Cardinality(Known) <= MaxTargets
  /\ last \in 0..MaxTime
  /\ received \in 0..MaxDatagrams
  /\ uploaded \in 0..MaxDatagrams /\ dropped \in 0..MaxDatagrams
  /\ owed \in [Targets -> Time] /\ lost \subseteq Workers

-----------------------------------------------------------------------------
(* Grants                                                                  *)

\* pruneOneTargetGrantLocked for the keys in S, on committed and pending
PrunedUntil(S, c) ==
  [k \in Targets |-> IF k \in S /\ c[k] <= now THEN 0 ELSE c[k]]
PrunedPending(S, p) == {g \in p : g.key \notin S \/ g.exp > now}

KnownIn(c, p) == {k \in Targets : c[k] # 0 \/ \E g \in p : g.key = k}

\* The latest deadline of a grant
Deadline(k, c, p) ==
  LET D == {c[k]} \cup {g.exp : g \in {x \in p : x.key = k}}
  IN CHOOSE d \in D : \A e \in D : e <= d

Oldest(c, p) ==
  {k \in KnownIn(c, p) :
     \A j \in KnownIn(c, p) : Deadline(k, c, p) <= Deadline(j, c, p)}

\* beginTargetGrant: a new target makes room in a full table by pruning all of it,
\* and then by evicting a grant with the oldest deadline
BeginGrant(w, k) ==
  LET c1 == PrunedUntil({k}, committed)
      p1 == PrunedPending({k}, pending)
      full == k \notin KnownIn(c1, p1) /\ Cardinality(KnownIn(c1, p1)) >= MaxTargets
      c2 == IF full THEN PrunedUntil(Targets, c1) ELSE c1
      p2 == IF full THEN PrunedPending(Targets, p1) ELSE p1
      E  == IF full /\ Cardinality(KnownIn(c2, p2)) >= MaxTargets
            THEN {{e} : e \in Oldest(c2, p2)} ELSE {{}}
  IN \E V \in E :
       /\ committed' = [j \in Targets |-> IF j \in V THEN 0 ELSE c2[j]]
       /\ pending' = {g \in p2 : g.key \notin V}
                       \cup {[key |-> k, by |-> w, exp |-> now + TTL]}
       /\ owed' = [j \in Targets |-> IF j \in V THEN 0 ELSE owed[j]]
       /\ lost' = (lost \cup {g.by : g \in {x \in p2 : x.key \in V}}) \ {w}

Later(a, b) == IF a < b THEN b ELSE a

\* Fault: a send that failed takes back what an earlier one granted
FinishRevokes(w, k, ok) ==
  LET mine == {g \in pending : g.key = k /\ g.by = w}
      c == [committed EXCEPT ![k] = IF ok /\ mine # {}
                                    THEN Later(@, worker[w].exp) ELSE 0]
  IN /\ committed' = PrunedUntil({k}, c)
     /\ pending' = PrunedPending({k}, pending \ mine)
     /\ owed' = [owed EXCEPT ![k] = IF ok /\ w \notin lost
                                    THEN Later(@, worker[w].exp) ELSE @]
     /\ lost' = lost \ {w}

\* finishTargetGrant: only a token that is still pending commits
FinishGrant(w, k, ok) ==
  LET mine == {g \in pending : g.key = k /\ g.by = w}
      c == [committed EXCEPT ![k] = IF ok /\ mine # {}
                                    THEN Later(@, worker[w].exp) ELSE @]
  IN /\ committed' = PrunedUntil({k}, c)
     /\ pending' = PrunedPending({k}, pending \ mine)
     /\ owed' = [owed EXCEPT ![k] = IF ok /\ w \notin lost
                                    THEN Later(@, worker[w].exp) ELSE @]
     /\ lost' = lost \ {w}

\* targetAllowed, after it has pruned the grant
TargetAllowed(k) == committed[k] > now \/ \E g \in pending : g.key = k /\ g.exp > now

-----------------------------------------------------------------------------
(* The loop                                                                *)

loopRest == <<chained, now, ctxDone, after, clientOpen, worker, sock, reader,
              grantVars, last, uploaded>>

\* A datagram of the client (one of any other source changes nothing): invalid or
\* fragmented, or the queue is full, or queued
Datagram(s) ==
  /\ phase = "read" /\ clientOpen
  /\ clientAt \in {Nobody, s}
  /\ received < MaxDatagrams
  /\ clientAt' = s
  /\ received' = received + 1
  /\ \/ /\ dropped' = dropped + 1
        /\ UNCHANGED <<queue, phase>>
     \/ \E k \in Targets :
          IF Len(queue) >= QueueCap
          THEN dropped' = dropped + 1 /\ UNCHANGED <<queue, phase>>
          ELSE \/ /\ queue' = Append(queue, k)
                  /\ UNCHANGED <<dropped, phase>>
               \/ /\ ctxDone
                  /\ phase' = "cancel"
                  /\ UNCHANGED <<queue, dropped>>
  /\ UNCHANGED loopRest

\* The read fails on the closed socket, or times out after an idle period
LoopLeaves ==
  /\ phase = "read"
  /\ ~clientOpen \/ ctxDone \/ now - last >= Idle
  /\ phase' = "cancel"
  /\ UNCHANGED <<clientAt, queue, received, dropped, loopRest>>

\* The read fails for a reason of its own
LoopFails ==
  /\ phase = "read" /\ clientOpen
  /\ phase' = "cancel"
  /\ UNCHANGED <<clientAt, queue, received, dropped, loopRest>>

-----------------------------------------------------------------------------
(* The end of the association                                              *)

\* closeSockets, which leaves alone a socket that is opened later; the relay socket
\* is closed first, without the lock, which no other step can tell
CloseSockets ==
  /\ clientOpen' = FALSE
  /\ sock' = [s \in Sockets |-> IF sock[s] = "open" THEN "closed" ELSE sock[s]]

endRest == <<chained, now, clientAt, queue, worker, reader, grantVars, last, countVars>>

\* cancel() and close(jobs)
LoopCancels ==
  /\ phase = "cancel"
  /\ ctxDone' = TRUE
  /\ phase' = "close"
  /\ UNCHANGED <<after, clientOpen, sock, endRest>>

LoopCloses ==
  /\ phase = "close"
  /\ CloseSockets
  /\ phase' = "join"
  /\ UNCHANGED <<ctxDone, after, endRest>>

\* Fault: the workers are not waited for
JoinSkipped ==
  /\ phase = "join"
  /\ phase' = "close2"
  /\ UNCHANGED <<ctxDone, after, clientOpen, sock, endRest>>

\* workers.Wait
LoopJoins ==
  /\ phase = "join"
  /\ \A w \in Workers : worker[w].at = "ended"
  /\ phase' = "close2"
  /\ UNCHANGED <<ctxDone, after, clientOpen, sock, endRest>>

\* Fault: the sockets are closed only once
CloseOnce ==
  /\ phase = "close2"
  /\ phase' = "wait"
  /\ UNCHANGED <<ctxDone, after, clientOpen, sock, endRest>>

\* A worker may have opened a socket since the first close
LoopClosesAgain ==
  /\ phase = "close2"
  /\ CloseSockets
  /\ phase' = "wait"
  /\ UNCHANGED <<ctxDone, after, endRest>>

\* a.wg.Wait
LoopWaits ==
  /\ phase = "wait"
  /\ \A s \in Sockets : reader[s] \in {"none", "ended"}
  /\ phase' = "done"
  /\ UNCHANGED <<ctxDone, after, clientOpen, sock, endRest>>

Loop == LoopLeaves \/ LoopCancels \/ LoopCloses \/ LoopJoins \/ LoopClosesAgain
        \/ LoopWaits

\* The control connection or the upstream's ends, or the server shuts down
Cancel ==
  /\ ~ctxDone
  /\ ctxDone' = TRUE
  /\ UNCHANGED <<phase, after, clientOpen, sock, endRest>>

\* context.AfterFunc(ctx, a.closeSockets)
AfterFunc ==
  /\ ctxDone /\ ~after
  /\ after' = TRUE
  /\ CloseSockets
  /\ UNCHANGED <<ctxDone, phase, endRest>>

Tick ==
  /\ now < MaxTime
  /\ now' = now + 1
  /\ UNCHANGED <<chained, ctxDone, phase, after, clientAt, clientOpen, queue, worker,
                 sock, reader, grantVars, last, countVars>>

-----------------------------------------------------------------------------
(* The workers                                                             *)

workRest == <<chained, now, ctxDone, phase, after, clientAt, clientOpen, received>>

Goto(w, a)  == worker' = [worker EXCEPT ![w] = [@ EXCEPT !.at = a]]
Restart(w)  == worker' = [worker EXCEPT ![w] = Rest]
SockOf(k)   == IF chained THEN "up" ELSE IF k \in IPv6Targets THEN "out6" ELSE "out4"

\* The range over jobs: the jobs left in a closed channel are still received, and
\* given up by forward
Take(w) ==
  /\ worker[w].at = "idle"
  /\ IF queue # <<>>
     THEN /\ queue' = Tail(queue)
          /\ IF ctxDone THEN UNCHANGED worker
                        ELSE worker' = [worker EXCEPT ![w] =
                               [Rest EXCEPT !.at = "resolve"]]
     ELSE /\ phase \notin {"read", "cancel"}
          /\ Goto(w, "ended")
          /\ UNCHANGED queue
  /\ UNCHANGED <<workRest, sock, reader, grantVars, last, uploaded, dropped>>

\* resolve fails, is refused by the access list, or gives targets to try in order
Resolve(w) ==
  /\ worker[w].at = "resolve"
  /\ \/ /\ Restart(w)
        /\ \/ dropped' = dropped + 1
           \/ ctxDone /\ UNCHANGED dropped
     \/ /\ ~ctxDone
        /\ \E t \in SetToAllKPermutations(Targets) \ {<<>>} :
             worker' = [worker EXCEPT ![w] = [Rest EXCEPT !.at = "next", !.todo = t]]
        /\ UNCHANGED dropped
  /\ UNCHANGED <<workRest, queue, sock, reader, grantVars, last, uploaded>>

\* Fault: every candidate that failed is counted as a dropped datagram
NextCountsEach(w) ==
  /\ worker[w].at = "next" /\ ~ctxDone
  /\ worker[w].todo = <<>>
  /\ Restart(w)
  /\ dropped' = dropped + 2
  /\ UNCHANGED <<workRest, queue, sock, reader, grantVars, last, uploaded>>

\* sendToTargets, the head of its loop: no target left, or no reason to go on
SendGivesUp(w) ==
  /\ worker[w].at = "next"
  /\ ctxDone \/ worker[w].todo = <<>>
  /\ Restart(w)
  /\ dropped' = IF ctxDone THEN dropped ELSE dropped + 1
  /\ UNCHANGED <<workRest, queue, sock, reader, grantVars, last, uploaded>>

SendBegins(w) ==
  /\ worker[w].at = "next" /\ ~ctxDone
  /\ worker[w].todo # <<>>
  /\ BeginGrant(w, Head(worker[w].todo))
  /\ worker' = [worker EXCEPT ![w] =
                  [@ EXCEPT !.at = IF chained THEN "write" ELSE "out", !.exp = now + TTL]]
  /\ UNCHANGED <<workRest, queue, sock, reader, last, uploaded, dropped>>

\* outbound: the family's socket, opened with its reader on first use
Outbound(w) ==
  LET s == SockOf(Head(worker[w].todo)) IN
  /\ worker[w].at = "out"
  /\ \/ /\ sock[s] # "none"
        /\ Goto(w, "write")
        /\ UNCHANGED <<sock, reader>>
     \/ /\ sock[s] = "none"
        /\ Goto(w, "write")
        /\ sock' = [sock EXCEPT ![s] = "open"]
        /\ reader' = [reader EXCEPT ![s] = "read"]
     \/ /\ sock[s] = "none"
        /\ worker' = [worker EXCEPT ![w] = [@ EXCEPT !.at = "fin", !.ok = FALSE]]
        /\ UNCHANGED <<sock, reader>>
  /\ UNCHANGED <<workRest, queue, grantVars, last, uploaded, dropped>>

\* A write may fail, and does on a closed socket
Write(w) ==
  /\ worker[w].at = "write"
  /\ \E ok \in BOOLEAN :
       /\ ok => sock[SockOf(Head(worker[w].todo))] = "open"
       /\ worker' = [worker EXCEPT ![w] = [@ EXCEPT !.at = "fin", !.ok = ok]]
  /\ UNCHANGED <<workRest, queue, sock, reader, grantVars, last, uploaded, dropped>>

SendFinishes(w) ==
  /\ worker[w].at = "fin"
  /\ FinishGrant(w, Head(worker[w].todo), worker[w].ok)
  /\ IF worker[w].ok
     THEN /\ Restart(w)
          /\ uploaded' = uploaded + 1
          /\ last' = now
     ELSE /\ worker' = [worker EXCEPT ![w] =
               [@ EXCEPT !.at = "next", !.todo = Tail(worker[w].todo), !.exp = 0]]
          /\ UNCHANGED <<uploaded, last>>
  /\ UNCHANGED <<workRest, queue, sock, reader, dropped>>

Work(w) ==
  \/ Take(w) \/ Resolve(w) \/ SendGivesUp(w) \/ SendBegins(w) \/ Outbound(w)
  \/ Write(w) \/ SendFinishes(w)

-----------------------------------------------------------------------------
(* The readers of the sockets towards the targets                          *)

readRest == <<chained, now, ctxDone, phase, after, clientAt, clientOpen, queue, worker,
              sock, countVars>>

ReaderEnds(s) ==
  /\ reader[s] = "read" /\ sock[s] = "closed"
  /\ reader' = [reader EXCEPT ![s] = "ended"]
  /\ UNCHANGED <<readRest, grantVars, last>>

\* A response arrives; the grant of its source is pruned and looked at
Response(s, k) ==
  /\ reader[s] = "read" /\ sock[s] = "open" /\ SockOf(k) = s
  /\ committed' = PrunedUntil({k}, committed)
  /\ pending' = PrunedPending({k}, pending)
  /\ IF TargetAllowed(k) THEN reader' = [reader EXCEPT ![s] = k]
                         ELSE UNCHANGED reader
  /\ UNCHANGED <<readRest, owed, lost, last>>

\* deliverResponse; the write fails if the relay socket was closed meanwhile
Deliver(s) ==
  /\ reader[s] \in Targets
  /\ reader' = [reader EXCEPT ![s] = "read"]
  /\ last' \in {last} \cup (IF clientOpen THEN {now} ELSE {})
  /\ UNCHANGED <<readRest, grantVars>>

Read(s) == ReaderEnds(s) \/ Deliver(s)

-----------------------------------------------------------------------------
Init ==
  /\ chained \in BOOLEAN
  /\ now = 0 /\ last = 0
  /\ ctxDone = FALSE /\ phase = "read" /\ after = FALSE
  /\ clientAt = Nobody /\ clientOpen = TRUE /\ queue = <<>>
  /\ worker = [w \in Workers |-> Rest]
  /\ sock = [s \in Sockets |-> IF s = "up" /\ chained THEN "open" ELSE "none"]
  /\ reader = [s \in Sockets |-> IF s = "up" /\ chained THEN "read" ELSE "none"]
  /\ committed = [k \in Targets |-> 0] /\ pending = {}
  /\ received = 0 /\ uploaded = 0 /\ dropped = 0
  /\ owed = [k \in Targets |-> 0] /\ lost = {}

Next ==
  \/ \E s \in Sources : Datagram(s)
  \/ Loop \/ LoopFails \/ Cancel \/ AfterFunc \/ Tick
  \/ \E w \in Workers : Work(w)
  \/ \E s \in Sockets : Read(s) \/ \E k \in Targets : Response(s, k)

Spec == Init /\ [][Next]_vars

-----------------------------------------------------------------------------
(* Whose turn it is, without the client, a target, or time                 *)

LoopsTurn ==
  \/ phase = "read" /\ (~clientOpen \/ ctxDone)
  \/ phase \in {"cancel", "close", "close2"}
  \/ phase = "join" /\ \A w \in Workers : worker[w].at = "ended"
  \/ phase = "wait" /\ \A s \in Sockets : reader[s] \in {"none", "ended"}

\* What ends a write that waits for a full socket buffer is the end of its socket; a
\* socket opened after the others were closed has an empty one
WorkersTurn(w) ==
  \/ worker[w].at = "idle" /\ (queue # <<>> \/ phase \notin {"read", "cancel"})
  \/ worker[w].at \in {"resolve", "next", "out", "fin"}
  \/ worker[w].at = "write" /\ \/ sock[SockOf(Head(worker[w].todo))] = "closed"
                               \/ phase = "join"

ReadersTurn(s) == reader[s] \in Targets \/ (reader[s] = "read" /\ sock[s] = "closed")

-----------------------------------------------------------------------------
\* The response of a target passes exactly while a send to it is under way or a
\* successful one is at most the target's lifetime ago, however many workers send
\* to it, fail or succeed at once; only an eviction from a full table ends it early
\* (udp.go:884-980).
GrantsExact ==
  \A k \in Targets :
    TargetAllowed(k) <=>
      \/ owed[k] > now
      \/ \E w \in Workers : /\ worker[w].at \in {"out", "write", "fin"}
                            /\ Head(worker[w].todo) = k
                            /\ worker[w].exp > now /\ w \notin lost

\* Until the association ends, every datagram taken from the client is queued, in
\* the hands of a worker, sent to one target, or counted as dropped exactly once
\* (udp.go:595-682).
Accounted ==
  ~ctxDone =>
    received = uploaded + dropped + Len(queue)
                 + Cardinality({w \in Workers : worker[w].at # "idle"})

\* When handleUDPContext returns, no worker, reader or open socket is left, also
\* not one that a worker opened after the sockets had been closed (udp.go:560-562).
NothingLeft ==
  phase = "done" =>
    /\ ~clientOpen
    /\ \A s \in Sockets : sock[s] # "open" /\ reader[s] \in {"none", "ended"}
    /\ \A w \in Workers : worker[w].at = "ended"

\* An association that ends is never stuck: until it is over, some goroutine of it
\* can go on without the client, a target, or time (udp.go:534-570, 1011-1026).
NeverStuck ==
  ctxDone /\ phase # "done" =>
    LoopsTurn \/ (\E w \in Workers : WorkersTurn(w)) \/ \E s \in Sockets : ReadersTurn(s)

\* The turns are those in which the actions can be taken.
TurnsExact ==
  ctxDone =>
    /\ LoopsTurn <=> ENABLED Loop
    /\ \A w \in Workers :
         WorkersTurn(w) <=> ENABLED Work(w) /\ (worker[w].at = "write" =>
                              \/ sock[SockOf(Head(worker[w].todo))] = "closed"
                              \/ phase = "join")
    /\ \A s \in Sockets : ReadersTurn(s) <=> ENABLED Read(s)

=============================================================================
