---------------------------- MODULE BindAccept -----------------------------
(***************************************************************************)
(* One SOCKS5 BIND request (internal/socks5/bind.go): the session waits    *)
(* for a peer on a listener of its own, while one goroutine watches the    *)
(* control connection and another one the context, and both end the wait   *)
(* by closing the listener.  The watcher of the control connection reads   *)
(* from the connection that the relay will read from later, so it has to   *)
(* be stopped, by a read deadline in the past, before a peer is announced. *)
(***************************************************************************)
EXTENDS Naturals, Sequences

CONSTANTS
  Peers,       \* connections that reach the listener
  Allowed      \* those that the constraint and the access rules admit

PeersAssumption == Allowed \subseteq Peers

VARIABLES
  main,        \* where the session is
  outcome,     \* what acceptBindPeer returns: "none" while it runs
  replies,     \* second bytes of the replies written to the client
  listening,   \* ln is open
  timedOut,    \* the deadline of ln has passed
  ctx,         \* "live", "cancelled" or "deadline"
  watch,       \* the control watcher: "none", "reading", "sending", "closing", "done"
  read,        \* what its Read returned
  result,      \* controlResult
  pastDeadline, \* the client's read deadline is in the past
  client,      \* the control connection: "open", "ended" by the client, "closed"
  unread,      \* a byte of the client has arrived and nobody has read it
  consumed,    \* the control watcher has read a byte
  backlog,     \* peers that wait to be accepted
  peers,       \* accepted peers that are open
  ctxWatch,    \* the context watcher: "none", "waiting" or "done"
  tracked,     \* peers in Server.active
  closing      \* Server.closing

session == <<main, outcome, replies>>
control == <<watch, read, result, pastDeadline, consumed>>
outside == <<client, unread, timedOut, ctx, closing>>
vars == <<session, control, outside, listening, backlog, peers, ctxWatch, tracked>>

Results == {"none", "data", "end", "timeout"}

TypeOK ==
  /\ main \in {"start", "accept", "failed", "stopping", "finished", "replying", "relay", "done"}
  /\ outcome \in {"none", "peer", "control", "context", "listener"}
  /\ Len(replies) <= 2 /\ \A i \in DOMAIN replies : replies[i] \in {"success", "failure"}
  /\ watch \in {"none", "reading", "sending", "closing", "done"}
  /\ read \in Results /\ result \in Results
  /\ ctx \in {"live", "cancelled", "deadline"} /\ client \in {"open", "ended", "closed"}
  /\ ctxWatch \in {"none", "waiting", "done"}
  /\ {listening, timedOut, pastDeadline, unread, consumed, closing} \subseteq BOOLEAN
  /\ backlog \subseteq Peers /\ peers \subseteq Peers \ backlog /\ tracked \subseteq Allowed

-----------------------------------------------------------------------------
(* The client, the peers, time and the shutdown of the server *)

ClientSends ==
  /\ client = "open" /\ main # "done" /\ ~unread /\ ~consumed
  /\ unread' = TRUE
  /\ UNCHANGED <<session, control, client, timedOut, ctx, closing, listening, backlog, peers, ctxWatch, tracked>>

ClientEnds ==
  /\ client = "open"
  /\ client' = "ended"
  /\ UNCHANGED <<session, control, unread, timedOut, ctx, closing, listening, backlog, peers, ctxWatch, tracked>>

PeerDials(p) ==
  /\ listening /\ p \notin backlog \cup peers /\ main # "relay"
  /\ backlog' = backlog \cup {p}
  /\ UNCHANGED <<session, control, outside, listening, peers, ctxWatch, tracked>>

ListenerTimesOut ==
  /\ main = "accept" /\ ~timedOut
  /\ timedOut' = TRUE
  /\ UNCHANGED <<session, control, client, unread, ctx, closing, listening, backlog, peers, ctxWatch, tracked>>

\* The timeout of the request, or Server.Close: cancel, then the connections
ContextEnds(why) ==
  /\ ctx = "live" /\ main # "done"
  /\ ctx' = why
  /\ UNCHANGED <<session, control, client, unread, timedOut, closing, listening, backlog, peers, ctxWatch, tracked>>

ServerCloses ==
  /\ ctx = "cancelled" /\ ~closing
  /\ closing' = TRUE
  /\ client' = "closed"
  /\ peers' = peers \ tracked
  /\ UNCHANGED <<session, control, unread, timedOut, ctx, listening, backlog, ctxWatch, tracked>>

-----------------------------------------------------------------------------
(* The two watchers of acceptBindPeer *)

\* Read returns.  A deadline that is set while the call is under way may come
\* too late for data that is already there.
WatchReads(what) ==
  /\ watch = "reading"
  /\ \/ what = "data" /\ unread /\ client # "closed"
     \/ what = "end" /\ client # "open" /\ (~unread \/ client = "closed")
     \/ what = "timeout" /\ pastDeadline /\ client # "closed"
  /\ read' = what
  /\ consumed' = (consumed \/ what = "data")
  /\ unread' = (unread /\ what # "data")
  /\ watch' = "sending"
  /\ UNCHANGED <<session, result, pastDeadline, client, timedOut, ctx, closing, listening, backlog, peers, ctxWatch, tracked>>

WatchSends ==
  /\ watch = "sending"
  /\ result' = read
  /\ watch' = "closing"
  /\ UNCHANGED <<session, read, pastDeadline, consumed, outside, listening, backlog, peers, ctxWatch, tracked>>

WatchCloses ==
  /\ watch = "closing"
  /\ listening' = FALSE
  /\ watch' = "done"
  /\ UNCHANGED <<session, read, result, pastDeadline, consumed, outside, backlog, peers, ctxWatch, tracked>>

ControlWatch == (\E what \in Results : WatchReads(what)) \/ WatchSends \/ WatchCloses

ContextWatch ==
  /\ ctxWatch = "waiting"
  /\ \/ ctx # "live" /\ listening' = FALSE
     \/ main \in {"finished", "replying", "relay", "done"} /\ UNCHANGED listening
  /\ ctxWatch' = "done"
  /\ UNCHANGED <<session, control, outside, backlog, peers, tracked>>

-----------------------------------------------------------------------------
(* The session *)

\* What handleBindContext leaves behind: the listener and the peers are closed.
Leave(answers) ==
  /\ main' = "done"
  /\ replies' = replies \o answers
  /\ listening' = FALSE
  /\ backlog' = {}
  /\ peers' = {}
  /\ tracked' = {}

\* A reply is lost when the server has closed the control connection.
Answer(code) == IF client = "closed" THEN <<>> ELSE <<code>>

StartFails ==
  /\ main = "start"
  /\ Leave(Answer("failure"))
  /\ UNCHANGED <<outcome, control, outside, ctxWatch>>

\* Listen, the first reply, and acceptBindPeer starts its watchers.
Starts ==
  /\ main = "start" /\ client # "closed"
  /\ main' = "accept"
  /\ replies' = Append(replies, "success")
  /\ listening' = TRUE
  /\ watch' = "reading"
  /\ ctxWatch' = "waiting"
  /\ UNCHANGED <<outcome, read, result, pastDeadline, consumed, outside, backlog, peers, tracked>>

Refuses(p) ==
  /\ main = "accept" /\ listening /\ p \in backlog \ Allowed
  /\ backlog' = backlog \ {p}
  /\ UNCHANGED <<session, control, outside, listening, peers, ctxWatch, tracked>>

\* An admitted peer: stopControlWatch sets the deadline.
Accepts(p) ==
  /\ main = "accept" /\ listening /\ p \in backlog \cap Allowed
  /\ backlog' = backlog \ {p}
  /\ peers' = peers \cup {p}
  /\ main' = "stopping"
  /\ pastDeadline' = TRUE
  /\ UNCHANGED <<outcome, replies, watch, read, result, consumed, outside, listening, ctxWatch, tracked>>

\* Accept fails: the result of the control watcher comes first.
AcceptFails ==
  /\ main = "accept" /\ (~listening \/ timedOut)
  /\ \/ /\ result # "none"
        /\ outcome' = "control"
        /\ main' = "finished"
        /\ pastDeadline' = FALSE
     \/ /\ result = "none"
        /\ main' = "failed"
        /\ UNCHANGED <<outcome, pastDeadline>>
  /\ UNCHANGED <<replies, watch, read, result, consumed, outside, listening, backlog, peers, ctxWatch, tracked>>

\* Fault: the watcher is awaited without the deadline that ends its Read
WaitsWithoutDeadline ==
  /\ main = "failed"
  /\ outcome' = (IF ctx # "live" THEN "context" ELSE "listener")
  /\ main' = "stopping"
  /\ UNCHANGED <<replies, control, outside, listening, backlog, peers, ctxWatch, tracked>>

\* Then the context, then the error of the listener itself; either stops the watcher.
FailsWithoutControl ==
  /\ main = "failed"
  /\ outcome' = (IF ctx # "live" THEN "context" ELSE "listener")
  /\ main' = "stopping"
  /\ pastDeadline' = TRUE
  /\ UNCHANGED <<replies, watch, read, result, consumed, outside, listening, backlog, peers, ctxWatch, tracked>>

\* Fault: a byte that the watcher read is ignored
StoppedIgnores ==
  /\ main = "stopping" /\ result # "none"
  /\ pastDeadline' = FALSE
  /\ main' = "finished"
  /\ outcome' = (IF outcome = "none" THEN "peer" ELSE outcome)
  /\ UNCHANGED <<replies, watch, read, result, consumed, outside, listening, backlog, peers, ctxWatch, tracked>>

\* The rest of stopControlWatch, and what acceptBindPeer does with its error
Stopped ==
  /\ main = "stopping" /\ result # "none"
  /\ pastDeadline' = FALSE
  /\ main' = "finished"
  /\ outcome' = CASE outcome # "none"    -> outcome
                  [] result = "timeout"  -> "peer"
                  [] OTHER               -> "control"
  /\ peers' = IF outcome' = "peer" THEN peers ELSE {}
  /\ UNCHANGED <<replies, watch, read, result, consumed, outside, listening, backlog, ctxWatch, tracked>>

\* The error is net.ErrClosed or context.Canceled: no second reply
Silent ==
  \/ outcome = "control" /\ result = "end" /\ client = "closed"
  \/ outcome = "context" /\ ctx = "cancelled"
  \/ outcome = "listener" /\ ~timedOut

Fails ==
  /\ main = "finished" /\ outcome # "peer"
  /\ Leave(IF Silent THEN <<>> ELSE Answer("failure"))
  /\ UNCHANGED <<outcome, control, outside, ctxWatch>>

\* trackOutbound
Track ==
  /\ main = "finished" /\ outcome = "peer"
  /\ \/ closing /\ Leave(<<>>)
     \/ /\ ~closing
        /\ main' = "replying"
        /\ tracked' = peers
        /\ UNCHANGED <<replies, listening, backlog, peers>>
  /\ UNCHANGED <<outcome, control, outside, ctxWatch>>

\* The second reply
Announces ==
  /\ main = "replying"
  /\ \/ client = "closed" /\ Leave(<<>>)
     \/ /\ client # "closed"
        /\ main' = "relay"
        /\ replies' = Append(replies, "success")
        /\ UNCHANGED <<listening, backlog, peers, tracked>>
  /\ UNCHANGED <<outcome, control, outside, ctxWatch>>

RelayEnds ==
  /\ main = "relay"
  /\ Leave(<<>>)
  /\ UNCHANGED <<outcome, control, outside, ctxWatch>>

-----------------------------------------------------------------------------
Init ==
  /\ main = "start" /\ outcome = "none" /\ replies = <<>>
  /\ listening = FALSE /\ timedOut = FALSE /\ ctx = "live" /\ closing = FALSE
  /\ watch = "none" /\ read = "none" /\ result = "none"
  /\ pastDeadline = FALSE /\ consumed = FALSE
  /\ client = "open" /\ unread = FALSE
  /\ backlog = {} /\ peers = {} /\ tracked = {}
  /\ ctxWatch = "none"

Session ==
  \/ StartFails \/ Starts \/ AcceptFails \/ FailsWithoutControl \/ Stopped
  \/ Fails \/ Track \/ Announces
  \/ \E p \in Peers : Refuses(p) \/ Accepts(p)

Next ==
  \/ ClientSends \/ ClientEnds \/ ListenerTimesOut \/ ServerCloses
  \/ ContextEnds("cancelled") \/ ContextEnds("deadline")
  \/ \E p \in Peers : PeerDials(p)
  \/ ControlWatch \/ ContextWatch
  \/ Session \/ RelayEnds

Spec == Init /\ [][Next]_vars

\* Goroutines that can run do; the timeout of the request passes.  Nothing is
\* assumed of the client and the peers.
Fairness ==
  /\ WF_vars(Session) /\ WF_vars(ControlWatch) /\ WF_vars(ContextWatch)
  /\ WF_vars(ContextEnds("deadline"))

FairSpec == Spec /\ Fairness

-----------------------------------------------------------------------------
\* A peer is announced only if it is admitted and the connection it will be
\* relayed to is untouched: the watcher has stopped, has read nothing, and the
\* read deadline is gone (bind.go:248-256, 279-283).
AnnouncedIntact ==
  outcome = "peer" =>
    /\ peers \subseteq Allowed
    /\ ~consumed /\ ~pastDeadline /\ watch \in {"closing", "done"}

\* The listener is closed by whoever ends the wait, and still acceptBindPeer
\* tells why it ended: an error of the listener itself is only its deadline.
CauseReported == outcome = "listener" => timedOut

\* Every request gets its answer: as long as the server is not shut down, the
\* first reply is followed by a second one (bind.go:72-78), and nothing is
\* left of the request.
Answered ==
  main = "done" =>
    /\ ~listening /\ peers = {}
    /\ ctx # "cancelled" => replies \in {<<"failure">>, <<"success", "failure">>, <<"success", "success">>}

\* What goes on by itself: the session, unless it waits for a peer or for the watcher of
\* the control connection; that watcher, unless its Read waits for the client; and the
\* watcher of the context, once the request or its time is over.
SessionsTurn ==
  \/ main \in {"start", "failed", "finished", "replying"}
  \/ main = "accept" /\ (~listening \/ timedOut \/ backlog # {})
  \/ main = "stopping" /\ result # "none"

WatchersTurn ==
  \/ watch \in {"sending", "closing"}
  \/ watch = "reading" /\ (unread \/ client # "open" \/ pastDeadline)

ContextsTurn ==
  ctxWatch = "waiting" /\ (ctx # "live" \/ main \in {"finished", "replying", "relay", "done"})

\* These are the guards of the actions.
TurnsExact ==
  /\ SessionsTurn <=> ENABLED Session
  /\ WatchersTurn <=> ENABLED ControlWatch
  /\ ContextsTurn <=> ENABLED ContextWatch

\* Nobody waits for ever: the watcher that the session stops can go on; a wait for a peer
\* ends when the client says or ends anything or the time is over; and when the session has
\* left the wait, both watchers can (bind.go:222-285).
NeverStuck ==
  /\ main = "stopping" => SessionsTurn \/ WatchersTurn
  /\ main = "accept" /\ (unread \/ client # "open" \/ watch # "reading" \/ ctx # "live") =>
       SessionsTurn \/ WatchersTurn \/ ContextsTurn
  /\ main \in {"finished", "replying", "relay", "done"} =>
       /\ watch \in {"none", "done"} \/ WatchersTurn
       /\ ctxWatch = "waiting" => ContextsTurn

\* A request ends or finds its peer, and its watchers end with it.
WaitEnds == <>(main \in {"relay", "done"} /\ watch \in {"none", "done"} /\ ctxWatch \in {"none", "done"})

=============================================================================
