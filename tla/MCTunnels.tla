----------------------------- MODULE MCTunnels -----------------------------
(* What carries the connections of a session, for TLC: the HTTP server with *)
(* its tunnels, a BIND request, and the relay.  They share no state, so that *)
(* a behaviour is one of one of them: subject says which, and the variables  *)
(* of the others keep their initial values.                                  *)
EXTENDS Naturals

CONSTANTS Conns, Drainers, Closers, Peers, Allowed, Idle, MaxChunks

VARIABLES
  subject,
  serve, listening, inShutdown, closing, handlerCount, active, at, open, upstream,
  call, handlerDone, expired,
  bindMain, outcome, replies, bindListening, timedOut, ctx, watch, read, bindResult,
  pastDeadline, client, unread, consumed, backlog, peers, ctxWatch, tracked, bindClosing,
  sent, ended, cut, relayOpen, copier, failed, delivered, errCh, relayMain, first,
  relayResult, watchdog, timer, quiet

Http == INSTANCE HttpDrain
Bind == INSTANCE BindAccept WITH main <- bindMain, listening <- bindListening,
                                 result <- bindResult, closing <- bindClosing
Relay == INSTANCE Relay WITH open <- relayOpen, main <- relayMain, result <- relayResult

ASSUME TunnelsAssumption ==
  Http!CallersAssumption /\ Bind!PeersAssumption /\ Relay!RelayAssumption

httpVars == <<serve, listening, inShutdown, closing, handlerCount, active, at, open,
              upstream, call, handlerDone, expired>>
bindVars == <<bindMain, outcome, replies, bindListening, timedOut, ctx, watch, read,
              bindResult, pastDeadline, client, unread, consumed, backlog, peers,
              ctxWatch, tracked, bindClosing>>
relayVars == <<sent, ended, cut, relayOpen, copier, failed, delivered, errCh, relayMain,
               first, relayResult, watchdog, timer, quiet>>
vars == <<subject, httpVars, bindVars, relayVars>>

Init ==
  /\ subject \in {"http", "bind", "relay"}
  /\ Http!Init /\ Bind!Init /\ Relay!Init

Next ==
  \/ subject = "http" /\ Http!Next /\ UNCHANGED <<subject, bindVars, relayVars>>
  \/ subject = "bind" /\ Bind!Next /\ UNCHANGED <<subject, httpVars, relayVars>>
  \/ subject = "relay" /\ Relay!Next /\ UNCHANGED <<subject, httpVars, bindVars>>

Spec == Init /\ [][Next]_vars

\* The fairness of each component, see there
FairSpec ==
  /\ Spec
  /\ WF_httpVars(subject = "http" /\ Http!Serving)
  /\ \A c \in Conns : WF_httpVars(subject = "http" /\ Http!Proceeds(c))
  /\ \A k \in Drainers :
       /\ WF_httpVars(subject = "http" /\ Http!Expire(k))
       /\ WF_httpVars(subject = "http" /\ Http!ShutdownReturns(k))
       /\ WF_httpVars(subject = "http" /\ Http!MarkClosing(k))
       /\ WF_httpVars(subject = "http" /\ Http!Drained(k))
       /\ WF_httpVars(subject = "http" /\ \E cs \in SUBSET Conns : Http!ShutdownPolls(k, cs))
  /\ \A k \in Drainers \cup Closers :
       WF_httpVars(/\ subject = "http"
                   /\ \/ call[k] # "ready" /\ Http!Close(k)
                      \/ Http!HttpClose(k) \/ Http!CloseReturns(k))
  /\ WF_bindVars(subject = "bind" /\ Bind!Session)
  /\ WF_bindVars(subject = "bind" /\ Bind!ControlWatch)
  /\ WF_bindVars(subject = "bind" /\ Bind!ContextWatch)
  /\ WF_bindVars(subject = "bind" /\ Bind!ContextEnds("deadline"))
  /\ WF_relayVars(subject = "relay" /\ Relay!Tick)
  /\ WF_relayVars(subject = "relay" /\ Relay!Watchdog)
  /\ WF_relayVars(subject = "relay" /\ Relay!Session)
  /\ \A s \in Relay!Sides : WF_relayVars(subject = "relay" /\ Relay!Copier(s))

-----------------------------------------------------------------------------
\* What has returned leaves nothing behind: after Close or GracefulClose no handler,
\* tunnel or upstream connection, after Bidirectional no goroutine and no connection; and
\* until then whoever it waits for can go on
\* (httpproxy/server.go:160-176, 196-211, netrelay/relay.go:58-97).
NothingLeft ==
  Http!NothingLeft /\ Http!NeverStuck /\ Relay!NothingLeft /\ Relay!NeverStuck

\* A drain of the HTTP server cuts no plain request and no established tunnel
\* (httpproxy/server.go:183-184, 194-195).
DrainKeepsWork == Http!DrainKeepsWork

\* The peer of a BIND request is announced over an untouched control connection, and
\* a request that has ended was answered for the reason it ended; no goroutine of it waits
\* for ever (bind.go:72-90, 222-285).
BindSettled ==
  Bind!AnnouncedIntact /\ Bind!CauseReported /\ Bind!Answered /\ Bind!NeverStuck

\* A tunnel is cut neither early nor late: a peer that ends its direction goes on
\* receiving, silence is cut in time, and a clean end has delivered everything
\* (relay.go:58-64, 79-97).
CutWhenDue == Relay!HalfCloseKept /\ Relay!CutInTime /\ Relay!CleanEnd

\* What the NeverStuck of the components take for the guards of who goes on are the guards.
TurnsExact == Http!TurnsExact /\ Bind!TurnsExact /\ Relay!TurnsExact

\* Everything ends: a drain or close of the HTTP server, the wait for the peer of a
\* BIND request with its two watchers, a tunnel whose peers fall silent.
EverythingEnds ==
  /\ Http!ClosingEnds
  /\ subject = "bind" => Bind!WaitEnds
  /\ subject = "relay" => Relay!RelayEnds
=============================================================================
