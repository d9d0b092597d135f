----------------------------- MODULE HttpDrain -----------------------------
(***************************************************************************)
(* The shutdown of one HTTP proxy server (internal/httpproxy/server.go):   *)
(* requests and CONNECT tunnels in every stage of their life while         *)
(* GracefulClose and Close run.  The server counts its handlers, tracks    *)
(* the connections of its tunnels, and leaves every other connection to    *)
(* net/http, which forgets a connection that is hijacked.                  *)
(*                                                                         *)
(* A connection carries one request after another.  net/http is external:  *)
(* Shutdown closes idle connections and returns when none is busy, Close   *)
(* closes all that are not hijacked; neither waits for a hijacked one.     *)
(***************************************************************************)
EXTENDS Naturals, FiniteSets

CONSTANTS
  Conns,       \* client connections
  Drainers,    \* calls of GracefulClose (drainInstance of the manager)
  Closers      \* calls of Close (the manager's, the watcher's in Serve)

CallersAssumption == Drainers \cap Closers = {}

Callers == Drainers \cup Closers

VARIABLES
  serve,         \* Serve: "starting", "installed", "accepting" or "ended"
  listening,     \* the listening socket is open
  inShutdown,    \* net/http: Shutdown or Close was called
  closing,       \* Server.closing
  handlerCount,  \* Server.handlerCount
  active,        \* Server.active: connections whose tunnel is tracked
  at,            \* where the request of a connection is
  open,          \* client connections that are open
  upstream,      \* connections whose upstream connection is open
  call,          \* where a call of GracefulClose or Close is
  handlerDone,   \* the channel a call took: "none", "open" or "closed"
  expired        \* calls whose context is over

server == <<serve, listening, inShutdown, closing>>
requests == <<handlerCount, active, at, open, upstream>>
calls == <<call, handlerDone, expired>>
vars == <<server, requests, calls>>

\* Places in ServeHTTP between beginHandler and endHandler
Handled == {"plain", "dialing", "dialled", "hijacked", "tunnel", "ending"}
Places == Handled \cup {"away", "new", "refusing", "idle", "gone"}

At(places) == {c \in Conns : at[c] \in places}

\* Connections that net/http still owns, and those of them that are busy
Owned == At({"new", "refusing", "plain", "dialing", "dialled", "idle"})
Busy == Owned \ At({"idle"})

TypeOK ==
  /\ serve \in {"starting", "installed", "accepting", "ended"}
  /\ {listening, inShutdown, closing} \subseteq BOOLEAN
  /\ at \in [Conns -> Places]
  /\ handlerCount = Cardinality(At(Handled))
  /\ active = At({"tunnel"})
  /\ open \subseteq Conns
  /\ upstream \subseteq At({"dialled", "hijacked", "tunnel"})
  /\ call \in [Callers -> {"ready", "shutdown", "marking", "waiting",
                            "close", "httpClose", "joining", "returned"}]
  /\ handlerDone \in [Callers -> {"none", "open", "closed"}]
  /\ expired \subseteq Drainers

-----------------------------------------------------------------------------
(* Serve *)

ServeInstalls ==
  /\ serve = "starting"
  /\ serve' = (IF closing THEN "ended" ELSE "installed")
  /\ listening' = ~closing
  /\ UNCHANGED <<inShutdown, closing, requests, calls>>

ServeAccepts ==
  /\ serve = "installed" /\ ~inShutdown
  /\ serve' = "accepting"
  /\ UNCHANGED <<listening, inShutdown, closing, requests, calls>>

\* http.Serve returns; ListenAndServe closes the listener on its way out.
ServeEnds ==
  /\ \/ serve = "installed" /\ inShutdown
     \/ serve = "accepting" /\ (inShutdown \/ ~listening)
  /\ serve' = "ended"
  /\ listening' = FALSE
  /\ UNCHANGED <<inShutdown, closing, requests, calls>>

-----------------------------------------------------------------------------
(* Connections and their requests *)

Arrives(c) ==
  /\ at[c] = "away" /\ serve = "accepting" /\ listening
  /\ at' = [at EXCEPT ![c] = "new"]
  /\ open' = open \cup {c}
  /\ UNCHANGED <<handlerCount, active, upstream, server, calls>>

\* A connection ends between two requests.
Leaves(c) ==
  /\ at[c] \in {"new", "idle", "refusing"}
  /\ at' = [at EXCEPT ![c] = "gone"]
  /\ open' = open \ {c}
  /\ UNCHANGED <<handlerCount, active, upstream, server, calls>>

\* beginHandler.  A request that was read in full may still get here after its
\* connection was closed.
Begin(c, kind) ==
  /\ at[c] \in {"new", "idle"}
  /\ \/ /\ closing
        /\ at' = [at EXCEPT ![c] = "refusing"]
        /\ UNCHANGED handlerCount
     \/ /\ ~closing
        /\ at' = [at EXCEPT ![c] = kind]
        /\ handlerCount' = handlerCount + 1
  /\ UNCHANGED <<active, open, upstream, server, calls>>

\* Those who wait for the channel that is closed now
Signal(remaining) ==
  handlerDone' = [k \in Callers |->
    IF remaining = 0 /\ handlerDone[k] = "open" THEN "closed" ELSE handlerDone[k]]

\* Fault: endHandler signals whoever waits, whatever the count
EndSignals(c, place) ==
  /\ at' = [at EXCEPT ![c] = place]
  /\ open' = IF place = "idle" THEN open ELSE open \ {c}
  /\ handlerCount' = handlerCount - 1
  /\ handlerDone' = [k \in Callers |->
       IF handlerDone[k] = "open" THEN "closed" ELSE handlerDone[k]]

\* endHandler: the connection is kept for the next request, or not.
End(c, place) ==
  /\ at' = [at EXCEPT ![c] = place]
  /\ open' = IF place = "idle" THEN open ELSE open \ {c}
  /\ handlerCount' = handlerCount - 1
  /\ Signal(handlerCount - 1)

\* A plain request is answered, refused or failed; it can take for ever while
\* its connection is open.
PlainEnds(c, place) ==
  /\ at[c] = "plain"
  /\ place = "idle" => c \in open /\ ~inShutdown
  /\ End(c, place)
  /\ UNCHANGED <<active, upstream, server, call, expired>>

Dialled(c) ==
  /\ at[c] = "dialing"
  /\ at' = [at EXCEPT ![c] = "dialled"]
  /\ upstream' = upstream \cup {c}
  /\ UNCHANGED <<handlerCount, active, open, server, calls>>

\* The CONNECT request is refused or its dial fails
DialFails(c, place) ==
  /\ at[c] = "dialing"
  /\ place = "idle" => c \in open /\ ~inShutdown
  /\ End(c, place)
  /\ UNCHANGED <<active, upstream, server, call, expired>>

\* net/http hands the connection over and forgets it.
Hijack(c) ==
  /\ at[c] = "dialled"
  /\ at' = [at EXCEPT ![c] = "hijacked"]
  /\ UNCHANGED <<handlerCount, active, open, upstream, server, calls>>

\* track: either the tunnel is known to Close, or it does not start.
Track(c) ==
  /\ at[c] = "hijacked"
  /\ \/ /\ ~closing
        /\ active' = active \cup {c}
        /\ at' = [at EXCEPT ![c] = "tunnel"]
        /\ UNCHANGED <<open, upstream>>
     \/ /\ closing
        /\ at' = [at EXCEPT ![c] = "ending"]
        /\ open' = open \ {c}
        /\ upstream' = upstream \ {c}
        /\ UNCHANGED active
  /\ UNCHANGED <<handlerCount, server, calls>>

\* The relay ends: untrack, then both connections are closed.
TunnelEnds(c) ==
  /\ at[c] = "tunnel"
  /\ active' = active \ {c}
  /\ at' = [at EXCEPT ![c] = "ending"]
  /\ open' = open \ {c}
  /\ upstream' = upstream \ {c}
  /\ UNCHANGED <<handlerCount, server, calls>>

ConnectEnds(c) ==
  /\ at[c] = "ending"
  /\ End(c, "gone")
  /\ UNCHANGED <<active, upstream, server, call, expired>>

-----------------------------------------------------------------------------
(* GracefulClose *)

Goto(k, place) == call' = [call EXCEPT ![k] = place]

\* The channel is read with closing set under the same lock.
TakeDone(k) ==
  handlerDone' = [handlerDone EXCEPT ![k] = IF handlerCount = 0 THEN "closed" ELSE "open"]

StopAccepting(k) ==
  /\ k \in Drainers /\ call[k] = "ready"
  /\ listening' = FALSE
  /\ Goto(k, "shutdown")
  /\ UNCHANGED <<serve, inShutdown, closing, requests, handlerDone, expired>>

\* One round of http.Shutdown: connections that are idle, or that sent nothing
\* for five seconds, are closed.
ShutdownPolls(k, quiet) ==
  /\ call[k] = "shutdown"
  /\ At({"idle"}) \subseteq quiet /\ quiet \subseteq At({"new", "idle"})
  /\ inShutdown' = TRUE
  /\ listening' = (listening /\ serve # "accepting")
  /\ open' = open \ quiet
  /\ UNCHANGED <<serve, closing, handlerCount, active, at, upstream, calls>>

ShutdownReturns(k) ==
  /\ call[k] = "shutdown" /\ inShutdown
  /\ \/ Busy \cap open = {} /\ At({"idle"}) \cap open = {} /\ serve # "accepting"
     \/ k \in expired
  /\ Goto(k, "marking")
  /\ UNCHANGED <<server, requests, handlerDone, expired>>

\* Fault: the tracked connections are closed as in Close
MarkClosesTunnels(k) ==
  /\ call[k] = "marking"
  /\ closing' = TRUE
  /\ open' = open \ active
  /\ upstream' = upstream \ active
  /\ TakeDone(k)
  /\ Goto(k, "waiting")
  /\ UNCHANGED <<serve, listening, inShutdown, handlerCount, active, at, expired>>

MarkClosing(k) ==
  /\ call[k] = "marking"
  /\ closing' = TRUE
  /\ TakeDone(k)
  /\ Goto(k, "waiting")
  /\ UNCHANGED <<serve, listening, inShutdown, requests, expired>>

Drained(k) ==
  /\ call[k] = "waiting"
  /\ \/ handlerDone[k] = "closed" /\ Goto(k, "returned")
     \/ k \in expired /\ Goto(k, "close")
  /\ UNCHANGED <<server, requests, handlerDone, expired>>

\* The context of a drain has a deadline.
Expire(k) ==
  /\ k \in Drainers \ expired /\ call[k] # "ready"
  /\ expired' = expired \cup {k}
  /\ UNCHANGED <<server, requests, call, handlerDone>>

-----------------------------------------------------------------------------
(* Close *)

Close(k) ==
  /\ call[k] = "close" \/ (k \in Closers /\ call[k] = "ready")
  /\ closing' = TRUE
  /\ open' = open \ active
  /\ upstream' = upstream \ active
  /\ TakeDone(k)
  /\ Goto(k, "httpClose")
  /\ UNCHANGED <<serve, listening, inShutdown, handlerCount, active, at, expired>>

HttpClose(k) ==
  /\ call[k] = "httpClose"
  /\ listening' = FALSE
  /\ inShutdown' = TRUE
  /\ open' = open \ Owned
  /\ Goto(k, "joining")
  /\ UNCHANGED <<serve, closing, handlerCount, active, at, upstream, handlerDone, expired>>

CloseReturns(k) ==
  /\ call[k] = "joining" /\ handlerDone[k] = "closed"
  /\ Goto(k, "returned")
  /\ UNCHANGED <<server, requests, handlerDone, expired>>

-----------------------------------------------------------------------------
Init ==
  /\ serve = "starting" /\ listening = FALSE
  /\ inShutdown = FALSE /\ closing = FALSE
  /\ handlerCount = 0 /\ active = {}
  /\ at = [c \in Conns |-> "away"]
  /\ open = {} /\ upstream = {}
  /\ call = [k \in Callers |-> "ready"]
  /\ handlerDone = [k \in Callers |-> "none"]
  /\ expired = {}

Serving == ServeInstalls \/ ServeAccepts \/ ServeEnds

\* What a handler does without waiting for its peers, and once they are gone
Proceeds(c) ==
  \/ Dialled(c) \/ DialFails(c, "gone") \/ Hijack(c) \/ Track(c) \/ ConnectEnds(c)
  \/ at[c] = "refusing" /\ Leaves(c)
  \/ c \notin open /\ (PlainEnds(c, "gone") \/ TunnelEnds(c) \/ Leaves(c))

Progress(k) ==
  \/ StopAccepting(k) \/ (\E quiet \in SUBSET Conns : ShutdownPolls(k, quiet))
  \/ ShutdownReturns(k) \/ MarkClosing(k) \/ Drained(k)
  \/ Close(k) \/ HttpClose(k) \/ CloseReturns(k)

Next ==
  \/ Serving
  \/ \E c \in Conns :
       \/ Arrives(c) \/ Leaves(c) \/ Begin(c, "plain") \/ Begin(c, "dialing")
       \/ PlainEnds(c, "idle") \/ PlainEnds(c, "gone")
       \/ Dialled(c) \/ DialFails(c, "idle") \/ DialFails(c, "gone")
       \/ Hijack(c) \/ Track(c) \/ TunnelEnds(c) \/ ConnectEnds(c)
  \/ \E k \in Callers : Progress(k) \/ Expire(k)

Spec == Init /\ [][Next]_vars

\* Weak fairness of every goroutine, of dials, which have a timeout, and of the
\* deadline of a drain; a peer may be silent for ever.
Fairness ==
  /\ WF_vars(Serving)
  /\ \A c \in Conns : WF_vars(Proceeds(c))
  /\ \A k \in Drainers :
       /\ WF_vars(Expire(k)) /\ WF_vars(ShutdownReturns(k)) /\ WF_vars(MarkClosing(k))
       /\ WF_vars(Drained(k)) /\ WF_vars(\E quiet \in SUBSET Conns : ShutdownPolls(k, quiet))
  /\ \A k \in Callers :
       WF_vars((call[k] # "ready" /\ Close(k)) \/ HttpClose(k) \/ CloseReturns(k))

FairSpec == Spec /\ Fairness

-----------------------------------------------------------------------------
\* A call that may close the connections of work in progress
Forced == expired # {} \/ \E k \in Closers : call[k] # "ready"

\* When Close or GracefulClose has returned, no handler of the server runs or
\* will run, and no tunnel and no upstream connection is left: the manager can
\* reuse the port and the budgets (server.go:160-176, 196-211).
NothingLeft ==
  (\E k \in Callers : call[k] = "returned") =>
    At(Handled) = {} /\ active = {} /\ upstream = {} /\ closing

\* A drain cuts no plain request and no tunnel that is established as long as
\* its deadline is not reached and nobody calls Close (server.go:183-184, 194-195).
DrainKeepsWork ==
  [][\A c \in open : at[c] \in {"plain", "tunnel"} /\ c \notin open' =>
       at'[c] # at[c] \/ Forced']_vars

\* The comment of GracefulClose (server.go:194-195): it waits for hijacked
\* CONNECT handlers.  A request whose connection is hijacked becomes a tunnel
\* unless the drain is forced.
HijackedDrains ==
  [][\A c \in Conns : at[c] = "hijacked" /\ at'[c] = "ending" => Forced]_vars

\* What goes on by itself: Serve, unless it accepts, and a handler that does not wait for
\* its peers, or has none any more.
ServesTurn ==
  \/ serve \in {"starting", "installed"}
  \/ serve = "accepting" /\ (inShutdown \/ ~listening)

HandlersTurn(c) ==
  \/ at[c] \in {"refusing", "dialing", "dialled", "hijacked", "ending"}
  \/ at[c] \in {"new", "idle", "plain", "tunnel"} /\ c \notin open

\* These are the guards of the actions.
TurnsExact ==
  /\ ServesTurn <=> ENABLED Serving
  /\ \A c \in Conns : HandlersTurn(c) <=> ENABLED Proceeds(c)

\* No call waits for ever: one that waits for the handlers has been told that there is
\* none, or there is one, who will tell it; each one that Close waits for goes on
\* whatever its peers do; and when a call has shut net/http down, Serve ends
\* (server.go:160-176, 196-211, 280-300).
NeverStuck ==
  \A k \in Callers :
    /\ call[k] \in {"waiting", "joining"} => handlerDone[k] = "closed" \/ At(Handled) # {}
    /\ call[k] = "joining" => \A c \in At(Handled) : HandlersTurn(c)
    /\ call[k] \in {"marking", "waiting", "joining", "returned"} => ServesTurn \/ serve = "ended"

\* A call of GracefulClose or Close returns, and Serve ends with it, whatever
\* clients and upstreams do.
ClosingEnds ==
  \A k \in Callers :
    call[k] \in {"shutdown", "httpClose"}
      ~> (call[k] = "returned" /\ serve = "ended")

=============================================================================
