------------------------------- MODULE Relay -------------------------------
(***************************************************************************)
(* The relay of a tunnel (Bidirectional in internal/netrelay/relay.go):    *)
(* two copiers, one for each direction, a watchdog that both feed with     *)
(* their activity, and the session that waits for the copiers.  Either     *)
(* peer may end its direction and go on receiving, fail, or stop reading.  *)
(*                                                                         *)
(* Time passes in ticks.  A chunk is what one Read returns.                *)
(***************************************************************************)
EXTENDS Integers, Sequences

CONSTANTS
  Idle,        \* the idle timeout, in ticks
  MaxChunks    \* bound: chunks that a peer sends

RelayAssumption == Idle \in Nat \ {0} /\ MaxChunks \in Nat

Sides == {"client", "upstream"}
Other(s) == IF s = "client" THEN "upstream" ELSE "client"

VARIABLES
  sent,        \* chunks that the peer of a side has sent
  ended,       \* how the peer of a side ended its stream: "no", "eof" or "reset"
  cut,         \* the server has closed the connections it tracks
  open,        \* sides whose connection is not closed on this end
  copier,      \* the copier that reads from a side: "reading", "writing",
               \* "reporting" or "done"
  failed,      \* copiers whose io.CopyBuffer returned an error
  delivered,   \* chunks of a side that were written to the other one
  errCh,       \* results of the copiers: TRUE for an error
  main,        \* "first", "second", "stopping" or "returned"
  first,       \* the first result
  result,      \* what Bidirectional returns: "none", "nil" or "error"
  watchdog,    \* "armed", "closing" or "done"
  timer,       \* ticks until the watchdog's timer fires
  quiet        \* ticks since lastActivity, at most Idle

peer == <<sent, ended, cut>>
copies == <<copier, failed, delivered>>
session == <<main, first, result>>
clock == <<watchdog, timer, quiet>>
vars == <<peer, open, copies, errCh, session, clock>>

TypeOK ==
  /\ sent \in [Sides -> 0..MaxChunks] /\ ended \in [Sides -> {"no", "eof", "reset"}]
  /\ cut \in BOOLEAN /\ open \subseteq Sides /\ failed \subseteq Sides
  /\ copier \in [Sides -> {"reading", "writing", "reporting", "done"}]
  /\ \A s \in Sides : delivered[s] \in 0..sent[s]
  /\ errCh \in Seq(BOOLEAN) /\ Len(errCh) <= 2
  /\ main \in {"first", "second", "stopping", "returned"}
  /\ first \in BOOLEAN /\ result \in {"none", "nil", "error"}
  /\ watchdog \in {"armed", "closing", "done"}
  /\ timer \in 0..Idle /\ quiet \in 0..Idle

-----------------------------------------------------------------------------
(* The peers and time *)

Sends(s) ==
  /\ ended[s] = "no" /\ sent[s] < MaxChunks /\ s \in open
  /\ sent' = [sent EXCEPT ![s] = @ + 1]
  /\ UNCHANGED <<ended, cut, open, copies, errCh, session, clock>>

Ends(s, how) ==
  /\ ended[s] = "no"
  /\ ended' = [ended EXCEPT ![s] = how]
  /\ UNCHANGED <<sent, cut, open, copies, errCh, session, clock>>

\* Close of the proxy server, which tracks the connections of its tunnels
ServerCloses ==
  /\ ~cut /\ main # "returned"
  /\ cut' = TRUE
  /\ open' = {}
  /\ UNCHANGED <<sent, ended, copies, errCh, session, clock>>

Tick ==
  /\ timer > 0 /\ watchdog = "armed"
  /\ timer' = timer - 1
  /\ quiet' = IF quiet < Idle THEN quiet + 1 ELSE Idle
  /\ UNCHANGED <<peer, open, copies, errCh, session, watchdog>>

-----------------------------------------------------------------------------
(* copyOne *)

CopierGoes(s, place) == copier' = [copier EXCEPT ![s] = place]

Reads(s) ==
  /\ copier[s] = "reading" /\ s \in open /\ ended[s] # "reset"
  /\ \/ delivered[s] < sent[s] /\ CopierGoes(s, "writing")
     \/ delivered[s] = sent[s] /\ ended[s] = "eof" /\ CopierGoes(s, "reporting")
  /\ UNCHANGED <<peer, open, failed, delivered, errCh, session, clock>>

\* Writes to a peer that reads; its activity is what the watchdog sees.
Writes(s) ==
  /\ copier[s] = "writing" /\ Other(s) \in open /\ ended[Other(s)] # "reset"
  /\ delivered' = [delivered EXCEPT ![s] = @ + 1]
  /\ quiet' = 0
  /\ CopierGoes(s, "reading")
  /\ UNCHANGED <<peer, open, failed, errCh, session, watchdog, timer>>

\* Read or Write returns an error: the connection is reset or was closed.
CopyFails(s) ==
  /\ \/ copier[s] = "reading" /\ (s \notin open \/ ended[s] = "reset")
     \/ copier[s] = "writing" /\ (Other(s) \notin open \/ ended[Other(s)] = "reset")
  /\ failed' = failed \cup {s}
  /\ CopierGoes(s, "reporting")
  /\ UNCHANGED <<peer, open, delivered, errCh, session, clock>>

\* CloseWrite passes the end of the stream on; the result goes to the session.
Reports(s) ==
  /\ copier[s] = "reporting"
  /\ errCh' = Append(errCh, s \in failed)
  /\ CopierGoes(s, "done")
  /\ UNCHANGED <<peer, open, failed, delivered, session, clock>>

-----------------------------------------------------------------------------
(* The watchdog *)

\* Fault: the timer starts again in full
RearmsInFull ==
  /\ watchdog = "armed" /\ timer = 0
  /\ \/ quiet >= Idle /\ watchdog' = "closing" /\ UNCHANGED timer
     \/ quiet < Idle /\ timer' = Idle /\ UNCHANGED watchdog
  /\ UNCHANGED <<peer, open, copies, errCh, session, quiet>>

\* The timer fires: either nothing was written for the idle time, or it is set
\* to what remains of it.
Fires ==
  /\ watchdog = "armed" /\ timer = 0
  /\ \/ quiet >= Idle /\ watchdog' = "closing" /\ UNCHANGED timer
     \/ quiet < Idle /\ timer' = Idle - quiet /\ UNCHANGED watchdog
  /\ UNCHANGED <<peer, open, copies, errCh, session, quiet>>

WatchdogCloses ==
  /\ watchdog = "closing"
  /\ open' = {}
  /\ watchdog' = "done"
  /\ UNCHANGED <<peer, copies, errCh, session, timer, quiet>>

\* watchdogStop is closed
WatchdogStops ==
  /\ watchdog = "armed" /\ main = "stopping"
  /\ watchdog' = "done"
  /\ UNCHANGED <<peer, open, copies, errCh, session, timer, quiet>>

-----------------------------------------------------------------------------
(* Bidirectional *)

First ==
  /\ main = "first" /\ errCh # <<>>
  /\ first' = Head(errCh)
  /\ errCh' = Tail(errCh)
  /\ open' = IF first' THEN {} ELSE open
  /\ main' = "second"
  /\ UNCHANGED <<peer, copies, result, clock>>

Second ==
  /\ main = "second" /\ errCh # <<>>
  /\ errCh' = Tail(errCh)
  /\ open' = {}
  /\ result' = IF first \/ Head(errCh) THEN "error" ELSE "nil"
  /\ main' = "stopping"
  /\ UNCHANGED <<peer, copies, first, clock>>

Returns ==
  /\ main = "stopping" /\ watchdog = "done"
  /\ main' = "returned"
  /\ UNCHANGED <<peer, open, copies, errCh, first, result, clock>>

-----------------------------------------------------------------------------
Init ==
  /\ sent = [s \in Sides |-> 0] /\ ended = [s \in Sides |-> "no"]
  /\ cut = FALSE /\ open = Sides /\ failed = {}
  /\ copier = [s \in Sides |-> "reading"]
  /\ delivered = [s \in Sides |-> 0]
  /\ errCh = <<>> /\ main = "first" /\ first = FALSE /\ result = "none"
  /\ watchdog = "armed" /\ timer = Idle /\ quiet = 0

Copier(s) == Reads(s) \/ CopyFails(s) \/ Reports(s)
Watchdog == Fires \/ WatchdogCloses \/ WatchdogStops
Session == First \/ Second \/ Returns

Next ==
  \/ \E s \in Sides :
       Sends(s) \/ Ends(s, "eof") \/ Ends(s, "reset") \/ Copier(s) \/ Writes(s)
  \/ ServerCloses \/ Tick \/ Watchdog \/ Session

Spec == Init /\ [][Next]_vars

\* Time passes and the goroutines run; a Write may be blocked by its peer for
\* ever, and no peer needs to send or to end.
Fairness ==
  /\ WF_vars(Tick) /\ WF_vars(Watchdog) /\ WF_vars(Session)
  /\ \A s \in Sides : WF_vars(Copier(s))

FairSpec == Spec /\ Fairness

-----------------------------------------------------------------------------
\* A peer that ends its direction goes on receiving: the relay closes a
\* connection only after an error, the idle time, or the end of both directions,
\* unless the server does
\* (relay.go:79-81, 86-93).
HalfCloseKept ==
  open # Sides => \/ cut \/ failed # {}
                  \/ watchdog = "done"
                  \/ \A s \in Sides : copier[s] = "done"

\* A relay without an error has delivered everything that either peer sent
\* before it ended its stream, even if the watchdog fired meanwhile
\* (relay.go:86-97).
CleanEnd ==
  result = "nil" => \A s \in Sides : ended[s] = "eof" /\ delivered[s] = sent[s]

\* The watchdog's timer fires no later than the idle time after the last write:
\* a tunnel that moves nothing is cut in time (relay.go:58-64).
CutInTime == watchdog = "armed" => timer <= Idle - quiet

\* When Bidirectional returns, its goroutines have ended and the connections
\* are closed.
NothingLeft ==
  main = "returned" =>
    open = {} /\ watchdog = "done" /\ \A s \in Sides : copier[s] = "done"

\* What goes on by itself: a copier that does not wait for data or for its peer to read,
\* the watchdog whose timer has fired or that is told to stop, and the session that has a
\* result, or whose watchdog has ended.
CopiersTurn(s) ==
  \/ copier[s] = "reporting"
  \/ copier[s] = "reading" /\ (s \notin open \/ ended[s] # "no" \/ delivered[s] < sent[s])
  \/ copier[s] = "writing" /\ (Other(s) \notin open \/ ended[Other(s)] = "reset")

WatchdogsTurn == watchdog = "closing" \/ (watchdog = "armed" /\ (timer = 0 \/ main = "stopping"))

SessionsTurn ==
  \/ main \in {"first", "second"} /\ errCh # <<>>
  \/ main = "stopping" /\ watchdog = "done"

\* These are the guards of the actions.
TurnsExact ==
  /\ \A s \in Sides : CopiersTurn(s) <=> ENABLED Copier(s)
  /\ WatchdogsTurn <=> ENABLED Watchdog
  /\ SessionsTurn <=> ENABLED Session

\* Bidirectional never waits for ever: as long as a result is missing a copier is under
\* way; one that waits for its peer has a watchdog who will close the connections, and
\* once that has ended nothing blocks a copier; and the watchdog it waits for at the end
\* can go on (relay.go:58-97).
NeverStuck ==
  /\ main \in {"first", "second"} => SessionsTurn \/ \E s \in Sides : copier[s] # "done"
  /\ \A s \in Sides : copier[s] # "done" => CopiersTurn(s) \/ watchdog # "done"
  /\ main = "stopping" => SessionsTurn \/ WatchdogsTurn

\* A relay whose peers fall silent, or read nothing, ends.
RelayEnds == <>(main = "returned")

=============================================================================
