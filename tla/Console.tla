------------------------------ MODULE Console ------------------------------
(* One browser tab of the web console: the login session it believes in     *)
(* (web/src/hooks/useSession.ts), the socket that feeds the dashboard        *)
(* (web/src/hooks/useOverview.ts), and the calls of its pages that end in    *)
(* one of them.  Handlers of the tab are atomic.  React applies the queued   *)
(* session some time later, and runs the effects then: session is what was   *)
(* set last, shown is what the page and the effects were made for.  The      *)
(* server is what the tab can tell of it; WebSession has the rest.           *)
EXTENDS Integers, FiniteSets

CONSTANTS
  MaxSockets,   \* bound: WebSocket objects that are not closed
  Asks,         \* bound: requests for /api/auth/status under way
  MaxCalls,     \* bound: calls of the pages under way
  MaxLogins,    \* bound: logins, of this tab and of others of the same browser
  OtherLogins,  \* bound: how many of them are made by another tab
  MaxChanges,   \* bound: changes of the configuration
  MaxNames,     \* bound: changes of the administrator's name
  MaxFaults     \* bound: lost answers, dropped sockets, networks lost, messages that cannot be read

ConsoleAssumption ==
  /\ MaxSockets \in Nat \ {0} /\ Asks # {} /\ MaxCalls \in Nat
  /\ MaxLogins \in Nat \ {0} /\ OtherLogins \in Nat /\ MaxChanges \in Nat /\ MaxNames \in Nat
  /\ MaxFaults \in Nat

VARIABLES
  cookie, valid, expired, logins, others,   \* the cookie's login; the logins accepted, run out
  rev, built, name,            \* the configuration, the cached snapshot, the administrator
  session, shown, timer,       \* session: set and committed; the login whose end is awaited
  asked, told,                 \* the requests for the status, and their answers
  call, granted,               \* the calls of the pages; what a login call was answered
  running, live, open, closing, cur, ref, token, wire, retry, connection,   \* the sockets
  overview, pending, timers,   \* the snapshot shown; the refresh promise and its timers
  faults

serverVars == <<cookie, valid, expired, logins, others, rev, built, name>>
sessionVars == <<session, shown, timer>>
askVars == <<asked, told>>
callVars == <<call, granted>>
socketVars == <<running, live, open, closing, cur, ref, token, wire, retry, connection>>
viewVars == <<overview, pending, timers>>
vars == <<serverVars, sessionVars, askVars, callVars, socketVars, viewVars, faults>>

Logins == 1..MaxLogins
Calls == {"change", "rename", "leave", "login"}
Sockets == 1..MaxSockets
None == 0
NoData == -1

\* AuthStatus: not known yet, signed out, or signed in (login stands for expires_at)
Boot == [known |-> FALSE, login |-> 0, name |-> 0]
Out == [known |-> TRUE, login |-> 0, name |-> 0]
In(n, k) == [known |-> TRUE, login |-> n, name |-> k]
SessionValues == {Boot, Out} \cup {In(n, k) : n \in Logins, k \in 0..MaxNames}
SignedIn(s) == s.login # 0

Init ==
  /\ cookie \in 0..1 /\ valid = {cookie} \ {0} /\ expired = {} /\ logins = 1 /\ others = 0
  /\ rev = 0 /\ built = NoData /\ name = 0
  /\ session = Boot /\ shown = Boot /\ timer = 0
  /\ \E q \in Asks : asked = [p \in Asks |-> IF p = q THEN "sent" ELSE "idle"]
  /\ told = [q \in Asks |-> Boot]
  /\ call = [c \in Calls |-> "idle"] /\ granted = Boot
  /\ running = FALSE /\ live = {} /\ open = {} /\ closing = [s \in Sockets |-> "no"]
  /\ cur = None /\ ref = None
  /\ token = [s \in Sockets |-> 0] /\ wire = [s \in Sockets |-> NoData]
  /\ retry = FALSE /\ connection = "connecting"
  /\ overview = NoData /\ pending = FALSE /\ timers = 0
  /\ faults = 0

Fault == faults < MaxFaults /\ faults' = faults + 1

-----------------------------------------------------------------------------
(* What the handlers call *)

\* expire(): the page is to show the login form
Expires == session' = Out /\ UNCHANGED <<shown, timer>>

\* settle(): the refresh under way ends, with or without an error
Settles ==
  /\ pending' = FALSE
  /\ timers' = IF pending THEN timers - 1 ELSE timers

\* closing says who closes a socket: nobody, the page, whose close() it was, or the server,
\* with the code 1000 or 1008.  The page has taken its onclose off a socket it closes; its
\* open and its messages may still come, as the handlers expect (socket !== current).
Held == {s \in live : closing[s] # "page"}
ClosedByPage == closing' = [s \in Sockets |-> IF s = cur /\ s \in live THEN "page" ELSE closing[s]]

\* A socket that has closed delivers nothing more, and its name is free
Forgotten(s) ==
  /\ live' = live \ {s} /\ open' = open \ {s}
  /\ closing' = [closing EXCEPT ![s] = "no"]
  /\ wire' = [wire EXCEPT ![s] = NoData] /\ token' = [token EXCEPT ![s] = 0]

\* connect(), past its guard: the socket there is, is closed and replaced
Reconnects ==
  /\ \E s \in Sockets \ live :
       /\ \A t \in Sockets \ live : s <= t
       /\ live' = live \cup {s} /\ cur' = s /\ ref' = s
  /\ ClosedByPage /\ UNCHANGED <<open, token, wire>>
  /\ retry' = FALSE /\ connection' = "connecting"

Connects ==
  \/ running /\ Reconnects /\ UNCHANGED running
  \/ ~running /\ UNCHANGED socketVars

\* the cleanup of the effect of useOverview
Stops ==
  /\ running' = FALSE /\ retry' = FALSE /\ cur' = None /\ ref' = None
  /\ ClosedByPage /\ UNCHANGED <<live, open, token, wire, connection>>

\* refresh() of useOverview: join the refresh under way, or start one.  A socket that is
\* open is asked, one that connects is waited for, and one that closes is replaced.
Refreshes ==
  \/ pending /\ UNCHANGED <<socketVars, viewVars>>
  \/ /\ ~pending
     /\ pending' = TRUE /\ timers' = timers + 1 /\ UNCHANGED overview
     /\ IF ref = None \/ (ref \in live /\ closing[ref] # "no")
        THEN Connects ELSE UNCHANGED socketVars

\* refresh() of useSession
Asking(q) ==
  /\ asked[q] = "idle"
  /\ asked' = [asked EXCEPT ![q] = "sent"] /\ UNCHANGED told

-----------------------------------------------------------------------------
(* React: the queued session is rendered and the effects that depend on it run *)

\* The effect of useSession, [authenticated, expires_at]: await the end of the login
TimerEffect ==
  CASE session.login = shown.login -> UNCHANGED <<session, timer>>
    [] session.login # shown.login /\ session.login \in expired ->
         session' = Out /\ timer' = 0
    [] OTHER -> timer' = session.login /\ UNCHANGED session

\* The effect of useOverview, [enabled, username]
FeedEffect ==
  \/ /\ SignedIn(session) = SignedIn(shown) /\ session.name = shown.name
     /\ UNCHANGED <<socketVars, viewVars>>
  \/ /\ SignedIn(session) /\ ~ (SignedIn(shown) /\ session.name = shown.name)
     /\ running' = TRUE /\ Reconnects
     /\ IF running THEN Settles ELSE UNCHANGED <<pending, timers>>
     /\ UNCHANGED overview
  \/ /\ ~SignedIn(session) /\ SignedIn(shown)
     /\ Stops /\ Settles /\ overview' = NoData

Commit ==
  /\ session # shown /\ shown' = session
  /\ TimerEffect /\ FeedEffect
  /\ UNCHANGED <<serverVars, askVars, callVars, faults>>

\* The end of the login this tab was told of is reached
ExpiryFires ==
  /\ timer # 0 /\ timer \in expired
  /\ timer' = 0 /\ session' = Out
  /\ UNCHANGED <<shown, serverVars, askVars, callVars, socketVars, viewVars, faults>>

-----------------------------------------------------------------------------
(* The status of the session *)

\* The button of the boot screen
AskAgain(q) ==
  /\ ~shown.known /\ Asking(q)
  /\ UNCHANGED <<serverVars, sessionVars, callVars, socketVars, viewVars, faults>>

\* visibilitychange, which useSession and useOverview both hear; a socket that closes is left
\* to its onclose
Visible(q) ==
  /\ SignedIn(shown) /\ Asking(q)
  /\ IF ref = None THEN Connects ELSE UNCHANGED socketVars
  /\ UNCHANGED <<serverVars, sessionVars, callVars, viewVars, faults>>

\* GET /api/auth/status, or a network that fails
Status(q) ==
  /\ asked[q] = "sent"
  /\ \/ /\ asked' = [asked EXCEPT ![q] = "told"]
        /\ told' = [told EXCEPT ![q] = IF cookie \in valid THEN In(cookie, name) ELSE Out]
        /\ UNCHANGED faults
     \/ Fault /\ asked' = [asked EXCEPT ![q] = "failed"] /\ UNCHANGED told
  /\ UNCHANGED <<serverVars, sessionVars, callVars, socketVars, viewVars>>

\* Answers are applied in the order they come in, not the one they were asked in
StatusTold(q) ==
  /\ asked[q] \in {"told", "failed"}
  /\ asked' = [asked EXCEPT ![q] = "idle"] /\ told' = [told EXCEPT ![q] = Boot]
  /\ session' = IF asked[q] = "told" THEN told[q] ELSE session
  /\ UNCHANGED <<shown, timer, serverVars, callVars, socketVars, viewVars, faults>>

-----------------------------------------------------------------------------
(* The socket *)

\* The handshake succeeds; onopen, also of a socket that has been replaced meanwhile
Opens(s) ==
  /\ s \in live \ open /\ cookie \in valid
  /\ open' = open \cup {s} /\ token' = [token EXCEPT ![s] = cookie]
  /\ connection' = IF running /\ cur = s THEN "connected" ELSE connection
  /\ UNCHANGED <<running, live, closing, cur, ref, wire, retry>>
  /\ UNCHANGED <<serverVars, sessionVars, askVars, callVars, viewVars, faults>>

\* Fault: onclose without the timer
ClosesForGood(s, policy) ==
  /\ Forgotten(s) /\ UNCHANGED <<running, cur, retry>>
  /\ IF running /\ cur = s
       THEN /\ ref' = None /\ connection' = "disconnected"
            /\ IF policy THEN Expires ELSE UNCHANGED sessionVars
       ELSE UNCHANGED <<ref, connection, sessionVars>>
  /\ UNCHANGED <<serverVars, askVars, callVars, viewVars>>

\* onclose; 1008 is the server's word that the login is over
Closes(s, policy) ==
  /\ Forgotten(s) /\ UNCHANGED <<running, cur>>
  /\ IF running /\ cur = s
       THEN /\ ref' = None /\ connection' = "disconnected"
            /\ IF policy THEN Expires /\ UNCHANGED retry
                         ELSE retry' = TRUE /\ UNCHANGED sessionVars
       ELSE UNCHANGED <<ref, connection, retry, sessionVars>>
  /\ UNCHANGED <<serverVars, askVars, callVars, viewVars>>

\* A handshake without a valid login is answered 401, which a page sees as 1006
Refused(s) ==
  /\ s \in Held \ open /\ cookie \notin valid /\ Closes(s, FALSE) /\ UNCHANGED faults
Dropped(s) == s \in Held /\ closing[s] = "no" /\ Fault /\ Closes(s, FALSE)

\* The server's close has arrived: the socket is CLOSING until its onclose
ServerCloses(s, code) ==
  /\ s \in open /\ closing[s] = "no" /\ wire[s] = NoData
  /\ closing' = [closing EXCEPT ![s] = code]
  /\ UNCHANGED <<running, live, open, cur, ref, token, wire, retry, connection>>
  /\ UNCHANGED <<serverVars, sessionVars, askVars, callVars, viewVars>>

Expelled(s) == token[s] \notin valid /\ ServerCloses(s, "1008") /\ UNCHANGED faults
Ended(s) == ServerCloses(s, "1000") /\ Fault
Closed(s) == closing[s] \in {"1000", "1008"} /\ Closes(s, closing[s] = "1008") /\ UNCHANGED faults

\* A socket the page has closed is gone, unheard
Gone(s) ==
  /\ closing[s] = "page" /\ Forgotten(s)
  /\ UNCHANGED <<running, cur, ref, retry, connection>>
  /\ UNCHANGED <<serverVars, sessionVars, askVars, callVars, viewVars, faults>>

\* The server sends a new snapshot, or the one it made for another client
Push(s, new) ==
  /\ s \in open /\ closing[s] \in {"no", "page"} /\ token[s] \in valid /\ wire[s] = NoData
  /\ new \/ built # NoData
  /\ built' = (IF new THEN rev ELSE built) /\ wire' = [wire EXCEPT ![s] = built']
  /\ UNCHANGED <<cookie, valid, expired, logins, others, rev, name>>
  /\ UNCHANGED <<running, live, open, closing, cur, ref, token, retry, connection>>
  /\ UNCHANGED <<sessionVars, askVars, callVars, viewVars, faults>>

\* Fault: onmessage does not ask whose socket it is
MessageOfAny(s, readable) ==
  /\ s \in open /\ wire[s] # NoData
  /\ wire' = [wire EXCEPT ![s] = NoData]
  /\ IF readable THEN UNCHANGED faults ELSE Fault
  /\ Settles /\ overview' = IF readable THEN wire[s] ELSE overview
  /\ UNCHANGED <<running, live, open, closing, cur, ref, token, retry, connection>>
  /\ UNCHANGED <<serverVars, sessionVars, askVars, callVars>>

\* onmessage, of a snapshot or of something else (a server of another version)
Message(s, readable) ==
  /\ s \in open /\ wire[s] # NoData
  /\ wire' = [wire EXCEPT ![s] = NoData]
  /\ IF readable THEN UNCHANGED faults ELSE Fault
  /\ IF running /\ cur = s
       THEN Settles /\ overview' = IF readable THEN wire[s] ELSE overview
       ELSE UNCHANGED viewVars
  /\ UNCHANGED <<running, live, open, closing, cur, ref, token, retry, connection>>
  /\ UNCHANGED <<serverVars, sessionVars, askVars, callVars>>

RetryFires ==
  /\ retry /\ Connects
  /\ UNCHANGED <<serverVars, sessionVars, askVars, callVars, viewVars, faults>>

\* The network of the device was away
Online ==
  /\ running /\ Connects /\ Fault
  /\ UNCHANGED <<serverVars, sessionVars, askVars, callVars, viewVars>>

\* Fault: the six seconds are never over
TimeoutForgotten == FALSE /\ UNCHANGED vars

\* The six seconds of a refresh are over
RefreshTimeout ==
  /\ timers > 0
  /\ timers' = timers - 1 /\ pending' = FALSE /\ UNCHANGED overview
  /\ UNCHANGED <<serverVars, sessionVars, askVars, callVars, socketVars, faults>>

\* The button of the dashboard
RefreshClicked ==
  /\ SignedIn(shown) /\ Refreshes
  /\ UNCHANGED <<serverVars, sessionVars, askVars, callVars, faults>>

-----------------------------------------------------------------------------
(* The calls of the pages: a change of a server, the administrator's name,   *)
(* leaving (logout, or revoking the current session), and the login form     *)

Begin(c) ==
  /\ Cardinality({d \in Calls : call[d] # "idle"}) < MaxCalls
  /\ call[c] = "idle" /\ shown.known /\ SignedIn(shown) = (c # "login")
  /\ call' = [call EXCEPT ![c] = "sent"]
  /\ UNCHANGED <<granted, serverVars, sessionVars, askVars, socketVars, viewVars, faults>>

\* What the server does with a call it accepts
Changed ==
  /\ rev < MaxChanges /\ rev' = rev + 1
  /\ UNCHANGED <<valid, expired, logins, others, built, name, granted>>
Renamed ==
  /\ name < MaxNames /\ name' = name + 1 /\ valid' = valid \cap {cookie}
  /\ UNCHANGED <<expired, logins, others, rev, built, granted>>
Left ==
  /\ valid' = valid \ {cookie}
  /\ UNCHANGED <<expired, logins, others, rev, built, name, granted>>
LoggedIn ==
  /\ logins < MaxLogins /\ logins' = logins + 1
  /\ valid' = valid \cup {logins'} /\ granted' = In(logins', name)
  /\ UNCHANGED <<expired, others, rev, built, name>>

\* The server handles a call; its answer may get lost
Handled(c) ==
  /\ call[c] = "sent"
  /\ \/ /\ (c \in {"leave", "login"} \/ cookie \in valid)
        /\ \/ c = "change" /\ Changed
           \/ c = "rename" /\ Renamed
           \/ c = "leave" /\ Left
           \/ c = "login" /\ LoggedIn
        /\ \/ /\ call' = [call EXCEPT ![c] = "ok"] /\ UNCHANGED faults
              /\ cookie' = IF c = "login" THEN granted'.login ELSE cookie
           \/ call' = [call EXCEPT ![c] = "failed"] /\ Fault /\ UNCHANGED cookie
     \/ /\ c \in {"change", "rename"} /\ cookie \notin valid
        /\ call' = [call EXCEPT ![c] = "refused"]
        /\ UNCHANGED <<serverVars, granted, faults>>
     \/ /\ call' = [call EXCEPT ![c] = "failed"]      \* a server that does not answer
        /\ UNCHANGED <<serverVars, granted>> /\ Fault
  /\ UNCHANGED <<sessionVars, askVars, socketVars, viewVars>>

\* The page goes on after the call: api() turns a 401 outside /api/auth and
\* /api/admin into expire(), a change is followed by a refresh
Answered(c) ==
  /\ call[c] \in {"ok", "refused", "failed"}
  /\ call' = [call EXCEPT ![c] = "idle"]
  /\ \/ /\ c = "change" /\ call[c] = "ok"
        /\ Refreshes /\ UNCHANGED <<sessionVars, askVars>>
     \/ /\ c = "rename" /\ call[c] = "ok"
        /\ \E q \in Asks : Asking(q)
        /\ UNCHANGED <<sessionVars, socketVars, viewVars>>
     \/ /\ <<c, call[c]>> \in {<<"leave", "ok">>, <<"change", "refused">>}
        /\ Expires /\ UNCHANGED <<askVars, socketVars, viewVars>>
     \/ /\ c = "login" /\ call[c] = "ok"
        /\ session' = granted
        /\ UNCHANGED <<shown, timer, askVars, socketVars, viewVars>>
     \/ /\ call[c] = "failed" \/ (c = "rename" /\ call[c] = "refused")
        /\ UNCHANGED <<sessionVars, askVars, socketVars, viewVars>>
  /\ granted' = IF c = "login" THEN Boot ELSE granted
  /\ UNCHANGED <<serverVars, faults>>

-----------------------------------------------------------------------------
(* Other devices, and time *)

Revoked(n) ==
  /\ n \in valid /\ valid' = valid \ {n}
  /\ UNCHANGED <<cookie, expired, logins, others, rev, built, name>>
  /\ UNCHANGED <<sessionVars, askVars, callVars, socketVars, viewVars, faults>>

\* A login runs out when it was to, also where it had been revoked before
Expired(n) ==
  /\ n <= logins /\ n \notin expired
  /\ valid' = valid \ {n} /\ expired' = expired \cup {n}
  /\ UNCHANGED <<cookie, logins, others, rev, built, name>>
  /\ UNCHANGED <<sessionVars, askVars, callVars, socketVars, viewVars, faults>>

OtherTabLogsIn ==
  /\ logins < MaxLogins /\ others < OtherLogins
  /\ logins' = logins + 1 /\ others' = others + 1
  /\ cookie' = logins' /\ valid' = valid \cup {logins'}
  /\ UNCHANGED <<expired, rev, built, name>>
  /\ UNCHANGED <<sessionVars, askVars, callVars, socketVars, viewVars, faults>>

\* What the tab, the server and other devices do
TabNext ==
  \/ Commit \/ ExpiryFires \/ RetryFires \/ Online \/ RefreshTimeout \/ RefreshClicked
  \/ \E q \in Asks : AskAgain(q) \/ Visible(q) \/ Status(q) \/ StatusTold(q)
  \/ \E s \in Sockets :
       \/ Opens(s) \/ Refused(s) \/ Dropped(s) \/ Expelled(s) \/ Ended(s) \/ Closed(s) \/ Gone(s)
       \/ \E b \in BOOLEAN : Push(s, b) \/ Message(s, b)
  \/ \E c \in Calls : Begin(c) \/ Handled(c) \/ Answered(c)
  \/ \E n \in Logins : Revoked(n) \/ Expired(n)

Next == TabNext \/ OtherTabLogsIn

Spec == Init /\ [][Next]_vars

\* React renders, timers fire, the browser opens and closes sockets, the network
\* and the server answer; a server that pushes for ever pushes a new snapshot
\* now and then (its cache lives for one interval).  Nothing is asked of users.
Fairness ==
  /\ WF_vars(Commit) /\ WF_vars(ExpiryFires) /\ WF_vars(RetryFires) /\ WF_vars(RefreshTimeout)
  /\ \A q \in Asks : WF_vars(Status(q)) /\ WF_vars(StatusTold(q))
  /\ \A s \in Sockets :
       /\ WF_vars(Opens(s)) /\ WF_vars(Refused(s)) /\ WF_vars(Expelled(s))
       /\ WF_vars(Closed(s)) /\ WF_vars(Gone(s))
       /\ WF_vars(Message(s, TRUE)) /\ SF_vars(Push(s, TRUE))
  /\ \A c \in Calls : WF_vars(Handled(c)) /\ WF_vars(Answered(c))

FairSpec == Spec /\ Fairness

\* Bound: a login that has ended for the server meets one change, new name or fault; what
\* ChangeShown asks for is over then
EndedInCalm == cookie \notin valid => rev + name + faults <= 1

\* The only tab of its browser.  Where another tab logs in, ChangeShown does not hold: the end of
\* the old login and a status asked for before it may reach the page between two renderings;
\* what is committed has not changed then, and no effect opens the socket again.
OnlyTabSpec == Init /\ [][TabNext]_vars /\ Fairness

-----------------------------------------------------------------------------
(* Properties *)

TypeOK ==
  /\ cookie \in 0..MaxLogins /\ valid \subseteq Logins /\ expired \subseteq Logins
  /\ logins \in Logins /\ others \in 0..OtherLogins
  /\ rev \in 0..MaxChanges /\ built \in NoData..MaxChanges /\ name \in 0..MaxNames
  /\ session \in SessionValues /\ shown \in SessionValues /\ timer \in 0..MaxLogins
  /\ asked \in [Asks -> {"idle", "sent", "told", "failed"}] /\ told \in [Asks -> SessionValues]
  /\ call \in [Calls -> {"idle", "sent", "ok", "refused", "failed"}]
  /\ granted \in SessionValues
  /\ running \in BOOLEAN /\ live \subseteq Sockets /\ open \subseteq live
  /\ closing \in [Sockets -> {"no", "page", "1000", "1008"}]
  /\ cur \in Sockets \cup {None} /\ ref \in Sockets \cup {None}
  /\ token \in [Sockets -> 0..MaxLogins] /\ wire \in [Sockets -> NoData..MaxChanges]
  /\ retry \in BOOLEAN /\ connection \in {"connecting", "connected", "disconnected"}
  /\ overview \in NoData..MaxChanges /\ pending \in BOOLEAN /\ timers \in Nat
  /\ faults \in 0..MaxFaults

\* The socket follows the session that is shown: nobody signed in, no socket, no
\* reconnection waiting and nothing of the last user's data on the page.
SocketFollowsSession ==
  /\ running = SignedIn(shown)
  /\ ~running => Held = {} /\ ref = None /\ ~retry /\ overview = NoData
  /\ connection = "connected" /\ running => cur \in open

\* A tab has one socket that it has not closed, and the reference the refresh button reads is that socket
\* or nothing; a reconnection is awaited only while there is no socket, and whoever
\* has no socket is told so.
OneSocket ==
  /\ Held \subseteq {cur} /\ ref \in Held \cup {None}
  /\ retry => Held = {}
  /\ running /\ Held = {} => connection = "disconnected"

\* A refresh under way has its timer and a settled one has none; what is shown is
\* never newer than what is still to be received.
RefreshesInOrder ==
  /\ timers = IF pending THEN 1 ELSE 0
  /\ overview <= built
  /\ \A s \in open \cap Held : wire[s] # NoData => overview <= wire[s]

\* useOverview 105-206: whatever order sockets, session, timers and clicks come in
SocketDiscipline == SocketFollowsSession /\ OneSocket /\ RefreshesInOrder

\* The promise of a refresh is settled: by a snapshot, its timer, or the end of the session
RefreshSettles == pending ~> ~pending

\* A change of the configuration gets to a dashboard that keeps a valid login
Dash == SignedIn(shown) /\ cookie \in valid
ChangeShown == \A r \in 1..MaxChanges : rev >= r /\ Dash ~> overview >= r \/ ~Dash

\* tests/control.spec.ts:202: after its session is revoked the page returns to the login form;
\* for which it does not wait until the login would have run out, of which nothing is assumed
RevokedReturnsToLogin ==
  SignedIn(shown) /\ cookie \notin valid ~> ~SignedIn(shown) \/ cookie \in valid

\* App.tsx:343: while the live connection is lost, a reconnection is on its way
DisconnectedRetries ==
  connection = "disconnected" /\ SignedIn(shown) ~> connection # "disconnected" \/ ~SignedIn(shown)
=============================================================================
