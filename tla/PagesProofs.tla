----------------------------- MODULE PagesProofs -----------------------------
(***************************************************************************)
(* Proofs about the browser's side.                                        *)
(*                                                                         *)
(* Console, for all bounds: its type invariant, and the discipline of its  *)
(* socket (one at most, as long as somebody is signed in, and a view that  *)
(* only gets newer), whatever order sockets, session, timers, answers and  *)
(* clicks come in.                                                         *)
(*                                                                         *)
(* ServerForm, for all users, passwords, rows, servers, ports and lengths  *)
(* of a draft: that a save keeps, changes and deletes the passwords the    *)
(* draft says, whatever another administrator saves meanwhile, and that a  *)
(* save of what nobody edited changes nothing that runs.                   *)
(*                                                                         *)
(* Editor: that a form which is not accepted shows its first error.        *)
(* QueryView: that a page shows the answer for what is selected.           *)
(* TrafficHistory, for all tabs, instances and times: that a byte is       *)
(* charted once.  SelectDiagnostics: that reports are whole.               *)
(***************************************************************************)
EXTENDS MCPages, SequenceTheorems, SumTheorems, TLAPS

-----------------------------------------------------------------------------
(* The tab and its socket                                                  *)

\* The server, and the calls and requests of the pages
ServerType ==
  /\ cookie \in 0..MaxLogins /\ valid \subseteq Logins /\ expired \subseteq Logins
  /\ logins \in Logins /\ others \in 0..OtherLogins
  /\ rev \in 0..MaxChanges /\ built \in NoData..MaxChanges /\ name \in 0..MaxNames
  /\ faults \in 0..MaxFaults
  /\ call \in [Calls -> {"idle", "sent", "ok", "refused", "failed"}]
SessionType ==
  /\ session \in SessionValues /\ shown \in SessionValues /\ timer \in 0..MaxLogins
  /\ asked \in [Asks -> {"idle", "sent", "told", "failed"}] /\ told \in [Asks -> SessionValues]
  /\ granted \in SessionValues
SocketType ==
  /\ running \in BOOLEAN /\ live \subseteq Sockets /\ open \subseteq live
  /\ closing \in [Sockets -> {"no", "page", "1000", "1008"}]
  /\ cur \in Sockets \cup {None} /\ ref \in Sockets \cup {None}
  /\ token \in [Sockets -> 0..MaxLogins] /\ wire \in [Sockets -> NoData..MaxChanges]
  /\ retry \in BOOLEAN /\ connection \in {"connecting", "connected", "disconnected"}
ViewType == overview \in NoData..MaxChanges /\ pending \in BOOLEAN /\ timers \in Nat

\* What is on its way is no newer than what the server has made, nor is that newer than
\* the configuration; a socket that is not open has nothing on its way
SnapshotsInOrder ==
  /\ built \in NoData..MaxChanges /\ built <= rev
  /\ \A s \in Sockets : wire[s] <= built /\ (s \notin open => wire[s] = NoData)

\* A name that is free closes nothing, and the page that runs has not closed its current socket
ClosingsKnown ==
  /\ \A s \in Sockets : s \notin live => closing[s] = "no"
  /\ running /\ cur \in live => closing[cur] # "page"

\* What the steps of the page keep together
FeedInv == SocketType /\ ViewType /\ SocketDiscipline /\ SnapshotsInOrder /\ ClosingsKnown
ConsoleHolds == ServerType /\ SessionType /\ FeedInv

LEMMA InvImplies == ConsoleHolds => TypeOK /\ SocketDiscipline
BY DEF ConsoleHolds, FeedInv, ServerType, SessionType, SocketType, ViewType, TypeOK

-----------------------------------------------------------------------------
(* What the handlers call *)

\* What the server tells of a session is a session value.
LEMMA Told ==
  /\ Out \in SessionValues /\ Boot \in SessionValues
  /\ \A n \in Logins, k \in 0..MaxNames : In(n, k) \in SessionValues
  /\ \A n, k : In(n, k).login = n
<1>1. \A n \in Logins, k \in 0..MaxNames : In(n, k) \in SessionValues
  BY DEF SessionValues
<1>2. \A n, k : In(n, k).login = n
  BY DEF In
<1>3. Out \in SessionValues /\ Boot \in SessionValues
  BY DEF SessionValues
<1> QED
  BY <1>1, <1>2, <1>3

LEMMA NothingShown == ConsoleAssumption => NoData \in NoData..MaxChanges
BY DEF ConsoleAssumption, NoData

\* The login of a session is the number of one, or none.
LEMMA LoginOf ==
  ASSUME NEW s \in SessionValues, ConsoleAssumption PROVE s.login \in 0..MaxLogins
BY DEF SessionValues, Out, Boot, In, Logins, ConsoleAssumption

\* Settling takes the timer of a refresh under way with it.
LEMMA SettlesView ==
  ASSUME ViewType, RefreshesInOrder, Settles
  PROVE  pending' = FALSE /\ timers' = 0
BY DEF ViewType, RefreshesInOrder, Settles

\* As long as sockets, view, session shown and snapshots stay, so does the invariant.
LEMMA FeedStays ==
  ASSUME FeedInv, UNCHANGED <<socketVars, viewVars, shown, built>>, rev <= rev',
         rev \in 0..MaxChanges, rev' \in 0..MaxChanges, built \in NoData..MaxChanges
  PROVE  FeedInv'
<1>1. SocketType' /\ ViewType' /\ ClosingsKnown'
  BY DEF FeedInv, SocketType, ViewType, ClosingsKnown, socketVars, viewVars
<1>2. SocketFollowsSession' /\ OneSocket' /\ RefreshesInOrder'
  BY DEF FeedInv, SocketDiscipline, SocketFollowsSession, OneSocket, RefreshesInOrder, SignedIn,
         Held, socketVars, viewVars
<1>3. SnapshotsInOrder'
  BY DEF FeedInv, SnapshotsInOrder, socketVars, NoData
<1> QED
  BY <1>1, <1>2, <1>3 DEF FeedInv, SocketDiscipline

\* A socket that is forgotten leaves the others as they are.
LEMMA ForgottenKeeps ==
  ASSUME FeedInv, ConsoleAssumption, NEW s \in Sockets, Forgotten(s),
         UNCHANGED <<built, rev, running, cur>>
  PROVE  /\ live' = live \ {s} /\ open' = open \ {s} /\ Held' = Held \ {s}
         /\ closing' \in [Sockets -> {"no", "page", "1000", "1008"}]
         /\ wire' \in [Sockets -> NoData..MaxChanges] /\ token' \in [Sockets -> 0..MaxLogins]
         /\ \A t \in Sockets : t # s => wire'[t] = wire[t]
         /\ SnapshotsInOrder' /\ ClosingsKnown'
<1>1. SocketType /\ SnapshotsInOrder /\ ClosingsKnown
  BY DEF FeedInv
<1>2. live' = live \ {s} /\ open' = open \ {s}
  BY DEF Forgotten
<1>3. closing' \in [Sockets -> {"no", "page", "1000", "1008"}] /\ ClosingsKnown'
  BY <1>1, <1>2 DEF Forgotten, SocketType, ClosingsKnown
<1>4. Held' = Held \ {s}
  BY <1>1, <1>2 DEF Forgotten, SocketType, Held
<1>5. wire' \in [Sockets -> NoData..MaxChanges] /\ token' \in [Sockets -> 0..MaxLogins]
  BY <1>1, NothingShown DEF Forgotten, SocketType, ConsoleAssumption
<1>6. \A t \in Sockets : t # s => wire'[t] = wire[t]
  BY <1>1 DEF Forgotten, SocketType
<1>7. wire'[s] = NoData /\ NoData <= built
  BY <1>1 DEF Forgotten, SocketType, SnapshotsInOrder, NoData, ConsoleAssumption
<1>8. SnapshotsInOrder'
  BY <1>1, <1>2, <1>6, <1>7 DEF SnapshotsInOrder
<1> QED
  BY <1>2, <1>3, <1>4, <1>5, <1>6, <1>8

\* The page closes the socket it has: none is left that it listens to.
LEMMA ClosedKeepsNone ==
  ASSUME FeedInv, ClosedByPage
  PROVE  /\ closing' \in [Sockets -> {"no", "page", "1000", "1008"}]
         /\ \A t \in live : closing'[t] = "page"
         /\ \A t \in Sockets \ live : closing'[t] = "no"
<1>1. /\ closing \in [Sockets -> {"no", "page", "1000", "1008"}] /\ live \subseteq Sockets
      /\ \A t \in live : t = cur \/ closing[t] = "page"
      /\ \A t \in Sockets \ live : closing[t] = "no"
  BY DEF FeedInv, SocketType, SocketDiscipline, OneSocket, Held, ClosingsKnown
<1> QED
  BY <1>1 DEF ClosedByPage

\* A new socket takes the place of the one there was.
LEMMA Replaced ==
  ASSUME FeedInv, ConsoleAssumption, Reconnects, running' = TRUE, SignedIn(shown'),
         UNCHANGED <<overview, built, rev>>, pending' \in BOOLEAN,
         timers' = IF pending' THEN 1 ELSE 0
  PROVE  FeedInv'
<1>0. PICK s \in Sockets \ live : live' = live \cup {s} /\ cur' = s /\ ref' = s
  BY DEF Reconnects
<1>1. SocketType /\ ViewType /\ SnapshotsInOrder /\ RefreshesInOrder
  BY DEF FeedInv, SocketDiscipline
<1>2. /\ closing' \in [Sockets -> {"no", "page", "1000", "1008"}]
      /\ \A t \in live : closing'[t] = "page"
      /\ \A t \in Sockets \ live : closing'[t] = "no"
  BY ClosedKeepsNone DEF Reconnects
<1>3. Held' = {s}
  BY <1>0, <1>2 DEF Held
<1>4. retry' = FALSE /\ connection' = "connecting" /\ UNCHANGED <<open, token, wire>>
  BY DEF Reconnects
<1>5. SocketType' /\ ViewType'
  BY <1>0, <1>1, <1>2, <1>4 DEF SocketType, ViewType
<1>6. SocketFollowsSession' /\ OneSocket'
  BY <1>3, <1>0, <1>4 DEF SocketFollowsSession, OneSocket
<1>7. RefreshesInOrder'
  BY <1>0, <1>1, <1>3, <1>4 DEF RefreshesInOrder, SocketType
<1>8. SnapshotsInOrder' /\ ClosingsKnown'
  BY <1>0, <1>1, <1>2, <1>4 DEF SnapshotsInOrder, ClosingsKnown
<1> QED
  BY <1>5, <1>6, <1>7, <1>8 DEF FeedInv, SocketDiscipline

\* connect() of a handler that leaves the view alone.
LEMMA ConnectsKeeps ==
  ASSUME FeedInv, ConsoleAssumption, Connects, UNCHANGED <<overview, shown, built, rev>>,
         pending' \in BOOLEAN, timers' = IF pending' THEN 1 ELSE 0
  PROVE  FeedInv'
<1>1. CASE running /\ Reconnects /\ UNCHANGED running
  <2>1. running' = TRUE /\ SignedIn(shown')
    BY <1>1 DEF FeedInv, SocketDiscipline, SocketFollowsSession, SocketType
  <2> QED
    BY <1>1, <2>1, Replaced
<1>2. CASE ~running /\ UNCHANGED socketVars
  BY <1>2 DEF FeedInv, SocketDiscipline, SocketFollowsSession, OneSocket, RefreshesInOrder,
              SnapshotsInOrder, ClosingsKnown, SocketType, ViewType, Held, socketVars, SignedIn
<1> QED
  BY <1>1, <1>2 DEF Connects

\* refresh() of useOverview.
LEMMA RefreshesKeeps ==
  ASSUME FeedInv, ConsoleAssumption, Refreshes, UNCHANGED <<shown, built, rev>>,
         rev \in 0..MaxChanges, built \in NoData..MaxChanges
  PROVE  FeedInv'
<1>1. CASE pending /\ UNCHANGED <<socketVars, viewVars>>
  BY <1>1, FeedStays
<1>2. CASE ~pending /\ pending' = TRUE /\ timers' = timers + 1 /\ UNCHANGED overview
           /\ (Connects \/ UNCHANGED socketVars)
  <2>1. pending' = TRUE /\ timers' = 1
    BY <1>2 DEF FeedInv, SocketDiscipline, RefreshesInOrder
  <2>2. CASE Connects
    BY <1>2, <2>1, <2>2, ConnectsKeeps
  <2>3. CASE UNCHANGED socketVars
    BY <1>2, <2>1, <2>3 DEF FeedInv, SocketDiscipline, SocketFollowsSession, OneSocket,
         RefreshesInOrder, SnapshotsInOrder, ClosingsKnown, SocketType, ViewType, Held, socketVars,
         SignedIn
  <2> QED
    BY <1>2, <2>2, <2>3
<1> QED
  BY <1>1, <1>2 DEF Refreshes

\* onclose: whatever the reason, the page is left with no socket and knows it.
LEMMA ClosedKeeps ==
  ASSUME FeedInv, ConsoleAssumption, NEW s \in Held, NEW p \in BOOLEAN, Closes(s, p)
  PROVE  FeedInv'
<1>0. SocketType /\ ViewType /\ SocketFollowsSession /\ OneSocket /\ RefreshesInOrder /\ s \in Sockets
  BY DEF FeedInv, SocketDiscipline, SocketType, Held
<1>1. running /\ cur = s /\ ref' = None /\ connection' = "disconnected"
  BY <1>0 DEF Closes, SocketFollowsSession, OneSocket
<1>2. UNCHANGED <<running, cur, shown, overview, pending, timers, rev, built>>
  BY <1>1 DEF Closes, serverVars, viewVars, sessionVars, Expires
<1>3. /\ live' = live \ {s} /\ open' = open \ {s} /\ Held' = Held \ {s}
      /\ closing' \in [Sockets -> {"no", "page", "1000", "1008"}]
      /\ wire' \in [Sockets -> NoData..MaxChanges] /\ token' \in [Sockets -> 0..MaxLogins]
      /\ SnapshotsInOrder' /\ ClosingsKnown'
  BY <1>0, <1>2, ForgottenKeeps DEF Closes
<1>4. retry' \in BOOLEAN
  BY <1>0, <1>1 DEF Closes, SocketType
<1>5. SocketType' /\ ViewType'
  BY <1>0, <1>1, <1>2, <1>3, <1>4 DEF SocketType, ViewType
<1>6. Held' = {}
  BY <1>0, <1>1, <1>3 DEF OneSocket
<1>7. SocketFollowsSession' /\ OneSocket' /\ RefreshesInOrder'
  BY <1>0, <1>1, <1>2, <1>6 DEF SocketFollowsSession, OneSocket, RefreshesInOrder, SignedIn,
     SnapshotsInOrder
<1> QED
  BY <1>3, <1>5, <1>7 DEF FeedInv, SocketDiscipline

\* The page renders its session and the effects of it run.
LEMMA CommitKeeps ==
  ASSUME ConsoleHolds, ConsoleAssumption, Commit
  PROVE  ConsoleHolds'
<1>0. ServerType /\ SessionType /\ FeedInv
  BY DEF ConsoleHolds
<1>1. ServerType'
  BY <1>0 DEF Commit, ServerType, serverVars, callVars
<1>2. SessionType'
  <2>1. session.login \in 0..MaxLogins /\ Out \in SessionValues
    BY <1>0, LoginOf, Told DEF SessionType
  <2>2. session' \in SessionValues /\ timer' \in 0..MaxLogins
    BY <1>0, <2>1 DEF Commit, TimerEffect, SessionType, ConsoleAssumption
  <2> QED
    BY <1>0, <2>2 DEF Commit, SessionType, askVars, callVars
<1>3. FeedInv'
  <2>1. shown' = session /\ UNCHANGED <<rev, built>>
    BY DEF Commit, serverVars
  <2>2. /\ running = SignedIn(shown) /\ RefreshesInOrder /\ ViewType
        /\ rev \in 0..MaxChanges /\ built \in NoData..MaxChanges
    BY <1>0 DEF FeedInv, SocketDiscipline, SocketFollowsSession, ServerType
  <2>3. CASE SignedIn(session) = SignedIn(shown) /\ UNCHANGED <<socketVars, viewVars>>
    <3>1. SignedIn(shown') = SignedIn(shown)
      BY <2>1, <2>3
    <3> QED
      BY <1>0, <2>1, <2>3, <3>1 DEF FeedInv, SocketDiscipline, SocketFollowsSession, OneSocket,
         RefreshesInOrder, SnapshotsInOrder, ClosingsKnown, SocketType, ViewType, Held, socketVars,
         viewVars
  <2>4. CASE /\ SignedIn(session) /\ running' = TRUE /\ Reconnects /\ UNCHANGED overview
             /\ (IF running THEN Settles ELSE UNCHANGED <<pending, timers>>)
    <3>1. pending' \in BOOLEAN /\ timers' = IF pending' THEN 1 ELSE 0
      BY <2>2, <2>4, SettlesView DEF ViewType, RefreshesInOrder
    <3> QED
      BY <1>0, <2>1, <2>4, <3>1, Replaced
  <2>5. CASE ~SignedIn(session) /\ Stops /\ Settles /\ overview' = NoData
    <3>1. pending' = FALSE /\ timers' = 0
      BY <2>2, <2>5, SettlesView
    <3>2. /\ running' = FALSE /\ retry' = FALSE /\ cur' = None /\ ref' = None
          /\ UNCHANGED <<live, open, token, wire, connection>>
      BY <2>5 DEF Stops
    <3>3. /\ closing' \in [Sockets -> {"no", "page", "1000", "1008"}]
          /\ \A t \in live : closing'[t] = "page"
          /\ \A t \in Sockets \ live : closing'[t] = "no"
      BY <1>0, <2>5, ClosedKeepsNone DEF Stops
    <3>4. SocketType' /\ SnapshotsInOrder' /\ ClosingsKnown'
      BY <1>0, <2>1, <3>2, <3>3 DEF FeedInv, SocketType, SnapshotsInOrder, ClosingsKnown, None
    <3>5. ViewType'
      BY <2>5, <3>1, NothingShown DEF ViewType
    <3>6. Held' = {}
      BY <3>2, <3>3 DEF Held
    <3>7. SocketFollowsSession' /\ OneSocket' /\ RefreshesInOrder'
      <4>1. NoData <= built
        BY <2>2 DEF NoData, ConsoleAssumption
      <4> QED
        BY <2>1, <2>5, <3>1, <3>2, <3>6, <4>1 DEF SocketFollowsSession, OneSocket, SignedIn,
           RefreshesInOrder
    <3> QED
      BY <3>4, <3>5, <3>6, <3>7 DEF FeedInv, SocketDiscipline
  <2> QED
    BY <2>3, <2>4, <2>5 DEF Commit, FeedEffect
<1> QED
  BY <1>1, <1>2, <1>3 DEF ConsoleHolds

-----------------------------------------------------------------------------
(* The invariant *)

LEMMA ConsoleStarts == ConsoleAssumption /\ Init => ConsoleHolds
<1> SUFFICES ASSUME ConsoleAssumption, Init PROVE ConsoleHolds
  OBVIOUS
<1>1. ServerType
  BY DEF Init, ServerType, ConsoleAssumption, Logins, NoData, Calls
<1>2. SessionType
  BY Told DEF Init, SessionType, ConsoleAssumption
<1>3. SocketType
  <2>1. token \in [Sockets -> 0..MaxLogins]
    BY DEF Init, ConsoleAssumption
  <2>2. wire \in [Sockets -> NoData..MaxChanges]
    BY NothingShown DEF Init
  <2> QED
    BY <2>1, <2>2 DEF Init, SocketType
<1>4. ViewType
  BY NothingShown DEF Init, ViewType
<1>5. ~SignedIn(shown)
  BY DEF Init, SignedIn, Boot
<1>6. Held = {} /\ ClosingsKnown
  BY DEF Init, Held, ClosingsKnown
<1>7. SocketFollowsSession /\ OneSocket
  BY <1>5, <1>6 DEF Init, SocketFollowsSession, OneSocket, SignedIn
<1>8. RefreshesInOrder /\ SnapshotsInOrder
  BY NothingShown DEF Init, RefreshesInOrder, SnapshotsInOrder, NoData
<1> QED
  BY <1>1, <1>2, <1>3, <1>4, <1>6, <1>7, <1>8 DEF ConsoleHolds, FeedInv, SocketDiscipline

\* One step per action: it keeps the types, and what it does to the sockets and the view
\* is one of the handlers above or nothing.
LEMMA ConsoleSteps == ConsoleAssumption /\ ConsoleHolds /\ [Next]_vars => ConsoleHolds'
<1> SUFFICES ASSUME ConsoleAssumption, ConsoleHolds, [Next]_vars PROVE ConsoleHolds'
  OBVIOUS
<1>0. ServerType /\ SessionType /\ FeedInv
  BY DEF ConsoleHolds
<1>t. /\ rev \in 0..MaxChanges /\ built \in NoData..MaxChanges /\ Out \in SessionValues
      /\ pending \in BOOLEAN /\ timers = (IF pending THEN 1 ELSE 0)
      /\ RefreshesInOrder /\ ViewType
  BY <1>0, Told DEF ServerType, FeedInv, SocketDiscipline, RefreshesInOrder, ViewType
\* A step that leaves the server, the sockets and the view alone
<1>a. ASSUME UNCHANGED <<serverVars, call, faults>> PROVE ServerType'
  BY <1>a, <1>0 DEF ServerType, serverVars
<1>b. ASSUME UNCHANGED <<socketVars, viewVars, shown, rev, built>> PROVE FeedInv'
  BY <1>b, <1>0, <1>t, FeedStays
<1>c. ASSUME UNCHANGED <<sessionVars, askVars, granted>> PROVE SessionType'
  BY <1>c, <1>0 DEF SessionType, sessionVars, askVars
<1>1. CASE Commit
  BY <1>1, CommitKeeps
<1>2. CASE ExpiryFires
  <2>1. SessionType'
    BY <1>2, <1>0, <1>t DEF ExpiryFires, SessionType, askVars, callVars, ConsoleAssumption
  <2> QED
    BY <1>2, <2>1, <1>a, <1>b DEF ExpiryFires, ConsoleHolds, serverVars, callVars
<1>3. CASE RetryFires
  <2>1. FeedInv'
    BY <1>3, <1>0, <1>t, ConnectsKeeps DEF RetryFires, viewVars, serverVars, sessionVars
  <2> QED
    BY <1>3, <2>1, <1>a, <1>c DEF RetryFires, ConsoleHolds, callVars
<1>4. CASE Online
  <2>1. FeedInv'
    BY <1>4, <1>0, <1>t, ConnectsKeeps DEF Online, viewVars, serverVars, sessionVars
  <2>2. ServerType'
    BY <1>4, <1>0 DEF Online, Fault, ServerType, serverVars, callVars, ConsoleAssumption
  <2> QED
    BY <1>4, <2>1, <2>2, <1>c DEF Online, ConsoleHolds, callVars
<1>5. CASE RefreshTimeout
  <2>1. pending' = FALSE /\ timers' = 0 /\ UNCHANGED <<overview, socketVars, shown, rev, built>>
    BY <1>5, <1>t DEF RefreshTimeout, sessionVars, serverVars
  <2>2. FeedInv'
    BY <2>1, <1>0 DEF FeedInv, SocketDiscipline, SocketFollowsSession, OneSocket, RefreshesInOrder,
         SnapshotsInOrder, ClosingsKnown, SocketType, ViewType, Held, socketVars, SignedIn
  <2> QED
    BY <1>5, <2>2, <1>a, <1>c DEF RefreshTimeout, ConsoleHolds, callVars
<1>6. CASE RefreshClicked
  <2>1. FeedInv'
    BY <1>6, <1>0, <1>t, RefreshesKeeps DEF RefreshClicked, sessionVars, serverVars
  <2> QED
    BY <1>6, <2>1, <1>a, <1>c DEF RefreshClicked, ConsoleHolds, callVars
<1>7. CASE OtherTabLogsIn
  <2>1. ServerType'
    BY <1>7, <1>0 DEF OtherTabLogsIn, ServerType, callVars, Logins, ConsoleAssumption
  <2> QED
    BY <1>7, <2>1, <1>b, <1>c DEF OtherTabLogsIn, ConsoleHolds, callVars, sessionVars
<1>8. ASSUME NEW q \in Asks, AskAgain(q) \/ Visible(q) PROVE ConsoleHolds'
  <2>1. SessionType' /\ UNCHANGED <<rev, built, shown>>
    BY <1>8, <1>0 DEF AskAgain, Visible, Asking, SessionType, sessionVars, callVars, serverVars
  <2>2. FeedInv'
    <3>1. CASE ref = None /\ Connects /\ UNCHANGED viewVars
      BY <3>1, <2>1, <1>0, <1>t, ConnectsKeeps DEF viewVars
    <3>2. CASE UNCHANGED <<socketVars, viewVars>>
      BY <3>2, <2>1, <1>b
    <3> QED
      BY <1>8, <3>1, <3>2 DEF AskAgain, Visible
  <2> QED
    BY <1>8, <2>1, <2>2, <1>a DEF AskAgain, Visible, ConsoleHolds, callVars
<1>9. ASSUME NEW q \in Asks, Status(q) PROVE ConsoleHolds'
  <2>1. In(cookie, name) \in SessionValues \/ cookie \notin valid
    BY <1>0, Told DEF ServerType
  <2>2. told' \in [Asks -> SessionValues]
    BY <1>9, <2>1, <1>0, <1>t DEF Status, SessionType
  <2>3. SessionType'
    BY <1>9, <2>2, <1>0 DEF Status, SessionType, sessionVars, callVars
  <2>4. ServerType'
    BY <1>9, <1>0 DEF Status, Fault, ServerType, serverVars, callVars, ConsoleAssumption
  <2> QED
    BY <1>9, <2>3, <2>4, <1>b DEF Status, ConsoleHolds, serverVars, sessionVars
<1>10. ASSUME NEW q \in Asks, StatusTold(q) PROVE ConsoleHolds'
  <2>1. SessionType'
    BY <1>10, <1>0, Told DEF StatusTold, SessionType, callVars
  <2> QED
    BY <1>10, <2>1, <1>a, <1>b DEF StatusTold, ConsoleHolds, serverVars, callVars
<1>11. ASSUME NEW s \in Sockets, Opens(s) PROVE ConsoleHolds'
  <2>0. /\ SocketType /\ OneSocket /\ SocketFollowsSession /\ SnapshotsInOrder
        /\ cookie \in 0..MaxLogins /\ s \in live \ open /\ wire[s] = NoData
    BY <1>11, <1>0 DEF Opens, FeedInv, SocketDiscipline, SocketType, SnapshotsInOrder, ServerType
  <2>1. /\ open' = open \cup {s} /\ token' = [token EXCEPT ![s] = cookie]
        /\ connection' = (IF running /\ cur = s THEN "connected" ELSE connection)
        /\ UNCHANGED <<running, live, closing, cur, ref, wire, retry, viewVars, shown, rev, built>>
    BY <1>11 DEF Opens, sessionVars, serverVars
  <2>2. Held' = Held
    BY <2>1 DEF Held
  <2>7. token' \in [Sockets -> 0..MaxLogins] /\ open' \subseteq live'
        /\ connection' \in {"connecting", "connected", "disconnected"}
    BY <2>0, <2>1 DEF SocketType
  <2>8. SocketType'
    BY <2>0, <2>1, <2>7 DEF SocketType
  <2>9. ViewType' /\ ClosingsKnown'
    BY <2>1, <1>0 DEF FeedInv, ViewType, ClosingsKnown, viewVars
  <2>3. SocketType' /\ ViewType' /\ ClosingsKnown'
    BY <2>8, <2>9
  <2>10. running /\ cur = s => s \in Held
    BY <2>0, <1>0 DEF FeedInv, ClosingsKnown, Held
  <2>4. SocketFollowsSession' /\ OneSocket'
    BY <2>0, <2>1, <2>2, <2>10 DEF SocketFollowsSession, OneSocket, SignedIn, viewVars
  <2>5. RefreshesInOrder' /\ SnapshotsInOrder'
    BY <2>0, <2>1, <2>2, <1>t DEF RefreshesInOrder, SnapshotsInOrder, viewVars
  <2>6. FeedInv'
    BY <2>3, <2>4, <2>5 DEF FeedInv, SocketDiscipline
  <2> QED
    BY <1>11, <2>6, <1>a, <1>c DEF Opens, ConsoleHolds, callVars
<1>12. ASSUME NEW s \in Sockets, Refused(s) \/ Dropped(s) \/ Closed(s) PROVE ConsoleHolds'
  <2>1. PICK p \in BOOLEAN : Closes(s, p)
    BY <1>12 DEF Refused, Dropped, Closed
  <2>2. s \in Held
    BY <1>12, <1>0 DEF Refused, Dropped, Closed, FeedInv, ClosingsKnown, Held
  <2>3. FeedInv'
    BY <2>1, <2>2, <1>0, ClosedKeeps
  <2>4. SessionType'
    BY <2>1, <1>0, <1>t DEF Closes, Expires, SessionType, sessionVars, askVars, callVars
  <2>5. ServerType'
    BY <2>1, <1>12, <1>0 DEF Refused, Dropped, Closed, Fault, Closes, ServerType, serverVars,
       callVars, ConsoleAssumption
  <2> QED
    BY <2>3, <2>4, <2>5 DEF ConsoleHolds
<1>20. ASSUME NEW s \in Sockets, Expelled(s) \/ Ended(s) PROVE ConsoleHolds'
  <2>1. PICK code \in {"1000", "1008"} : ServerCloses(s, code)
    BY <1>20 DEF Expelled, Ended
  <2>2. /\ s \in open /\ closing[s] = "no" /\ closing' = [closing EXCEPT ![s] = code]
        /\ UNCHANGED <<running, live, open, cur, ref, token, wire, retry, connection>>
        /\ UNCHANGED <<serverVars, sessionVars, askVars, callVars, viewVars>>
    BY <2>1 DEF ServerCloses
  <2>3. SocketType /\ ClosingsKnown /\ SnapshotsInOrder /\ OneSocket /\ SocketFollowsSession
    BY <1>0 DEF FeedInv, SocketDiscipline
  <2>4. Held' = Held
    BY <2>2, <2>3 DEF Held, SocketType
  <2>5. SocketType' /\ ViewType' /\ ClosingsKnown'
    BY <2>2, <2>3, <1>t DEF SocketType, ViewType, ClosingsKnown, viewVars
  <2>6. SocketFollowsSession' /\ OneSocket'
    BY <2>2, <2>3, <2>4 DEF SocketFollowsSession, OneSocket, SignedIn, viewVars, sessionVars
  <2>7. RefreshesInOrder' /\ SnapshotsInOrder'
    BY <2>2, <2>3, <2>4, <1>t DEF RefreshesInOrder, SnapshotsInOrder, viewVars, serverVars
  <2>8. FeedInv'
    BY <2>5, <2>6, <2>7 DEF FeedInv, SocketDiscipline
  <2>9. ServerType'
    BY <1>20, <2>2, <1>0 DEF Expelled, Ended, Fault, ServerType, serverVars, callVars,
       ConsoleAssumption
  <2> QED
    BY <2>2, <2>8, <2>9, <1>c DEF ConsoleHolds, callVars
<1>21. ASSUME NEW s \in Sockets, Gone(s) PROVE ConsoleHolds'
  <2>1. SocketType /\ OneSocket /\ SocketFollowsSession /\ s \notin Held
    BY <1>21, <1>0 DEF Gone, FeedInv, SocketDiscipline, Held
  <2>2. /\ UNCHANGED <<running, cur, ref, retry, connection, shown, viewVars, rev, built>>
        /\ Forgotten(s)
    BY <1>21 DEF Gone, sessionVars, serverVars
  <2>3. /\ live' = live \ {s} /\ open' = open \ {s} /\ Held' = Held \ {s}
        /\ closing' \in [Sockets -> {"no", "page", "1000", "1008"}]
        /\ wire' \in [Sockets -> NoData..MaxChanges] /\ token' \in [Sockets -> 0..MaxLogins]
        /\ \A t \in Sockets : t # s => wire'[t] = wire[t]
        /\ SnapshotsInOrder' /\ ClosingsKnown'
    BY <2>2, <1>0, ForgottenKeeps
  <2>4. Held' = Held
    BY <2>1, <2>3
  <2>5. SocketType' /\ ViewType'
    BY <2>1, <2>2, <2>3, <1>t DEF SocketType, ViewType, viewVars
  <2>6. SocketFollowsSession'
    BY <2>1, <2>2, <2>3, <2>4, <1>0 DEF SocketFollowsSession, OneSocket, SignedIn, viewVars, Held
  <2>7. OneSocket'
    BY <2>1, <2>2, <2>4 DEF OneSocket
  <2>8. RefreshesInOrder'
    BY <2>1, <2>2, <2>3, <2>4, <1>t DEF RefreshesInOrder, viewVars, SocketType
  <2>9. FeedInv'
    BY <2>3, <2>5, <2>6, <2>7, <2>8 DEF FeedInv, SocketDiscipline
  <2> QED
    BY <1>21, <2>9, <1>a, <1>c DEF Gone, ConsoleHolds, callVars
<1>13. ASSUME NEW s \in Sockets, NEW b \in BOOLEAN, Push(s, b) PROVE ConsoleHolds'
  <2>1. /\ s \in open /\ wire[s] = NoData /\ overview <= built
        /\ \A t \in Sockets : wire[t] <= built /\ wire[t] \in NoData..MaxChanges
        /\ \A t \in open \cap Held : wire[t] # NoData => overview <= wire[t]
        /\ SocketType /\ SnapshotsInOrder /\ SocketFollowsSession /\ OneSocket
    BY <1>13, <1>0, <1>t DEF Push, FeedInv, SocketDiscipline, SocketType, SnapshotsInOrder,
       RefreshesInOrder
  <2>2. built' \in NoData..MaxChanges /\ built <= built' /\ built' <= rev /\ UNCHANGED rev
    BY <1>13, <1>0, <1>t DEF Push, FeedInv, SnapshotsInOrder, NoData
  <2>3. wire' = [wire EXCEPT ![s] = built']
    BY <1>13 DEF Push
  <2>4. /\ UNCHANGED <<running, live, open, closing, cur, ref, token, retry, connection, viewVars>>
        /\ UNCHANGED shown /\ Held' = Held
    BY <1>13 DEF Push, sessionVars, Held
  <2>5. ServerType'
    BY <1>13, <2>2, <1>0 DEF Push, ServerType, callVars
  <2>6. SocketType' /\ ViewType' /\ ClosingsKnown'
    BY <2>1, <2>2, <2>3, <2>4, <1>0, <1>t DEF FeedInv, SocketType, ViewType, ClosingsKnown, viewVars
  <2>7. SocketFollowsSession' /\ OneSocket'
    BY <2>1, <2>4 DEF SocketFollowsSession, OneSocket, SignedIn, viewVars
  <2>8. RefreshesInOrder'
    BY <2>1, <2>2, <2>3, <2>4, <1>t DEF RefreshesInOrder, viewVars, NoData, ViewType, SocketType
  <2>9. SnapshotsInOrder'
    BY <2>1, <2>2, <2>3, <2>4, <1>t DEF SnapshotsInOrder, NoData, SocketType
  <2>10. FeedInv'
    BY <2>6, <2>7, <2>8, <2>9 DEF FeedInv, SocketDiscipline
  <2> QED
    BY <1>13, <2>5, <2>10, <1>c DEF Push, ConsoleHolds, callVars
<1>14. ASSUME NEW s \in Sockets, NEW b \in BOOLEAN, Message(s, b) PROVE ConsoleHolds'
  <2>1. /\ s \in open /\ wire[s] # NoData /\ wire[s] <= built /\ wire[s] \in NoData..MaxChanges
        /\ SocketType /\ SnapshotsInOrder /\ SocketFollowsSession /\ OneSocket /\ ClosingsKnown
    BY <1>14, <1>0 DEF Message, FeedInv, SocketDiscipline, SocketType, SnapshotsInOrder
  <2>2. /\ wire' = [wire EXCEPT ![s] = NoData] /\ Held' = Held
        /\ UNCHANGED <<running, live, open, closing, cur, ref, token, retry, connection>>
        /\ UNCHANGED <<shown, rev, built>>
    BY <1>14 DEF Message, serverVars, sessionVars, Held
  <2>3. SocketType' /\ SnapshotsInOrder' /\ ClosingsKnown'
    BY <2>1, <2>2, <1>t, NothingShown DEF SocketType, SnapshotsInOrder, ClosingsKnown, NoData
  <2>4. OneSocket'
    BY <2>1, <2>2 DEF OneSocket
  <2>5. ServerType'
    BY <1>14, <1>0 DEF Message, Fault, ServerType, serverVars, callVars, ConsoleAssumption
  <2>6. CASE running /\ cur = s
    <3>1. Settles /\ overview' = IF b THEN wire[s] ELSE overview
      BY <1>14, <2>6 DEF Message
    <3>2. pending' = FALSE /\ timers' = 0
      BY <3>1, <1>t, SettlesView
    <3>3. ViewType' /\ SocketFollowsSession'
      BY <2>1, <2>2, <2>6, <3>1, <3>2, <1>t DEF ViewType, SocketFollowsSession, SignedIn
    <3>4. RefreshesInOrder'
      BY <2>1, <2>2, <2>6, <3>1, <3>2, <1>t DEF RefreshesInOrder, OneSocket, SocketType
    <3> QED
      BY <1>14, <2>3, <2>4, <2>5, <3>3, <3>4, <1>c DEF Message, ConsoleHolds, callVars, FeedInv,
         SocketDiscipline
  <2>7. CASE ~ (running /\ cur = s)
    <3>1. UNCHANGED viewVars
      BY <1>14, <2>7 DEF Message
    <3>2. ViewType' /\ SocketFollowsSession'
      BY <2>1, <2>2, <3>1, <1>t DEF ViewType, SocketFollowsSession, SignedIn, viewVars
    <3>3. RefreshesInOrder'
      BY <2>1, <2>2, <3>1, <1>t DEF RefreshesInOrder, SocketType, viewVars
    <3> QED
      BY <1>14, <2>3, <2>4, <2>5, <3>2, <3>3, <1>c DEF Message, ConsoleHolds, callVars, FeedInv,
         SocketDiscipline
  <2> QED
    BY <2>6, <2>7
<1>15. ASSUME NEW c \in Calls, Begin(c) PROVE ConsoleHolds'
  <2>1. ServerType'
    BY <1>15, <1>0 DEF Begin, ServerType, serverVars
  <2> QED
    BY <1>15, <2>1, <1>b, <1>c DEF Begin, ConsoleHolds, serverVars, sessionVars
<1>16. ASSUME NEW c \in Calls, Handled(c) PROVE ConsoleHolds'
  <2>1. /\ rev <= rev' /\ rev' \in 0..MaxChanges /\ built' = built /\ name' \in 0..MaxNames
        /\ valid' \subseteq Logins /\ logins' \in Logins /\ UNCHANGED <<expired, others>>
        /\ granted' \in SessionValues
    <3>1. CASE Changed
      BY <3>1, <1>0 DEF Changed, ServerType, SessionType, ConsoleAssumption
    <3>2. CASE Renamed
      BY <3>2, <1>0 DEF Renamed, ServerType, SessionType, ConsoleAssumption
    <3>3. CASE Left
      BY <3>3, <1>0 DEF Left, ServerType, SessionType
    <3>4. CASE LoggedIn
      <4>1. logins' \in Logins /\ valid' \subseteq Logins
        BY <3>4, <1>0 DEF LoggedIn, ServerType, Logins, ConsoleAssumption
      <4>2. granted' \in SessionValues
        BY <3>4, <4>1, <1>0, Told DEF LoggedIn, ServerType
      <4> QED
        BY <3>4, <4>1, <4>2, <1>0 DEF LoggedIn, ServerType
    <3>5. CASE UNCHANGED <<serverVars, granted>>
      BY <3>5, <1>0 DEF serverVars, ServerType, SessionType
    <3> QED
      BY <1>16, <3>1, <3>2, <3>3, <3>4, <3>5 DEF Handled
  <2>2. cookie' \in 0..MaxLogins
    BY <1>16, <2>1, <1>0, LoginOf DEF Handled, ServerType, serverVars
  <2>3. call' \in [Calls -> {"idle", "sent", "ok", "refused", "failed"}]
    BY <1>16, <1>0 DEF Handled, ServerType
  <2>4. faults' \in 0..MaxFaults
    BY <1>16, <1>0 DEF Handled, Fault, ServerType, ConsoleAssumption
  <2>5. ServerType'
    BY <2>1, <2>2, <2>3, <2>4, <1>0, <1>t DEF ServerType
  <2>6. SessionType'
    BY <1>16, <2>1, <1>0 DEF Handled, SessionType, sessionVars, askVars
  <2>7. FeedInv'
    BY <1>16, <2>1, <1>0, <1>t, FeedStays DEF Handled, sessionVars
  <2> QED
    BY <2>5, <2>6, <2>7 DEF ConsoleHolds
<1>17. ASSUME NEW c \in Calls, Answered(c) PROVE ConsoleHolds'
  <2>1. ServerType'
    BY <1>17, <1>0 DEF Answered, ServerType, serverVars
  <2>2. /\ UNCHANGED <<shown, timer, rev, built>> /\ session' \in SessionValues
        /\ granted' \in SessionValues
    BY <1>17, <1>0, <1>t, Told DEF Answered, Expires, SessionType, sessionVars, serverVars
  <2>3. asked' \in [Asks -> {"idle", "sent", "told", "failed"}] /\ told' \in [Asks -> SessionValues]
    BY <1>17, <1>0 DEF Answered, Asking, SessionType, askVars
  <2>4. SessionType'
    BY <2>2, <2>3, <1>0 DEF SessionType
  <2>5. Refreshes \/ UNCHANGED <<socketVars, viewVars>>
    BY <1>17 DEF Answered
  <2>6. FeedInv'
    BY <2>2, <2>5, <1>0, <1>t, <1>b, RefreshesKeeps
  <2> QED
    BY <2>1, <2>4, <2>6 DEF ConsoleHolds
<1>18. ASSUME NEW n \in Logins, Revoked(n) \/ Expired(n) PROVE ConsoleHolds'
  <2>1. ServerType'
    BY <1>18, <1>0 DEF Revoked, Expired, ServerType, callVars
  <2> QED
    BY <1>18, <2>1, <1>b, <1>c DEF Revoked, Expired, ConsoleHolds, callVars, sessionVars
<1>19. CASE UNCHANGED vars
  BY <1>19, <1>a, <1>b, <1>c DEF vars, ConsoleHolds, serverVars, sessionVars, callVars
<1> QED
  BY <1>1, <1>2, <1>3, <1>4, <1>5, <1>6, <1>7, <1>8, <1>9, <1>10, <1>11, <1>12, <1>13, <1>14,
     <1>15, <1>16, <1>17, <1>18, <1>19, <1>20, <1>21 DEF Next, TabNext

\* The invariant of the console.
THEOREM ConsoleInv == ASSUME ConsoleAssumption PROVE Spec => []ConsoleHolds
<1>1. Init => ConsoleHolds
  BY ConsoleStarts
<1>2. ConsoleHolds /\ [Next]_vars => ConsoleHolds'
  BY ConsoleSteps
<1> QED
  BY <1>1, <1>2, PTL DEF Spec

\* The variables of the tab have their types, within all bounds.
THEOREM ConsoleTypeOK == ASSUME ConsoleAssumption PROVE Spec => []TypeOK
<1>1. ConsoleHolds => TypeOK
  BY InvImplies
<1>2. Spec => []ConsoleHolds
  BY ConsoleInv
<1> QED
  BY <1>1, <1>2, PTL

\* useOverview 105-206: whatever order sockets, session, timers, answers and clicks come
\* in, a tab has one socket at most, has none without a signed-in session, has one timer
\* for a refresh under way, and shows snapshots in the order the server made them.
THEOREM ConsoleSocketDiscipline == ASSUME ConsoleAssumption PROVE Spec => []SocketDiscipline
<1>1. ConsoleHolds => SocketDiscipline
  BY InvImplies
<1>2. Spec => []ConsoleHolds
  BY ConsoleInv
<1> QED
  BY <1>1, <1>2, PTL

-----------------------------------------------------------------------------
(* The server form                                                         *)

\* The request under way is the draft that is on the screen, which may be converted
SentIsDraft ==
  /\ sent # Nothing => sent = Sends /\ Convertible /\ edits # NotOpen

\* Until it is edited, the form says what is stored, whoever else saves
SaysWhatIsStored ==
  edits = 0 =>
    /\ form.mode = (IF dns.doh THEN "doh" ELSE IF dns.servers # {} THEN "servers" ELSE "system")
    /\ form.servers = dns.servers /\ form.urls = FormUrls(dns) /\ form.ports = FormPorts(udp)

FormHolds == SentIsDraft /\ SaysWhatIsStored

-----------------------------------------------------------------------------
(* What becomes of a user *)

\* The password of a name that one row has is the one of that row, and it is kept exactly
\* when that row keeps it.
LEMMA SendsRow ==
  ASSUME Convertible, NEW u \in Users, NEW r \in There, form.rows[r].username = u
  PROVE  /\ (CHOOSE q \in There : form.rows[q].username = u) = r
         /\ u \in Sends.users /\ Sends.password[u] = form.rows[r].password
         /\ u \in Sends.unchanged <=> Keeps(form.rows[r])
<1>1. \A q \in There : form.rows[q].username = u => q = r
  BY DEF Convertible
<1>2. (CHOOSE q \in There : form.rows[q].username = u) = r
  BY <1>1
<1>3. u \in Sends.users
  BY DEF Sends
<1>4. Sends.password[u] = form.rows[r].password
  BY <1>2 DEF Sends
<1>5. u \in Sends.unchanged <=> Keeps(form.rows[r])
  BY <1>1 DEF Sends
<1> QED
  BY <1>2, <1>3, <1>4, <1>5

\* A user without a row is not in the request.
LEMMA SendsNobodyElse ==
  ASSUME NEW u \in Users, ~ \E r \in There : form.rows[r].username = u
  PROVE  u \notin Sends.users
BY DEF Sends

\* The console's own requests know the array, so that eight stars are a password.
LEMMA SendsArray == Sends.array = TRUE
BY DEF Sends

LEMMA Kept ==
  ASSUME SentIsDraft, Accepted, NEW u \in Users
  PROVE  users'[u] =
           IF \E r \in There : form.rows[r].username = u
           THEN LET row == form.rows[CHOOSE r \in There : form.rows[r].username = u]
                IN IF row.password = Empty THEN users[row.original] ELSE Hash(row.password)
           ELSE Empty
<1>1. sent = Sends /\ Convertible /\ Valid(Sends) /\ users'[u] = Prepared(Sends, u)
  BY DEF SentIsDraft, Accepted, Saves
<1>2. CASE ~ \E r \in There : form.rows[r].username = u
  BY <1>1, <1>2, SendsNobodyElse DEF Prepared
<1>3. ASSUME NEW r \in There, form.rows[r].username = u
      PROVE  users'[u] = IF form.rows[r].password = Empty
                         THEN users[form.rows[r].original] ELSE Hash(form.rows[r].password)
  <2>1. u \in Sends.users /\ Sends.password[u] = form.rows[r].password
        /\ (u \in Sends.unchanged <=> Keeps(form.rows[r]))
    BY <1>1, <1>3, SendsRow
  <2>2. Preserves(Sends, u) <=> Keeps(form.rows[r])
    BY <2>1, SendsArray DEF Preserves, IsLegacy
  <2>3. form.rows[r].password # Empty \/ Keeps(form.rows[r])
    BY <1>1, <2>1 DEF Valid
  <2> QED
    BY <1>1, <1>3, <2>1, <2>2, <2>3 DEF Prepared, Keeps
<1> QED
  BY <1>1, <1>2, <1>3, SendsRow

-----------------------------------------------------------------------------
(* What is saved unedited *)

LEMMA Unedited ==
  ASSUME FormHolds, Accepted, edits = 0
  PROVE  Endpoints(dns') = Endpoints(dns) /\ RelayPorts(udp') = RelayPorts(udp)
<1>1. dns' = Sends.dns /\ udp' = Sends.udp
  BY DEF FormHolds, SentIsDraft, Accepted, Saves
<1>2. /\ form.mode = (IF dns.doh THEN "doh" ELSE IF dns.servers # {} THEN "servers" ELSE "system")
      /\ form.servers = dns.servers /\ form.urls = FormUrls(dns) /\ form.ports = FormPorts(udp)
  BY DEF FormHolds, SaysWhatIsStored
<1>3. /\ Sends.dns.servers = IF form.mode = "servers" THEN form.servers ELSE {}
      /\ Sends.dns.doh = (form.mode = "doh") /\ Sends.dns.url = ""
      /\ Sends.dns.urls = IF form.mode = "doh" THEN form.urls ELSE {}
      /\ Sends.udp.port = 0 /\ Sends.udp.ports = form.ports
  BY DEF Sends
<1>4. Endpoints(Sends.dns) = Endpoints(dns)
  <2>1. CASE dns.doh
    BY <1>2, <1>3, <2>1 DEF Endpoints, FormUrls
  <2>2. CASE ~dns.doh
    BY <1>2, <1>3, <2>2 DEF Endpoints
  <2> QED
    BY <2>1, <2>2
<1>5. RelayPorts(Sends.udp) = RelayPorts(udp)
  BY <1>2, <1>3 DEF RelayPorts, FormPorts
<1> QED
  BY <1>1, <1>4, <1>5

-----------------------------------------------------------------------------
(* The invariant *)

LEMMA FormStarts == FormInit => FormHolds
BY DEF FormInit, FormHolds, SentIsDraft, SaysWhatIsStored, NotOpen

\* An edit is one of a draft that has not been sent.
LEMMA EditKeeps ==
  ASSUME Edits PROVE FormHolds'
<1>1. sent' = Nothing /\ edits' # 0 /\ edits' # NotOpen
  BY DEF Edits, NotOpen
<1> QED
  BY <1>1 DEF FormHolds, SentIsDraft, SaysWhatIsStored

LEMMA FormSteps == FormHolds /\ [FormNext]_formVars => FormHolds'
<1> SUFFICES ASSUME FormHolds, [FormNext]_formVars PROVE FormHolds'
  OBVIOUS
<1>1. CASE Load
  <2>1. sent = Nothing /\ sent' = Nothing /\ edits' = 0 /\ UNCHANGED <<dns, udp>>
    BY <1>1 DEF Load, FormHolds, SentIsDraft
  <2>2. /\ form'.mode = (IF dns.doh THEN "doh" ELSE IF dns.servers # {} THEN "servers" ELSE "system")
        /\ form'.servers = dns.servers /\ form'.urls = FormUrls(dns)
        /\ form'.ports = FormPorts(udp)
    BY <1>1 DEF Load
  <2> QED
    BY <2>1, <2>2 DEF FormHolds, SentIsDraft, SaysWhatIsStored, FormUrls, FormPorts
<1>2. CASE Submit
  <2>1. Sends' = Sends /\ (Convertible' <=> Convertible)
    BY <1>2 DEF Submit, Sends, Convertible, There
  <2> QED
    BY <1>2, <2>1 DEF Submit, FormHolds, SentIsDraft, SaysWhatIsStored, FormUrls, FormPorts
<1>3. CASE Accepted \/ Cancel
  BY <1>3 DEF Accepted, Cancel, FormHolds, SentIsDraft, SaysWhatIsStored, NotOpen
<1>4. CASE Rejected
  BY <1>4 DEF Rejected, FormHolds, SentIsDraft, SaysWhatIsStored, FormUrls, FormPorts
<1>5. ASSUME NEW u \in Users, NEW p, OtherSaves(u, p) PROVE FormHolds'
  <2>1. UNCHANGED <<form, edits, sent>> /\ UNCHANGED <<dns, udp>>
    BY <1>5 DEF OtherSaves, Saves, Nothing
  <2>2. Sends' = Sends /\ (Convertible' <=> Convertible)
    BY <2>1 DEF Sends, Convertible, There
  <2> QED
    BY <2>1, <2>2 DEF FormHolds, SentIsDraft, SaysWhatIsStored, FormUrls, FormPorts
<1>6. CASE Edits
  BY <1>6, EditKeeps
<1>7. CASE UNCHANGED formVars
  <2>1. Sends' = Sends /\ (Convertible' <=> Convertible)
    BY <1>7 DEF formVars, Sends, Convertible, There
  <2> QED
    BY <1>7, <2>1 DEF formVars, FormHolds, SentIsDraft, SaysWhatIsStored, FormUrls, FormPorts
<1>8. ASSUME FormNext PROVE Load \/ Submit \/ Accepted \/ Cancel \/ Rejected \/ Edits
                        \/ \E u \in Users, p \in (Words \X {0}) \cup {Empty} : OtherSaves(u, p)
  BY <1>8 DEF FormNext, ChangeMethod, ChangeMode, ChangePorts, Add, Remove, Rename, Type, EditsRows
<1> QED
  BY <1>1, <1>2, <1>3, <1>4, <1>5, <1>6, <1>7, <1>8

THEOREM FormInv == FormSpec => []FormHolds
<1> QED
  BY FormStarts, FormSteps, PTL DEF FormSpec

-----------------------------------------------------------------------------

\* README 459: after a save each user of the draft has the password typed for him or, where
\* none was, the one of the user the row was loaded for; nobody else is left.
THEOREM FormCredentialsKept == FormSpec => CredentialsKept
<1>1. FormHolds /\ [FormNext]_formVars =>
        [Accepted =>
           \A u \in Users :
             users'[u] =
               IF \E r \in There : form.rows[r].username = u
               THEN LET row == form.rows[CHOOSE r \in There : form.rows[r].username = u]
                    IN IF row.password = Empty THEN users[row.original] ELSE Hash(row.password)
               ELSE Empty]_formVars
  BY Kept DEF FormHolds
<1> QED
  BY <1>1, FormInv, PTL DEF FormSpec, CredentialsKept

\* Saving what nobody edited leaves what runs as it is, in whichever form it is stored.
THEOREM FormSavedAsLoaded == FormSpec => SavedAsLoaded
<1>1. FormHolds /\ [FormNext]_formVars =>
        [Accepted /\ edits = 0 =>
           Endpoints(dns') = Endpoints(dns) /\ RelayPorts(udp') = RelayPorts(udp)]_formVars
  BY Unedited
<1> QED
  BY <1>1, FormInv, PTL DEF FormSpec, SavedAsLoaded

-----------------------------------------------------------------------------
(* The tabs of the editor                                                  *)

\* A field that is rendered is on the pane of its tab (ServerEditor.tsx:135-486, 545-558)
LEMMA PaneOfField ==
  ASSUME NEW d, NEW new, NEW f \in Edit!Rendered(d, new)
  PROVE  f \in Edit!Pane(Edit!TabOf(f), d, new)
<1>1. CASE f \in Edit!Basic(d)
  <2>1. f[1] \in {"name", "interface", "listen", "max_connections", "connect_timeout", "idle_timeout"}
    BY <1>1 DEF Edit!Basic
  <2>2. Edit!TabOf(f) = "basic"
    BY <2>1 DEF Edit!TabOf
  <2> QED BY <1>1, <2>2 DEF Edit!Pane
<1>2. CASE f \in Edit!Protocols(d, new)
  <2>1. f[1] \in {"auth_users", "http_proxy", "upstream", "bind", "bind_timeout"}
    BY <1>2 DEF Edit!Protocols
  <2>2. Edit!TabOf(f) = "protocols"
    BY <2>1 DEF Edit!TabOf
  <2> QED BY <1>2, <2>2 DEF Edit!Pane
<1>3. CASE f \in Edit!Access
  <2>1. f[1] = "access"
    BY <1>3 DEF Edit!Access
  <2>2. Edit!TabOf(f) = "access"
    BY <2>1 DEF Edit!TabOf
  <2> QED BY <1>3, <2>2 DEF Edit!Pane
<1>4. CASE f \in Edit!Dns(d)
  <2>1. f[1] \in {"dns", "doh_urls", "dns_servers", "doh_headers"}
    BY <1>4 DEF Edit!Dns, Edit!Pairs
  <2>2. Edit!TabOf(f) = "dns"
    BY <2>1 DEF Edit!TabOf
  <2> QED BY <1>4, <2>2 DEF Edit!Pane
<1>5. CASE f \in Edit!Udp(d)
  <2>1. f[1] \in {"udp", "udp_ports", "udp_map", "udp_source_map"}
    BY <1>5 DEF Edit!Udp, Edit!Pairs
  <2>2. Edit!TabOf(f) = "udp"
    BY <2>1 DEF Edit!TabOf
  <2> QED BY <1>5, <2>2 DEF Edit!Pane
<1>6. CASE f \in Edit!Heartbeat
  <2>1. f[1] = "heartbeat"
    BY <1>6 DEF Edit!Heartbeat
  <2>2. Edit!TabOf(f) = "heartbeat"
    BY <2>1 DEF Edit!TabOf
  <2> QED BY <1>6, <2>2 DEF Edit!Pane
<1> QED
  BY <1>1, <1>2, <1>3, <1>4, <1>5, <1>6 DEF Edit!Rendered, Edit!Tabs, Edit!Pane

\* Nothing but a form that is not accepted says where to scroll
LEMMA OnlySubmitScrolls ==
  ASSUME [Edit!Next]_Edit!vars, invalid' \notin {Edit!NoField, invalid}
  PROVE  Edit!Submit /\ Edit!FinishFailed
<1>1. Edit!Next
  BY DEF Edit!vars, Edit!viewVars
<1>2. ~(Edit!EditResolves \/ Edit!EditFails \/ Edit!SignedOut \/ Edit!SignsIn)
  BY DEF Edit!EditResolves, Edit!EditFails, Edit!SignedOut, Edit!SignsIn, Edit!Unmounts,
         Edit!viewVars
<1>3. ~(Edit!Scrolls \/ Edit!AskDelete \/ Edit!Keep \/ Edit!Delete \/ Edit!Cancel)
  BY DEF Edit!Scrolls, Edit!AskDelete, Edit!Keep, Edit!Delete, Edit!Cancel, Edit!Unmounts,
         Edit!viewVars
<1>4. \A e \in Editors : ~(Edit!Edit(e) \/ Edit!Accepted(e) \/ Edit!Refused(e))
  BY DEF Edit!Edit, Edit!Accepted, Edit!Refused, Edit!Unmounts, Edit!viewVars
<1>5. /\ \A s \in Edit!Switches : ~Edit!Switch(s)
      /\ \A f \in Edit!Pane(tab, draft, isNew) \cup Edit!Clashes :
           ~(Edit!Spoil(f) \/ Edit!Correct(f))
      /\ \A t \in Edit!Tabs : ~Edit!ChangeTab(t)
  BY DEF Edit!Switch, Edit!Spoil, Edit!Correct, Edit!ChangeTab, Edit!viewVars
<1>6. Edit!Submit
  BY <1>1, <1>2, <1>3, <1>4, <1>5 DEF Edit!Next
<1>7. ~Edit!OnSave
  BY DEF Edit!OnSave
<1> QED BY <1>6, <1>7 DEF Edit!Submit

LEMMA ErrorOnItsTab ==
  ASSUME [Edit!Next]_Edit!vars, invalid' \notin {Edit!NoField, invalid}
  PROVE  invalid' \in Edit!Pane(tab', draft', isNew')
<1>1. Edit!Submit /\ Edit!FinishFailed
  BY OnlySubmitScrolls
<1>2. draft' = draft /\ isNew' = isNew
  BY <1>1 DEF Edit!Submit, Edit!formVars
<1>3. PICK f \in Edit!Rendered(draft, isNew) : invalid' = f /\ tab' = Edit!TabOf(f)
  BY <1>1 DEF Edit!FinishFailed
<1> QED BY <1>2, <1>3, PaneOfField

LEMMA EditorVars == UNCHANGED editorVars <=> UNCHANGED Edit!vars
BY DEF editorVars, Edit!vars, Edit!formVars, Edit!viewVars

\* When a form is not accepted, the tab that is selected has the field the user is sent to,
\* whatever switches hide and show (ServerEditor.tsx:537-561).
THEOREM PagesFirstErrorShown == PagesSpec => FirstErrorShown
<1>1. [PagesNext]_allVars => [Edit!Next]_Edit!vars
  BY EditorVars DEF PagesNext, allVars
<1>2. [PagesNext]_allVars
        => [invalid' \notin {Edit!NoField, invalid} => invalid' \in Edit!Pane(tab', draft', isNew')]_Edit!vars
  BY <1>1, ErrorOnItsTab
<1> QED BY <1>2, PTL DEF PagesSpec, FirstErrorShown, Edit!FirstErrorShown

-----------------------------------------------------------------------------
(* The queries of the pages                                                *)

\* A request of a query: what for, and what came of it
QueryRequest == [for : Query!Keys \cup {Query!Nothing}, is : {"unused", "asked", "told", "failed"}]
QueryTypes ==
  /\ querySelected \in Filters /\ revision \in [Queries -> 0..MaxRevisions]
  /\ effect \in [Queries -> Query!Keys \cup {Query!Nothing}]
  /\ current \in [Queries -> 0..MaxRequests]
  /\ requests \in [Queries -> [1..MaxRequests -> QueryRequest]]
  /\ data \in [Queries -> Query!Keys \cup {Query!Nothing}]
  /\ loading \in [Queries -> BOOLEAN] /\ queryError \in [Queries -> BOOLEAN]

\* What a query shows, or is about to show, is what its effect was run for last: the
\* request it waits for was made by that effect, and the answer it shows came to it.
QueryInv ==
  /\ Query!QueryAssumption /\ QueryTypes
  /\ \A q \in Queries :
       /\ current[q] # 0 /\ requests[q][current[q]].is # "unused"
            => requests[q][current[q]].for = effect[q]
       /\ ~loading[q] /\ ~queryError[q] => data[q] = effect[q]

LEMMA QueryStarts == Query!QueryAssumption /\ Query!Init => QueryInv
BY SMT DEF QueryInv, Query!QueryAssumption, Query!Init, QueryTypes, QueryRequest, Query!Nothing, Query!Unused,
  Query!Keys

LEMMA KeyIsKey ==
  ASSUME QueryTypes, NEW q \in Queries PROVE Query!Key(q) \in Query!Keys
BY DEF QueryTypes, Query!Key, Query!Keys

LEMMA EffectKeeps == ASSUME QueryInv, Query!Effect PROVE QueryInv'
<1> DEFINE Due == {q \in Queries : effect[q] # Query!Key(q)}
<1>1. /\ \A q \in Due : current[q] < MaxRequests
      /\ UNCHANGED <<querySelected, revision, data>>
      /\ effect' = [q \in Queries |-> Query!Key(q)]
      /\ current' = [q \in Queries |-> IF q \in Due THEN current[q] + 1 ELSE current[q]]
      /\ requests' = [q \in Queries |->
           IF q \in Due THEN [requests[q] EXCEPT ![current'[q]] =
                                [for |-> Query!Key(q), is |-> "asked"]]
                        ELSE requests[q]]
      /\ loading' = [q \in Queries |-> loading[q] \/ q \in Due]
      /\ queryError' = [q \in Queries |-> queryError[q] /\ q \notin Due]
  BY DEF Query!Effect
<1>2. QueryTypes' /\ Query!QueryAssumption
  <2>1. \A q \in Queries : Query!Key(q) \in Query!Keys
    BY KeyIsKey DEF QueryInv
  <2>2. current' \in [Queries -> 0..MaxRequests]
    BY <1>1 DEF QueryInv, QueryTypes, Query!QueryAssumption
  <2>3. requests' \in [Queries -> [1..MaxRequests -> QueryRequest]]
    BY <1>1, <2>1 DEF QueryInv, QueryTypes, QueryRequest
  <2> QED BY <1>1, <2>1, <2>2, <2>3 DEF QueryInv, QueryTypes
<1> SUFFICES ASSUME NEW q \in Queries
             PROVE /\ current'[q] # 0 /\ requests'[q][current'[q]].is # "unused"
                        => requests'[q][current'[q]].for = effect'[q]
                   /\ ~loading'[q] /\ ~queryError'[q] => data'[q] = effect'[q]
  BY <1>2 DEF QueryInv
<1>3. CASE q \in Due
  <2>1. current'[q] \in 1..MaxRequests
    BY <1>1, <1>3 DEF QueryInv, QueryTypes, Query!QueryAssumption
  <2> QED BY <1>1, <1>3, <2>1 DEF QueryInv, QueryTypes
<1>4. CASE q \notin Due
  BY <1>1, <1>4 DEF QueryInv, QueryTypes
<1> QED BY <1>3, <1>4

LEMMA AnsweredKeeps ==
  ASSUME QueryInv, NEW q \in Queries, NEW n \in 1..MaxRequests, Query!Answered(q, n)
  PROVE QueryInv'
<1>0. PICK a \in {"told", "failed"} : requests' = [requests EXCEPT ![q][n].is = a]
  BY DEF Query!Answered
<1>1. UNCHANGED <<querySelected, revision, effect, current, data, loading, queryError>>
  BY DEF Query!Answered
<1> DEFINE r == [requests[q][n] EXCEPT !.is = a]
<1>2. /\ requests[q][n] \in QueryRequest
      /\ requests' = [requests EXCEPT ![q][n] = r]
  BY <1>0 DEF QueryInv, QueryTypes
<1>3. /\ r \in QueryRequest
      /\ r.for = requests[q][n].for
  <2> HIDE DEF QueryInv
  <2> QED BY <1>2 DEF QueryRequest
<1>4. requests[q][n].is = "asked"
  BY DEF Query!Answered
<1> HIDE DEF r
<1>5. /\ requests' \in [Queries -> [1..MaxRequests -> QueryRequest]]
      /\ requests'[q][n] = r
      /\ \A p \in Queries, m \in 1..MaxRequests :
           p # q \/ m # n => requests'[p][m] = requests[p][m]
  BY <1>2, <1>3 DEF QueryInv, QueryTypes
<1>6. QueryTypes'
  BY <1>1, <1>5 DEF QueryInv, QueryTypes, Query!Keys, Query!Nothing
<1>7. ASSUME NEW p \in Queries, current[p] # 0, requests'[p][current[p]].is # "unused"
      PROVE  requests'[p][current[p]].for = effect[p]
  <2>1. current[p] \in 1..MaxRequests
    BY <1>7 DEF QueryInv, QueryTypes, Query!QueryAssumption
  <2> QED BY <1>3, <1>4, <1>5, <1>7, <2>1 DEF QueryInv
<1> QED BY <1>1, <1>6, <1>7 DEF QueryInv

LEMMA ToldKeeps ==
  ASSUME QueryInv, NEW q \in Queries, NEW n \in 1..MaxRequests, Query!Told(q, n)
  PROVE QueryInv'
<1>1. UNCHANGED <<querySelected, revision, effect, current>>
  BY DEF Query!Told
<1>2. /\ Query!Unused \in QueryRequest
      /\ Query!Unused.is = "unused"
  BY DEF Query!Unused, QueryRequest
<1>3. /\ requests' \in [Queries -> [1..MaxRequests -> QueryRequest]]
      /\ requests'[q][n].is = "unused"
      /\ \A p \in Queries, m \in 1..MaxRequests :
           p # q \/ m # n => requests'[p][m] = requests[p][m]
  BY <1>2 DEF QueryInv, QueryTypes, Query!Told
<1>4. requests[q][n] \in QueryRequest
  <2>1. requests \in [Queries -> [1..MaxRequests -> QueryRequest]]
    BY DEF QueryInv, QueryTypes
  <2> QED BY <2>1, Zenon
<1>5. ASSUME NEW p \in Queries, current[p] # 0, requests'[p][current[p]].is # "unused"
      PROVE  requests'[p][current[p]].for = effect[p]
  <2>1. current[p] \in 1..MaxRequests
    BY <1>5 DEF QueryInv, QueryTypes, Query!QueryAssumption
  <2>2. requests'[p][current[p]] = requests[p][current[p]]
    BY <1>3, <1>5, <2>1
  <2> QED BY <1>5, <2>2 DEF QueryInv
<1>6. CASE n # current[q]
  <2>1. UNCHANGED <<data, loading, queryError>>
    BY <1>6 DEF Query!Told, Query!Welcome
  <2>2. QueryTypes'
    BY <1>1, <1>3, <2>1 DEF QueryInv, QueryTypes, Query!Keys, Query!Nothing
  <2> QED BY <1>1, <1>5, <2>1, <2>2 DEF QueryInv
<1>7. CASE n = current[q] /\ requests[q][n].is = "told"
  <2>1. /\ loading' = [loading EXCEPT ![q] = FALSE]
        /\ data' = [data EXCEPT ![q] = requests[q][n].for] /\ UNCHANGED queryError
    BY <1>7 DEF Query!Told, Query!Welcome
  <2>2. requests[q][n].for = effect[q]
    BY <1>7 DEF QueryInv
  <2>3. /\ loading' \in [Queries -> BOOLEAN] /\ data' \in [Queries -> Query!Keys \cup {Query!Nothing}]
        /\ data'[q] = effect[q]
        /\ \A p \in Queries : p # q => data'[p] = data[p] /\ loading'[p] = loading[p]
    BY <1>4, <2>1, <2>2 DEF QueryInv, QueryTypes
  <2>4. QueryTypes'
    BY <1>1, <1>3, <2>1, <2>3 DEF QueryInv, QueryTypes, Query!Keys, Query!Nothing
  <2> QED BY <1>1, <1>5, <2>1, <2>3, <2>4 DEF QueryInv
<1>8. CASE n = current[q] /\ requests[q][n].is = "failed"
  <2>1. /\ loading' = [loading EXCEPT ![q] = FALSE]
        /\ queryError' = [queryError EXCEPT ![q] = TRUE] /\ UNCHANGED data
    BY <1>8 DEF Query!Told, Query!Welcome
  <2>3. /\ loading' \in [Queries -> BOOLEAN] /\ queryError' \in [Queries -> BOOLEAN]
        /\ queryError'[q]
        /\ \A p \in Queries :
             p # q => queryError'[p] = queryError[p] /\ loading'[p] = loading[p]
    BY <2>1 DEF QueryInv, QueryTypes
  <2>4. QueryTypes'
    BY <1>1, <1>3, <2>1, <2>3 DEF QueryInv, QueryTypes, Query!Keys, Query!Nothing
  <2> QED BY <1>1, <1>5, <2>1, <2>3, <2>4 DEF QueryInv
<1> QED BY <1>6, <1>7, <1>8 DEF Query!Told

LEMMA QueryStep == QueryInv /\ [Query!Next]_queryVars => QueryInv'
<1> SUFFICES ASSUME QueryInv, [Query!Next]_queryVars PROVE QueryInv'
  OBVIOUS
<1>1. ASSUME NEW f \in Filters, Query!Select(f) PROVE QueryInv'
  BY <1>1 DEF QueryInv, QueryTypes, Query!Select, Query!Keys
<1>2. CASE Query!Refresh
  BY <1>2 DEF QueryInv, QueryTypes, Query!QueryAssumption, Query!Refresh, Query!Keys
<1>3. CASE Query!Effect
  BY <1>3, EffectKeeps
<1>4. ASSUME NEW q \in Queries, NEW n \in 1..MaxRequests, Query!Answered(q, n) \/ Query!Told(q, n)
      PROVE QueryInv'
  BY <1>4, AnsweredKeeps, ToldKeeps
<1>5. CASE UNCHANGED queryVars
  BY <1>5 DEF QueryInv, QueryTypes, queryVars, Query!Keys
<1> QED BY <1>1, <1>2, <1>3, <1>4, <1>5 DEF Query!Next

LEMMA QueryFresh == QueryInv => Query!FreshAnswer
BY DEF QueryInv, Query!FreshAnswer

\* A page that neither loads nor complains shows the answer for what is selected, whatever
\* order requests, selections and refreshes come in (useQuery.ts:4-31).
THEOREM PagesFreshAnswer == ASSUME PagesAssumption PROVE PagesSpec => []FreshAnswer
<1>1. PagesInit => (subject = "query" => QueryInv)
  BY QueryStarts DEF PagesAssumption, PagesInit
<1>2. (subject = "query" => QueryInv) /\ [PagesNext]_allVars => (subject = "query" => QueryInv)'
  BY QueryStep DEF PagesNext, allVars
<1>3. (subject = "query" => QueryInv) => FreshAnswer
  BY QueryFresh DEF FreshAnswer
<1> QED BY <1>1, <1>2, <1>3, PTL DEF PagesSpec

-----------------------------------------------------------------------------
(* The curve of the last five minutes                                      *)

\* The records of the charts
Baselines == [Instances -> [generation : Int, bytes : Nat]]
Point == [at : Int, since : Int, bytes : Nat]
ChartHistory == [service : Int, at : Int, baselines : Baselines, points : SUBSET Point]
Snapshot == [at : Int, service : Int, instances : Baselines]

ServerTypes ==
  /\ now \in Int /\ now >= Window + MaxBack + 1 /\ service \in Nat
  /\ generation \in [Instances -> Nat] /\ counter \in [Instances -> Nat]
  /\ counted \in [Instances -> Nat]

Carried == SumFunctionOnSet(counted, Instances)

\* Counters that were read are of the current generation, and not ahead of it, or of an
\* older one
Known(b) ==
  \A i \in Instances :
    b[i].generation <= generation[i]
    /\ (b[i].generation = generation[i] => b[i].bytes <= counter[i])

\* What the counters will tell beyond those that were read: nothing of a generation that ended
Rest(b) ==
  [i \in Instances |-> IF b[i].generation = generation[i] THEN counter[i] - b[i].bytes ELSE 0]

\* What a chart finds between two readings, and what is still to come after the second
Gain(b, c) ==
  [i \in Instances |->
     IF b[i].generation = c[i].generation /\ c[i].bytes >= b[i].bytes
     THEN c[i].bytes - b[i].bytes ELSE 0]
Due(b, c) == [i \in Instances |-> Gain(b, c)[i] + Rest(c)[i]]

\* The points of a history are of intervals that do not overlap, up to its last sample.
Spans(h) ==
  /\ h \in ChartHistory /\ IsFiniteSet(h.points)
  /\ \A p \in h.points : p.at - p.since \in Apart..Window /\ p.at \in h.at - Window .. h.at
  /\ \A p, q \in h.points : p # q => p.at <= q.since \/ q.at <= p.since

\* What a history charts, and what it would chart of the rest, was carried; and so for a
\* snapshot on its way to it.
Covered(h) ==
  /\ Known(h.baselines)
  /\ Chart!Charted(h) + SumFunctionOnSet(Rest(h.baselines), Instances) <= Carried
Coming(h, s) ==
  /\ s.service \in Nat /\ s.at >= Window + 1 /\ Known(s.instances)
  /\ Chart!Charted(h) + SumFunctionOnSet(Due(h.baselines, s.instances), Instances) <= Carried

ChartInv ==
  /\ ServerTypes
  /\ history \in [OpenTabs -> ChartHistory] /\ seen \in [OpenTabs -> Snapshot]
  /\ Spans(stored) /\ Covered(stored)
  /\ \A t \in OpenTabs :
       /\ Spans(history[t]) /\ Covered(history[t])
       /\ seen[t] # Chart!NoSnapshot => Coming(history[t], seen[t])

LEMMA ChartSum ==
  \A f, S : Chart!SumFunctionOnSet(f, S) = SumFunctionOnSet(f, S)
BY DEF Chart!SumFunctionOnSet, Chart!FoldFunctionOnSet, Chart!MapThenFoldSet,
       SumFunctionOnSet, FoldFunctionOnSet, MapThenFoldSet

\* The bytes of points, whatever set they are taken from
LEMMA ChartedIs ==
  ASSUME NEW h, Spans(h), NEW S, h.points \subseteq S
  PROVE  /\ Chart!Charted(h) = SumFunctionOnSet([p \in S |-> p.bytes], h.points)
         /\ Chart!Charted(h) \in Nat
<1>1. IsFiniteSet(h.points) /\ \A p \in h.points : p.bytes \in Nat
  BY DEF Spans, ChartHistory, Point
<1> DEFINE f == [p \in h.points |-> p.bytes]
           g == [p \in S |-> p.bytes]
<1>2. \A p \in h.points : f[p] = g[p] /\ f[p] \in Nat
  BY <1>1
<1>3. Chart!Charted(h) = SumFunctionOnSet(f, h.points)
  BY ChartSum DEF Chart!Charted
<1> HIDE DEF f, g
<1>4. SumFunctionOnSet(f, h.points) = SumFunctionOnSet(g, h.points)
  BY <1>1, <1>2, SumAgrees
<1>5. SumFunctionOnSet(f, h.points) \in Nat
  BY <1>1, <1>2, SumIsNat
<1> QED BY <1>3, <1>4, <1>5 DEF g

\* Fewer points chart no more.
LEMMA FewerPoints ==
  ASSUME NEW h, Spans(h), NEW k, Spans(k), k.points \subseteq h.points
  PROVE  Chart!Charted(k) <= Chart!Charted(h)
<1> DEFINE f == [p \in h.points |-> p.bytes]
<1>1. IsFiniteSet(h.points) /\ \A p \in h.points : f[p] \in Nat
  BY DEF Spans, ChartHistory, Point
<1>2. /\ Chart!Charted(h) = SumFunctionOnSet(f, h.points)
      /\ Chart!Charted(k) = SumFunctionOnSet(f, k.points)
  BY ChartedIs
<1> HIDE DEF f
<1> QED BY <1>1, <1>2, SumPart

LEMMA RestTyped ==
  ASSUME ServerTypes, NEW b \in Baselines, Known(b) PROVE Rest(b) \in [Instances -> Nat]
<1> SUFFICES ASSUME NEW i \in Instances
             PROVE  (IF b[i].generation = generation[i] THEN counter[i] - b[i].bytes ELSE 0) \in Nat
  BY DEF Rest
<1>1. b[i].bytes \in Nat /\ counter[i] \in Nat
  BY DEF Baselines, ServerTypes
<1> QED BY <1>1 DEF Known

LEMMA GainTyped ==
  ASSUME NEW b \in Baselines, NEW c \in Baselines PROVE Gain(b, c) \in [Instances -> Nat]
<1> SUFFICES ASSUME NEW i \in Instances
             PROVE  (IF b[i].generation = c[i].generation /\ c[i].bytes >= b[i].bytes
                     THEN c[i].bytes - b[i].bytes ELSE 0) \in Nat
  BY DEF Gain
<1>1. b[i].bytes \in Nat /\ c[i].bytes \in Nat
  BY DEF Baselines
<1> QED BY <1>1

LEMMA DueTyped ==
  ASSUME ServerTypes, NEW b \in Baselines, NEW c \in Baselines, Known(c)
  PROVE  Due(b, c) \in [Instances -> Nat]
BY RestTyped, GainTyped DEF Due

\* A budget that is kept stays kept when, at each instance, what is due grows by no more than
\* what is carried.
LEMMA BudgetKept ==
  ASSUME IsFiniteSet(Instances), NEW x \in Nat,
         NEW f \in [Instances -> Nat], NEW g \in [Instances -> Nat],
         NEW c \in [Instances -> Nat], NEW d \in [Instances -> Nat],
         x + SumFunctionOnSet(f, Instances) <= SumFunctionOnSet(c, Instances),
         \A i \in Instances : g[i] + c[i] <= f[i] + d[i]
  PROVE  x + SumFunctionOnSet(g, Instances) <= SumFunctionOnSet(d, Instances)
<1> DEFINE gc == [i \in Instances |-> g[i] + c[i]]
           fd == [i \in Instances |-> f[i] + d[i]]
<1>1. \A i \in Instances : gc[i] = g[i] + c[i] /\ fd[i] = f[i] + d[i]
  OBVIOUS
<1> HIDE DEF gc, fd
<1>2. \A i \in Instances : g[i] \in Nat /\ c[i] \in Nat /\ f[i] \in Nat /\ d[i] \in Nat
  OBVIOUS
<1>3. SumFunctionOnSet(gc, Instances) = SumFunctionOnSet(g, Instances) + SumFunctionOnSet(c, Instances)
  BY <1>1, <1>2, SumPlus
<1>4. SumFunctionOnSet(fd, Instances) = SumFunctionOnSet(f, Instances) + SumFunctionOnSet(d, Instances)
  BY <1>1, <1>2, SumPlus
<1>5. SumFunctionOnSet(gc, Instances) <= SumFunctionOnSet(fd, Instances)
  BY <1>1, <1>2, SumMonotone
<1>6. /\ SumFunctionOnSet(g, Instances) \in Nat /\ SumFunctionOnSet(c, Instances) \in Nat
      /\ SumFunctionOnSet(f, Instances) \in Nat /\ SumFunctionOnSet(d, Instances) \in Nat
  BY <1>2, SumIsNat
<1> QED BY <1>3, <1>4, <1>5, <1>6

\* What the server does to its counters
Moves ==
  /\ ServerTypes'
  /\ \A i \in Instances :
       /\ generation[i] <= generation'[i] /\ counted[i] <= counted'[i]
       /\ generation'[i] = generation[i] =>
            counter[i] <= counter'[i] /\ counter'[i] - counter[i] <= counted'[i] - counted[i]
  /\ UNCHANGED <<seen, history, stored>>

LEMMA TrafficMoves ==
  ASSUME ServerTypes, NEW i \in Instances, Chart!Traffic(i) PROVE Moves
<1>1. counter' \in [Instances -> Nat] /\ counted' \in [Instances -> Nat]
  BY DEF ServerTypes, Chart!Traffic
<1>2. ServerTypes'
  BY <1>1 DEF ServerTypes, Chart!Traffic
<1>3. ASSUME NEW j \in Instances
      PROVE  /\ generation[j] <= generation'[j] /\ counted[j] <= counted'[j]
             /\ counter[j] <= counter'[j] /\ counter'[j] - counter[j] <= counted'[j] - counted[j]
  <2>1. counter[j] \in Nat /\ counted[j] \in Nat /\ generation[j] \in Nat
    BY DEF ServerTypes
  <2>2. generation'[j] = generation[j]
    BY DEF Chart!Traffic
  <2>3. \/ counter'[j] = counter[j] + 1 /\ counted'[j] = counted[j] + 1
        \/ counter'[j] = counter[j] /\ counted'[j] = counted[j]
    BY DEF ServerTypes, Chart!Traffic
  <2> QED BY <2>1, <2>2, <2>3
<1> QED BY <1>2, <1>3 DEF Moves, Chart!Traffic

LEMMA ReloadMoves ==
  ASSUME ServerTypes, NEW i \in Instances, Chart!Reload(i) PROVE Moves
<1>1. counter' \in [Instances -> Nat] /\ generation' \in [Instances -> Nat]
  BY DEF ServerTypes, Chart!Reload
<1>2. ServerTypes'
  BY <1>1 DEF ServerTypes, Chart!Reload
<1>3. ASSUME NEW j \in Instances
      PROVE  /\ generation[j] <= generation'[j] /\ counted[j] <= counted'[j]
             /\ generation'[j] = generation[j] =>
                  counter[j] <= counter'[j] /\ counter'[j] - counter[j] <= counted'[j] - counted[j]
  <2>1. counter[j] \in Nat /\ counted[j] \in Nat /\ generation[j] \in Nat
    BY DEF ServerTypes
  <2>2. counted'[j] = counted[j]
    BY DEF Chart!Reload
  <2>3. \/ generation'[j] = generation[j] + 1
        \/ generation'[j] = generation[j] /\ counter'[j] = counter[j]
    BY DEF ServerTypes, Chart!Reload
  <2> QED BY <2>1, <2>2, <2>3
<1> QED BY <1>2, <1>3 DEF Moves, Chart!Reload

LEMMA RestartMoves == ASSUME ServerTypes, Chart!ServiceRestarts PROVE Moves
BY DEF ServerTypes, Moves, Chart!ServiceRestarts

LEMMA TimeMoves == ASSUME Chart!HistoryAssumption, ServerTypes, Chart!Time PROVE Moves
<1>1. UNCHANGED <<service, generation, counter, counted, seen, history, stored>> /\ now' = now + 1
  BY DEF Chart!Time
<1>3. ServerTypes'
  BY <1>1 DEF ServerTypes, Chart!HistoryAssumption
<1> QED BY <1>1, <1>3 DEF ServerTypes, Moves

LEMMA RestMoves ==
  ASSUME ServerTypes, Moves, NEW b \in Baselines, Known(b)
  PROVE  /\ Known(b)'
         /\ Rest(b)' \in [Instances -> Nat]
         /\ \A i \in Instances : Rest(b)'[i] + counted[i] <= Rest(b)[i] + counted'[i]
<1>1. ASSUME NEW i \in Instances
      PROVE  /\ b[i].generation \in Int /\ b[i].bytes \in Nat
             /\ generation[i] \in Nat /\ generation'[i] \in Nat
             /\ counter[i] \in Nat /\ counter'[i] \in Nat
             /\ counted[i] \in Nat /\ counted'[i] \in Nat
  BY DEF ServerTypes, Moves, Baselines
<1>2. Known(b)'
  BY <1>1 DEF Known, Moves
<1> SUFFICES ASSUME NEW i \in Instances
             PROVE  /\ (IF b[i].generation = generation'[i]
                         THEN counter'[i] - b[i].bytes ELSE 0) \in Nat
                    /\ Rest(b)'[i] + counted[i] <= Rest(b)[i] + counted'[i]
  BY <1>2 DEF Rest
<1>3. /\ Rest(b)[i] = IF b[i].generation = generation[i] THEN counter[i] - b[i].bytes ELSE 0
      /\ Rest(b)'[i] = IF b[i].generation = generation'[i] THEN counter'[i] - b[i].bytes ELSE 0
  BY DEF Rest
<1>4. /\ b[i].generation <= generation[i] /\ generation[i] <= generation'[i]
      /\ b[i].generation = generation[i] => b[i].bytes <= counter[i]
      /\ counted[i] <= counted'[i]
      /\ generation'[i] = generation[i] =>
           counter[i] <= counter'[i] /\ counter'[i] - counter[i] <= counted'[i] - counted[i]
  BY DEF Known, Moves
<1>5. b[i].generation = generation'[i] => b[i].bytes <= counter'[i]
  BY <1>1, <1>4
<1> QED BY <1>1, <1>3, <1>4, <1>5

LEMMA ChartFinite == Chart!HistoryAssumption => IsFiniteSet(Instances)
BY DEF Chart!HistoryAssumption, Chart!IsFiniteSet, IsFiniteSet

LEMMA CoveredMoves ==
  ASSUME Chart!HistoryAssumption, ServerTypes, Moves, NEW h, Spans(h), Covered(h)
  PROVE  Covered(h)'
<1>1. h.baselines \in Baselines /\ Chart!Charted(h) \in Nat
  BY ChartedIs DEF Spans, ChartHistory
<1>2. /\ Known(h.baselines)' /\ Rest(h.baselines)' \in [Instances -> Nat]
      /\ \A i \in Instances : Rest(h.baselines)'[i] + counted[i] <= Rest(h.baselines)[i] + counted'[i]
  BY <1>1, RestMoves DEF Covered
<1>3. Rest(h.baselines) \in [Instances -> Nat]
  BY <1>1, RestTyped DEF Covered
<1>5. counted \in [Instances -> Nat] /\ counted' \in [Instances -> Nat] /\ IsFiniteSet(Instances)
  BY ChartFinite DEF ServerTypes, Moves
<1>6. Chart!Charted(h) + SumFunctionOnSet(Rest(h.baselines), Instances)
        <= SumFunctionOnSet(counted, Instances)
  BY DEF Covered, Carried
<1> DEFINE x == Chart!Charted(h)
           f == Rest(h.baselines)
           g == Rest(h.baselines)'
<1> HIDE DEF x, f, g
<1>7. x + SumFunctionOnSet(g, Instances) <= SumFunctionOnSet(counted', Instances)
  BY <1>1, <1>2, <1>3, <1>5, <1>6, BudgetKept DEF x, f, g
<1> QED BY <1>2, <1>7 DEF Covered, Carried, x, g

LEMMA ComingMoves ==
  ASSUME Chart!HistoryAssumption, ServerTypes, Moves, NEW h, Spans(h),
         NEW s \in Snapshot, Coming(h, s)
  PROVE  Coming(h, s)'
<1> DEFINE b == h.baselines
           c == s.instances
           x == Chart!Charted(h)
<1>1. b \in Baselines /\ c \in Baselines /\ x \in Nat
  BY ChartedIs DEF Spans, ChartHistory, Snapshot
<1>2. /\ Known(c)' /\ Rest(c)' \in [Instances -> Nat]
      /\ \A i \in Instances : Rest(c)'[i] + counted[i] <= Rest(c)[i] + counted'[i]
  BY <1>1, RestMoves DEF Coming
<1>3. Rest(c) \in [Instances -> Nat] /\ Gain(b, c) \in [Instances -> Nat]
  BY <1>1, RestTyped, GainTyped DEF Coming
<1>4. Gain(b, c)' = Gain(b, c)
  BY DEF Gain
<1>5. /\ Due(b, c) = [i \in Instances |-> Gain(b, c)[i] + Rest(c)[i]]
      /\ Due(b, c)' = [i \in Instances |-> Gain(b, c)[i] + Rest(c)'[i]]
  BY <1>4 DEF Due
<1>6. counted \in [Instances -> Nat] /\ counted' \in [Instances -> Nat] /\ IsFiniteSet(Instances)
  BY ChartFinite DEF ServerTypes, Moves
<1>7. x + SumFunctionOnSet(Due(b, c), Instances) <= SumFunctionOnSet(counted, Instances)
  BY DEF Coming, Carried
<1> DEFINE f == Due(b, c)
           g == Due(b, c)'
           e == Gain(b, c)
           r == Rest(c)
           q == Rest(c)'
<1> HIDE DEF b, c, x, f, g, e, r, q
<1>8. f \in [Instances -> Nat] /\ g \in [Instances -> Nat]
  BY <1>2, <1>3, <1>5 DEF f, g, e, r, q
<1>9. \A i \in Instances : g[i] + counted[i] <= f[i] + counted'[i]
  <2> SUFFICES ASSUME NEW i \in Instances PROVE g[i] + counted[i] <= f[i] + counted'[i]
    OBVIOUS
  <2>1. q[i] + counted[i] <= r[i] + counted'[i]
    BY <1>2 DEF q, r
  <2>2. e[i] \in Nat /\ r[i] \in Nat /\ q[i] \in Nat /\ counted[i] \in Nat /\ counted'[i] \in Nat
    BY <1>2, <1>3, <1>6 DEF e, r, q
  <2>3. f[i] = e[i] + r[i] /\ g[i] = e[i] + q[i]
    BY <1>5 DEF e, r, q, f, g
  <2> QED BY <2>1, <2>2, <2>3
<1>10. x + SumFunctionOnSet(g, Instances) <= SumFunctionOnSet(counted', Instances)
  BY <1>1, <1>6, <1>7, <1>8, <1>9, BudgetKept DEF f
<1> QED BY <1>2, <1>10 DEF Coming, Carried, x, g, b, c

\* A step of the server keeps what holds of each history and of what is on its way to it.
LEMMA ServerKeeps ==
  ASSUME Chart!HistoryAssumption, ChartInv, Moves
  PROVE  ChartInv'
<1>1. UNCHANGED <<seen, history, stored>> /\ ServerTypes' /\ ServerTypes
  BY DEF Moves, ChartInv
<1>2. \A k : Spans(k) /\ Covered(k) => Covered(k)'
  BY <1>1, CoveredMoves
<1>3. \A k : \A s \in Snapshot : Spans(k) /\ Coming(k, s) => Coming(k, s)'
  BY <1>1, ComingMoves
<1>4. (Spans(stored) /\ Covered(stored))'
  <2>1. Spans(stored) /\ Covered(stored)
    BY DEF ChartInv
  <2> QED BY <1>1, <1>2, <2>1 DEF Spans, Covered, Known, Rest, Carried, Chart!Charted
<1>5. ASSUME NEW t \in OpenTabs
      PROVE  /\ (Spans(history[t]) /\ Covered(history[t]))'
             /\ (seen[t] # Chart!NoSnapshot => Coming(history[t], seen[t]))'
  <2>1. Spans(history[t]) /\ Covered(history[t]) /\ seen[t] \in Snapshot
        /\ (seen[t] # Chart!NoSnapshot => Coming(history[t], seen[t]))
    BY DEF ChartInv
  <2>2. (Spans(history[t]) /\ Covered(history[t]))'
    BY <1>1, <1>2, <2>1 DEF Spans, Covered, Known, Rest, Carried, Chart!Charted
  <2>3. (seen[t] # Chart!NoSnapshot => Coming(history[t], seen[t]))'
    BY <1>1, <1>3, <2>1 DEF Chart!NoSnapshot
  <2> QED BY <2>2, <2>3
<1>6. (history \in [OpenTabs -> ChartHistory] /\ seen \in [OpenTabs -> Snapshot])'
  BY <1>1 DEF ChartInv
<1> QED BY <1>1, <1>4, <1>5, <1>6 DEF ChartInv

LEMMA EmptyCovered ==
  ASSUME Chart!HistoryAssumption, ServerTypes
  PROVE  /\ Spans(Chart!EmptyHistory) /\ Covered(Chart!EmptyHistory)
         /\ Chart!NoSnapshot \in Snapshot /\ Chart!Charted(Chart!EmptyHistory) = 0
<1> DEFINE e == Chart!EmptyHistory
<1>1. e.points = {} /\ e.baselines = [i \in Instances |-> Chart!NoBaseline]
      /\ e.service = -1 /\ e.at = 0
  BY DEF Chart!EmptyHistory
<1>2. e.baselines \in Baselines /\ Chart!NoSnapshot \in Snapshot
  BY <1>1 DEF Baselines, Snapshot, Chart!NoBaseline, Chart!NoSnapshot
<1>3. e \in ChartHistory
  BY <1>2 DEF ChartHistory, Chart!EmptyHistory
<1>4. Spans(e)
  BY <1>1, <1>3, FS_EmptySet DEF Spans
<1>5. Chart!Charted(e) = 0
  BY <1>1, ChartSum, SumEmpty DEF Chart!Charted
<1>6. IsFiniteSet(Instances) /\ \A i \in Instances : generation[i] \in Nat /\ counted[i] \in Nat
  BY ChartFinite DEF ServerTypes
<1>7. Known(e.baselines) /\ \A i \in Instances : Rest(e.baselines)[i] = 0
  BY <1>1, <1>6 DEF Known, Rest, Chart!NoBaseline
<1>8. SumFunctionOnSet(Rest(e.baselines), Instances) = 0 /\ Carried \in Nat
  BY <1>6, <1>7, SumZero, SumIsNat DEF Carried
<1> HIDE DEF e
<1>9. Covered(e)
  BY <1>5, <1>7, <1>8 DEF Covered
<1> QED BY <1>2, <1>4, <1>5, <1>9 DEF e

LEMMA ChartStarts == Chart!HistoryAssumption /\ Chart!Init => ChartInv
<1> SUFFICES ASSUME Chart!HistoryAssumption, Chart!Init PROVE ChartInv
  OBVIOUS
<1>1. ServerTypes
  BY DEF Chart!Init, ServerTypes, Chart!HistoryAssumption
<1>2. /\ history = [t \in OpenTabs |-> Chart!EmptyHistory] /\ stored = Chart!EmptyHistory
      /\ seen = [t \in OpenTabs |-> Chart!NoSnapshot]
  BY DEF Chart!Init
<1>3. Chart!EmptyHistory \in ChartHistory
  BY <1>1, EmptyCovered DEF Spans
<1> QED BY <1>1, <1>2, <1>3, EmptyCovered DEF ChartInv

\* What the tabs do does not touch the server.
LEMMA ServerSame ==
  ASSUME UNCHANGED Chart!serverVars
  PROVE  /\ ServerTypes => ServerTypes'
         /\ \A h : Covered(h) => Covered(h)'
         /\ \A h, s : Coming(h, s) => Coming(h, s)'
BY DEF Chart!serverVars, ServerTypes, Covered, Coming, Known, Rest, Due, Gain, Carried, Chart!Charted

\* A snapshot of this moment has all that is to come.
LEMMA PushKeeps ==
  ASSUME Chart!HistoryAssumption, ChartInv, NEW t \in OpenTabs, NEW at \in now - MaxBack .. now,
         Chart!Push(t, at)
  PROVE  ChartInv'
<1> DEFINE c == [i \in Instances |-> [generation |-> generation[i], bytes |-> counter[i]]]
           s == [at |-> at, service |-> service, instances |-> c]
<1>1. seen' = [seen EXCEPT ![t] = s] /\ UNCHANGED <<Chart!serverVars, history, stored>>
  BY DEF Chart!Push
<1>2. ServerTypes /\ ServerTypes'
  BY <1>1, ServerSame DEF ChartInv
<1>3. \A i \in Instances : /\ c[i].generation = generation[i] /\ c[i].bytes = counter[i]
                           /\ generation[i] \in Nat /\ counter[i] \in Nat
  BY <1>2 DEF ServerTypes
<1>4. c \in Baselines
  <2>1. \A i \in Instances : generation[i] \in Int /\ counter[i] \in Nat
    BY <1>2 DEF ServerTypes
  <2> QED BY <2>1 DEF Baselines
<1> HIDE DEF c
<1>11. Known(c)
  BY <1>3 DEF Known
<1>5. \A i \in Instances : Rest(c)[i] = 0
  BY <1>3 DEF Rest
<1>6. s \in Snapshot /\ s.service \in Nat /\ s.at >= Window + 1 /\ s.instances = c
  BY <1>2, <1>4 DEF Snapshot, ServerTypes, Chart!HistoryAssumption
<1> HIDE DEF s
<1>7. Coming(history[t], s)
  <2> DEFINE h == history[t]
             b == h.baselines
  <2>1. Spans(h) /\ Covered(h) /\ b \in Baselines
    BY DEF ChartInv, Spans, ChartHistory
  <2>2. ASSUME NEW i \in Instances PROVE Due(b, c)[i] = Rest(b)[i]
    <3>1. b[i].generation \in Int /\ b[i].bytes \in Nat
      BY <2>1 DEF Baselines
    <3>2. b[i].generation = generation[i] => b[i].bytes <= counter[i]
      BY <2>1 DEF Covered, Known
    <3>3. Due(b, c)[i] = Gain(b, c)[i] + 0
      BY <1>5 DEF Due
    <3>4. Gain(b, c)[i] = IF b[i].generation = generation[i] /\ counter[i] >= b[i].bytes
                          THEN counter[i] - b[i].bytes ELSE 0
      BY <1>3 DEF Gain
    <3>5. Rest(b)[i] = IF b[i].generation = generation[i] THEN counter[i] - b[i].bytes ELSE 0
      BY DEF Rest
    <3> QED BY <1>3, <3>1, <3>2, <3>3, <3>4, <3>5
  <2>3. IsFiniteSet(Instances)
    BY ChartFinite
  <2>4. SumFunctionOnSet(Due(b, c), Instances) = SumFunctionOnSet(Rest(b), Instances)
    BY <2>2, <2>3, SumAgrees
  <2> QED BY <1>6, <1>11, <2>1, <2>4 DEF Coming, Covered
<1>8. (Spans(stored) /\ Covered(stored))'
  BY <1>1, ServerSame DEF ChartInv, Spans
<1>9. ASSUME NEW u \in OpenTabs
      PROVE  /\ (Spans(history[u]) /\ Covered(history[u]))'
             /\ (seen[u] # Chart!NoSnapshot => Coming(history[u], seen[u]))'
  <2>1. (Spans(history[u]) /\ Covered(history[u]))'
    BY <1>1, ServerSame DEF ChartInv, Spans
  <2>2. (seen[u] # Chart!NoSnapshot => Coming(history[u], seen[u]))'
    BY <1>1, <1>7, ServerSame DEF ChartInv, Chart!NoSnapshot
  <2> QED BY <2>1, <2>2
<1>10. (history \in [OpenTabs -> ChartHistory] /\ seen \in [OpenTabs -> Snapshot])'
  BY <1>1, <1>6 DEF ChartInv
<1> QED BY <1>2, <1>8, <1>9, <1>10 DEF ChartInv

\* A tab that has no snapshot on its way may take over any history that is covered.
LEMMA TabKeeps ==
  ASSUME ChartInv, UNCHANGED Chart!serverVars, NEW t \in OpenTabs, NEW h, Spans(h), Covered(h),
         history' = [history EXCEPT ![t] = h], seen' = [seen EXCEPT ![t] = Chart!NoSnapshot],
         Chart!NoSnapshot \in Snapshot,
         stored' \in {stored, h}
  PROVE  ChartInv'
<1>1. ServerTypes' /\ (history \in [OpenTabs -> ChartHistory] /\ seen \in [OpenTabs -> Snapshot])'
  BY ServerSame DEF ChartInv, Spans
<1>2. (Spans(stored) /\ Covered(stored))'
  <2>1. Spans(stored') /\ Covered(stored)'
    <3>1. CASE stored' = h
      BY <3>1, ServerSame DEF Covered
    <3>2. CASE stored' = stored
      BY <3>2, ServerSame DEF ChartInv, Covered
    <3> QED BY <3>1, <3>2
  <2> QED BY <2>1 DEF Spans
<1>3. ASSUME NEW u \in OpenTabs
      PROVE  /\ (Spans(history[u]) /\ Covered(history[u]))'
             /\ (seen[u] # Chart!NoSnapshot => Coming(history[u], seen[u]))'
  BY ServerSame DEF ChartInv
<1> QED BY <1>1, <1>2, <1>3 DEF ChartInv

\* What sample adds a snapshot to
LEMMA RecentIs ==
  ASSUME Chart!HistoryAssumption, ServerTypes, NEW h, Spans(h), Covered(h),
         NEW s \in Snapshot, Coming(h, s), NEW r, r = Chart!Recent(h, s)
  PROVE  /\ r \in ChartHistory /\ r.service = s.service
         /\ \/ /\ r.at = h.at /\ r.baselines = h.baselines
               /\ r.points \subseteq h.points
               /\ \A p \in r.points : p.at \in s.at - Window .. s.at
            \/ /\ r.at = 0 /\ r.points = {}
<1> DEFINE P(q) == {p \in q : p.at >= s.at - Window /\ p.at <= s.at}
<1>1. CASE h.service \notin {-1, s.service}
  <2>1. r = [Chart!EmptyHistory EXCEPT !.service = s.service, !.points = P(Chart!EmptyHistory.points)]
    BY <1>1 DEF Chart!Recent
  <2>2. Chart!EmptyHistory.points = {} /\ Chart!EmptyHistory.at = 0
    BY DEF Chart!EmptyHistory
  <2>3. Chart!EmptyHistory \in ChartHistory
    BY EmptyCovered DEF Spans
  <2>4. P(Chart!EmptyHistory.points) = {}
    BY <2>2
  <2> HIDE DEF P
  <2> QED BY <2>1, <2>2, <2>3, <2>4 DEF ChartHistory, Snapshot
<1>2. CASE h.service \in {-1, s.service}
  <2>1. r = [h EXCEPT !.service = s.service, !.points = P(h.points)]
    BY <1>2 DEF Chart!Recent
  <2>2. h \in ChartHistory /\ P(h.points) \subseteq h.points
        /\ \A p \in P(h.points) : p \in Point /\ p.at >= s.at - Window /\ p.at <= s.at
    BY DEF Spans, ChartHistory
  <2>3. \A p \in P(h.points) : p.at \in s.at - Window .. s.at
    BY <2>2 DEF Snapshot, Point, Chart!HistoryAssumption
  <2> HIDE DEF P
  <2> QED BY <2>1, <2>2, <2>3 DEF ChartHistory, Snapshot
<1> QED BY <1>1, <1>2

\* The bytes of a new point are those the snapshot gained on the baselines.
LEMMA SinceIs ==
  ASSUME Chart!HistoryAssumption, NEW r, r.baselines \in Baselines, NEW s \in Snapshot
  PROVE  Chart!Since(r, s) = SumFunctionOnSet(Gain(r.baselines, s.instances), Instances)
<1> DEFINE b == r.baselines
           c == s.instances
           M == Chart!Matched(r, s)
           f == [i \in Instances |-> c[i].bytes - b[i].bytes]
           g == Gain(b, c)
<1>1. M = {i \in Instances : b[i].generation = c[i].generation /\ c[i].bytes >= b[i].bytes}
  BY DEF Chart!Matched
<1>2. M \in SUBSET Instances /\ IsFiniteSet(Instances) /\ IsFiniteSet(M) /\ IsFiniteSet(Instances \ M)
  <2>1. M \in SUBSET Instances
    BY <1>1
  <2>2. IsFiniteSet(Instances)
    BY ChartFinite
  <2> HIDE DEF M
  <2> QED BY <2>1, <2>2, FS_Subset
<1>3. Chart!Since(r, s) = SumFunctionOnSet(f, M)
  BY ChartSum DEF Chart!Since
<1>4. c \in Baselines
  BY DEF Snapshot
<1>5. g \in [Instances -> Nat]
  BY <1>4, GainTyped
<1>6. (\A i \in M : f[i] = g[i]) /\ (\A i \in Instances \ M : g[i] = 0)
  BY <1>1 DEF Gain
<1> HIDE DEF b, c, M, f, g
<1>7. SumFunctionOnSet(f, M) = SumFunctionOnSet(g, M)
  BY <1>2, <1>6, SumAgrees
<1>8. SumFunctionOnSet(g, Instances \ M) = 0
  BY <1>2, <1>6, SumZero
<1>9. \A i \in Instances : g[i] \in Nat
  BY <1>5
<1>10. SumFunctionOnSet(g, Instances) = SumFunctionOnSet(g, M) + SumFunctionOnSet(g, Instances \ M)
  BY <1>2, <1>9, SumSplit
<1>11. \A i \in M : g[i] \in Nat
  BY <1>2, <1>9
<1>12. SumFunctionOnSet(g, M) \in Nat
  BY <1>2, <1>11, SumIsNat
<1> QED BY <1>3, <1>7, <1>8, <1>10, <1>12 DEF b, c, g

\* The snapshot as a sample: what was due is what it gained and what is still to come.
LEMMA DueIs ==
  ASSUME Chart!HistoryAssumption, ServerTypes, NEW b \in Baselines, NEW c \in Baselines, Known(c)
  PROVE  /\ SumFunctionOnSet(Due(b, c), Instances)
              = SumFunctionOnSet(Gain(b, c), Instances) + SumFunctionOnSet(Rest(c), Instances)
         /\ SumFunctionOnSet(Gain(b, c), Instances) \in Nat
         /\ SumFunctionOnSet(Rest(c), Instances) \in Nat
<1>1. IsFiniteSet(Instances)
  BY ChartFinite
<1>2. \A i \in Instances : Gain(b, c)[i] \in Nat /\ Rest(c)[i] \in Nat
  BY RestTyped, GainTyped
<1>3. \A i \in Instances : Due(b, c)[i] = Gain(b, c)[i] + Rest(c)[i]
  BY DEF Due
<1> QED BY <1>1, <1>2, <1>3, SumPlus, SumIsNat

\* A history with the points it had, or fewer, and no later time spans as well.
LEMMA SpansLess ==
  ASSUME NEW h, Spans(h), NEW k \in ChartHistory, k.points \subseteq h.points,
         \A p \in k.points : p.at \in k.at - Window .. k.at
  PROVE  Spans(k)
<1>1. IsFiniteSet(k.points)
  BY FS_Subset DEF Spans
<1> QED BY <1>1 DEF Spans

\* A point is added: the bytes since the last sample, up to this one.
LEMMA SpansMore ==
  ASSUME NEW h, Spans(h), NEW k \in ChartHistory, NEW P, P \subseteq h.points,
         \A p \in P : p.at \in k.at - Window .. k.at,
         NEW n \in Point, n.at = k.at, n.since = h.at, n.at - n.since \in Apart..Window,
         Apart \in Nat \ {0}, Window \in Nat, k.points = P \cup {n}
  PROVE  Spans(k) /\ Chart!Charted(k) <= n.bytes + Chart!Charted(h)
<1>1. IsFiniteSet(P) /\ IsFiniteSet(P \cup {n})
  BY FS_Subset, FS_AddElement DEF Spans
<1>2. h.at \in Int /\ k.at \in Int /\ P \subseteq Point
  BY DEF Spans, ChartHistory
<1>3. \A p \in P : p.at \in Int /\ p.since \in Int /\ p.at <= h.at /\ p.at - p.since \in Apart..Window
  BY <1>2 DEF Spans, Point
<1>4. n.at \in Int /\ n.since \in Int /\ n.at > h.at
  BY <1>2 DEF Point
<1>5. \A p \in P : p # n
  BY <1>3, <1>4
<1>6. \A p \in k.points : p.at - p.since \in Apart..Window /\ p.at \in k.at - Window .. k.at
  <2>1. n.at \in k.at - Window .. k.at
    BY <1>2
  <2> QED BY <1>3, <2>1
<1>7. \A p, q \in k.points : p # q => p.at <= q.since \/ q.at <= p.since
  BY <1>3, <1>4 DEF Spans
<1>8. Spans(k)
  BY <1>1, <1>6, <1>7 DEF Spans
<1> DEFINE f == [p \in h.points \cup {n} |-> p.bytes]
<1>9. \A p \in h.points \cup {n} : f[p] \in Nat
  BY DEF Spans, ChartHistory, Point
<1>10. f[n] = n.bytes
  OBVIOUS
<1>11. /\ Chart!Charted(k) = SumFunctionOnSet(f, k.points)
       /\ Chart!Charted(h) = SumFunctionOnSet(f, h.points)
  BY <1>8, ChartedIs
<1> HIDE DEF f
<1>12. SumFunctionOnSet(f, P \cup {n}) = f[n] + SumFunctionOnSet(f, P)
  BY <1>1, <1>5, <1>9, SumAdd
<1>13. SumFunctionOnSet(f, P) <= SumFunctionOnSet(f, h.points)
  BY <1>9, SumPart DEF Spans
<1>14. SumFunctionOnSet(f, P) \in Nat /\ SumFunctionOnSet(f, h.points) \in Nat /\ n.bytes \in Nat
  BY <1>1, <1>9, SumIsNat DEF Spans, Point
<1> QED BY <1>8, <1>10, <1>11, <1>12, <1>13, <1>14

\* A sample charts no more than the snapshot gained on the baselines it replaces.
LEMMA SampleKeeps ==
  ASSUME Chart!HistoryAssumption, ServerTypes, NEW h, Spans(h), Covered(h),
         NEW s \in Snapshot, Coming(h, s), NEW k, k = Chart!Sample(h, s)
  PROVE  Spans(k) /\ Covered(k)
<1> DEFINE r == Chart!Recent(h, s)
           b == h.baselines
           c == s.instances
           new == [at |-> s.at, since |-> r.at, bytes |-> Chart!Since(r, s)]
           charted == Chart!Matched(r, s) # {} /\ s.at - r.at >= Apart /\ s.at - r.at <= Window
           all == IF charted THEN r.points \cup {new} ELSE r.points
           early == s.at - r.at > 0 /\ s.at - r.at < Apart
           after == [service |-> s.service, at |-> s.at, baselines |-> s.instances,
                     points |-> all]
<1>1. /\ r \in ChartHistory
      /\ \/ /\ r.at = h.at /\ r.baselines = b
            /\ r.points \subseteq h.points
            /\ \A p \in r.points : p.at \in s.at - Window .. s.at
         \/ /\ r.at = 0 /\ r.points = {}
  BY RecentIs
<1>2. k = IF early THEN r
          ELSE [service |-> s.service, at |-> s.at, baselines |-> c, points |-> Chart!Last(all)]
  BY DEF Chart!Sample
<1>3. Chart!Last(all) \subseteq all
  BY DEF Chart!Last
<1>4. /\ Apart \in Nat \ {0} /\ Window \in Nat /\ Apart <= Window
      /\ s.at \in Int /\ s.at >= Window + 1 /\ r.at \in Int
      /\ b \in Baselines /\ c \in Baselines /\ Known(c) /\ Known(b)
      /\ s.service \in Int
  BY <1>1 DEF Coming, Covered, Snapshot, Spans, ChartHistory, Chart!HistoryAssumption
<1>5. r.at = 0 => ~early /\ ~charted
  BY <1>4
<1>6. new.at = s.at /\ new.since = r.at /\ new.bytes = Chart!Since(r, s)
  OBVIOUS
<1>7. charted => new \in Point /\ new.bytes = SumFunctionOnSet(Gain(b, c), Instances)
  <2> SUFFICES ASSUME charted PROVE new \in Point
                                    /\ new.bytes = SumFunctionOnSet(Gain(b, c), Instances)
    OBVIOUS
  <2>1. r.baselines = b /\ r.baselines \in Baselines
    BY <1>1, <1>5 DEF ChartHistory
  <2>2. Chart!Since(r, s) = SumFunctionOnSet(Gain(b, c), Instances)
    BY <2>1, SinceIs
  <2>3. SumFunctionOnSet(Gain(b, c), Instances) \in Nat
    BY <1>4, DueIs
  <2> QED BY <1>4, <1>6, <2>2, <2>3 DEF Point
<1>8. after.service = s.service /\ after.at = s.at /\ after.baselines = c /\ after.points = all
  OBVIOUS
<1>9. /\ SumFunctionOnSet(Gain(b, c), Instances) \in Nat
      /\ SumFunctionOnSet(Rest(c), Instances) \in Nat /\ Chart!Charted(h) \in Nat
      /\ Chart!Charted(h) + (SumFunctionOnSet(Gain(b, c), Instances)
                             + SumFunctionOnSet(Rest(c), Instances)) <= Carried
      /\ Carried \in Int
  <2>1. Carried \in Int
    <3>1. IsFiniteSet(Instances) /\ \A i \in Instances : counted[i] \in Nat
      BY ChartFinite DEF ServerTypes
    <3> QED BY <3>1, SumIsNat DEF Carried
  <2>2. Chart!Charted(h) + SumFunctionOnSet(Due(b, c), Instances) <= Carried
    BY DEF Coming
  <2> QED BY <1>4, <2>1, <2>2, DueIs, ChartedIs
<1> HIDE DEF new, all, early, charted
<1>10. CASE early
  <2>1. k = r /\ r.at = h.at /\ r.baselines = b /\ r.points \subseteq h.points
    BY <1>1, <1>2, <1>5, <1>10
  <2>2. \A p \in r.points : p.at \in r.at - Window .. r.at
    BY <2>1 DEF Spans
  <2> HIDE DEF r, b, c
  <2>3. Spans(r)
    BY <1>1, <2>1, <2>2, SpansLess
  <2>4. Chart!Charted(r) <= Chart!Charted(h) /\ Chart!Charted(r) \in Nat /\ Chart!Charted(h) \in Nat
    BY <2>1, <2>3, FewerPoints, ChartedIs
  <2>5. SumFunctionOnSet(Rest(b), Instances) \in Nat /\ IsFiniteSet(Instances) /\ Carried \in Int
    <3>1. IsFiniteSet(Instances)
      BY ChartFinite
    <3>2. \A i \in Instances : Rest(b)[i] \in Nat
      BY <1>4, RestTyped
    <3> QED BY <1>9, <3>1, <3>2, SumIsNat
  <2>6. Known(b) /\ Chart!Charted(h) + SumFunctionOnSet(Rest(b), Instances) <= Carried
    BY DEF Covered, b
  <2>7. Covered(r)
    <3>1. Chart!Charted(r) + SumFunctionOnSet(Rest(b), Instances) <= Carried
      BY <2>4, <2>5, <2>6
    <3> QED BY <2>1, <2>6, <3>1 DEF Covered
  <2> QED BY <2>1, <2>3, <2>7
<1>11. CASE ~early
  <2>1. k = [service |-> s.service, at |-> s.at, baselines |-> c, points |-> Chart!Last(all)]
    BY <1>2, <1>11
  <2>2. k.at = s.at /\ k.baselines = c /\ k.points = Chart!Last(all) /\ k.service = s.service
    BY <2>1
  <2>3. all \subseteq Point
    <3>1. r.points \subseteq Point
      BY <1>1 DEF ChartHistory
    <3> QED BY <1>7, <3>1 DEF all
  <2>4. after \in ChartHistory /\ k \in ChartHistory
    BY <1>3, <1>4, <2>1, <2>3 DEF ChartHistory
  <2> HIDE DEF after, r, b, c
  <2>5. Spans(after) /\ Chart!Charted(after)
                          <= Chart!Charted(h) + SumFunctionOnSet(Gain(b, c), Instances)
    <3>1. CASE charted
      <4>1. all = r.points \cup {new} /\ r.at = h.at /\ r.points \subseteq h.points
            /\ \A p \in r.points : p.at \in after.at - Window .. after.at
        BY <1>1, <1>5, <1>8, <3>1 DEF all
      <4>2. new.at - new.since \in Apart..Window
        BY <1>4, <1>6, <3>1 DEF charted
      <4>3. Spans(after) /\ Chart!Charted(after) <= new.bytes + Chart!Charted(h)
        BY <1>4, <1>6, <1>7, <1>8, <2>4, <3>1, <4>1, <4>2, SpansMore
      <4>4. Chart!Charted(after) \in Nat
        BY <4>3, ChartedIs
      <4> QED BY <1>7, <1>9, <3>1, <4>3, <4>4
    <3>2. CASE ~charted
      <4>1. after.points \subseteq h.points /\ \A p \in after.points : p.at \in after.at - Window .. after.at
        BY <1>1, <1>8, <3>2 DEF all
      <4>2. Spans(after)
        BY <2>4, <4>1, SpansLess
      <4>3. Chart!Charted(after) <= Chart!Charted(h) /\ Chart!Charted(after) \in Nat
        BY <4>1, <4>2, FewerPoints, ChartedIs
      <4> QED BY <1>9, <4>2, <4>3
    <3> QED BY <3>1, <3>2
  <2>6. k.points \subseteq after.points /\ k.at = after.at
    BY <1>3, <1>8, <2>2
  <2>7. Spans(k)
    <3>1. \A p \in k.points : p.at \in k.at - Window .. k.at
      BY <2>5, <2>6 DEF Spans
    <3> QED BY <2>4, <2>5, <2>6, <3>1, SpansLess
  <2>8. Chart!Charted(k) <= Chart!Charted(after) /\ Chart!Charted(k) \in Nat
        /\ Chart!Charted(after) \in Nat
    BY <2>5, <2>6, <2>7, FewerPoints, ChartedIs
  <2>9. Chart!Charted(k) + SumFunctionOnSet(Rest(c), Instances) <= Carried
    BY <1>9, <2>5, <2>8
  <2> QED BY <1>4, <2>2, <2>7, <2>9 DEF Covered
<1> QED BY <1>10, <1>11

LEMMA MessageKeeps ==
  ASSUME Chart!HistoryAssumption, ChartInv, NEW t \in OpenTabs, NEW save \in BOOLEAN,
         Chart!Message(t, save)
  PROVE  ChartInv'
<1> DEFINE k == Chart!Sample(history[t], seen[t])
<1>1. /\ seen[t] # Chart!NoSnapshot /\ UNCHANGED Chart!serverVars
      /\ seen' = [seen EXCEPT ![t] = Chart!NoSnapshot]
      /\ history' = [history EXCEPT ![t] = k]
      /\ stored' = IF save THEN history'[t] ELSE stored
  BY DEF Chart!Message
<1> HIDE DEF k
<1>2. history'[t] = k
  BY <1>1 DEF ChartInv
<1>3. Spans(k) /\ Covered(k)
  <2>1. /\ ServerTypes /\ Spans(history[t]) /\ Covered(history[t]) /\ seen[t] \in Snapshot
        /\ Coming(history[t], seen[t])
    BY <1>1 DEF ChartInv
  <2> QED BY <2>1, SampleKeeps DEF k
<1>4. Chart!NoSnapshot \in Snapshot /\ stored' \in {stored, k}
  BY <1>1, <1>2, EmptyCovered DEF ChartInv
<1> QED BY <1>1, <1>3, <1>4, TabKeeps

LEMMA ReopenKeeps ==
  ASSUME Chart!HistoryAssumption, ChartInv, NEW t \in OpenTabs, Chart!Reopen(t)
  PROVE  ChartInv'
<1>1. /\ stored' = history[t] /\ UNCHANGED Chart!serverVars
      /\ seen' = [seen EXCEPT ![t] = Chart!NoSnapshot]
      /\ history' = [history EXCEPT ![t] = history[t]]
  BY DEF Chart!Reopen
<1>2. Spans(history[t]) /\ Covered(history[t]) /\ Chart!NoSnapshot \in Snapshot
  BY EmptyCovered DEF ChartInv
<1>3. stored' \in {stored, history[t]}
  BY <1>1
<1> QED BY <1>1, <1>2, <1>3, TabKeeps

LEMMA CrashKeeps ==
  ASSUME Chart!HistoryAssumption, ChartInv, NEW t \in OpenTabs, Chart!Crash(t)
  PROVE  ChartInv'
<1>1. /\ stored' = stored /\ UNCHANGED Chart!serverVars
      /\ seen' = [seen EXCEPT ![t] = Chart!NoSnapshot]
      /\ history' = [history EXCEPT ![t] = stored]
  BY DEF Chart!Crash
<1>2. Spans(stored) /\ Covered(stored) /\ Chart!NoSnapshot \in Snapshot
  BY EmptyCovered DEF ChartInv
<1> QED BY <1>1, <1>2, TabKeeps

LEMMA ChartStep ==
  Chart!HistoryAssumption /\ ChartInv /\ [Chart!Next]_historyVars => ChartInv'
<1> SUFFICES ASSUME Chart!HistoryAssumption, ChartInv, [Chart!Next]_historyVars PROVE ChartInv'
  OBVIOUS
<1>1. ServerTypes
  BY DEF ChartInv
<1>2. CASE UNCHANGED historyVars
  <2>1. Moves
    BY <1>1, <1>2 DEF historyVars, Moves, ServerTypes
  <2> QED BY <2>1, ServerKeeps
<1>3. CASE Chart!Time \/ Chart!ServiceRestarts
           \/ \E i \in Instances : Chart!Traffic(i) \/ Chart!Reload(i)
  <2>1. Moves
    BY <1>1, <1>3, TimeMoves, RestartMoves, TrafficMoves, ReloadMoves
  <2> QED BY <2>1, ServerKeeps
<1>4. CASE \E t \in OpenTabs :
             \/ Chart!Reopen(t) \/ Chart!Crash(t)
             \/ \E at \in now - MaxBack .. now : Chart!Push(t, at)
             \/ \E save \in BOOLEAN : Chart!Message(t, save)
  BY <1>4, ReopenKeeps, CrashKeeps, PushKeeps, MessageKeeps
<1> QED BY <1>2, <1>3, <1>4 DEF Chart!Next

LEMMA ChartIsOnce == Chart!HistoryAssumption /\ ChartInv => Chart!ChartedOnce
<1> SUFFICES ASSUME Chart!HistoryAssumption, ChartInv, NEW h \in Chart!Histories
             PROVE  /\ Chart!Charted(h) <= Chart!SumFunctionOnSet(counted, Instances)
                    /\ \A p \in h.points : /\ p.at - p.since \in Apart..Window
                                           /\ p.at \in h.at - Window .. h.at
                    /\ \A p, q \in h.points : p # q => p.at <= q.since \/ q.at <= p.since
  BY DEF Chart!ChartedOnce
<1>1. Spans(h) /\ Covered(h) /\ ServerTypes
  BY DEF Chart!Histories, ChartInv
<1>2. IsFiniteSet(Instances) /\ h.baselines \in Baselines /\ Known(h.baselines)
  BY <1>1, ChartFinite DEF Spans, ChartHistory, Covered
<1>3. \A i \in Instances : Rest(h.baselines)[i] \in Nat /\ counted[i] \in Nat
  BY <1>1, <1>2, RestTyped DEF ServerTypes
<1>4. SumFunctionOnSet(Rest(h.baselines), Instances) \in Nat
      /\ SumFunctionOnSet(counted, Instances) \in Nat
  BY <1>2, <1>3, SumIsNat
<1>5. Chart!Charted(h) \in Nat
  BY <1>1, ChartedIs
<1>6. Chart!Charted(h) + SumFunctionOnSet(Rest(h.baselines), Instances)
        <= SumFunctionOnSet(counted, Instances)
  BY <1>1 DEF Covered, Carried
<1>7. Chart!Charted(h) <= Chart!SumFunctionOnSet(counted, Instances)
  BY <1>4, <1>5, <1>6, ChartSum
<1> QED BY <1>1, <1>7 DEF Spans

\* However the tabs of a browser save and load, the clock is set back, and servers reload or
\* restart: each history charts a byte that was carried at most once (useOverview.ts:46-108).
THEOREM PagesChartedOnce == ASSUME PagesAssumption PROVE PagesSpec => []ChartedOnce
<1>1. PagesInit => (subject = "history" => ChartInv)
  BY ChartStarts DEF PagesAssumption, PagesInit
<1>2. (subject = "history" => ChartInv) /\ [PagesNext]_allVars
        => (subject = "history" => ChartInv)'
  BY ChartStep DEF PagesAssumption, PagesNext, allVars
<1>3. (subject = "history" => ChartInv) => ChartedOnce
  BY ChartIsOnce DEF ChartedOnce, PagesAssumption
<1> QED BY <1>1, <1>2, <1>3, PTL DEF PagesSpec

-----------------------------------------------------------------------------
(* The diagnosis of the menus                                              *)

Opener == [trigger : Triggers, event : Diagnosis!Interactions]

\* The five views of a report, and the timers of a run
Views == <<-1>> \o Diagnosis!Delays
Schedule == Append(Diagnosis!Delays, Diagnosis!Printing)

\* What a run that has heard of a menu has seen, and when it looks again
Looking(r) ==
  \E k \in 1..5 : /\ snapshots[r] = SubSeq(Views, 1, k)
                  /\ selectTimers[r] = SubSeq(Schedule, k, 5)

SelectTypes ==
  /\ last \in Nat /\ listening \subseteq Runs
  /\ selectSelected \in [Runs -> Triggers \cup {Diagnosis!NoTrigger}]
  /\ captured \in [Runs -> BOOLEAN]
  /\ events \in [Runs -> Seq(Opener)]
  /\ snapshots \in [Runs -> Seq(Int)] /\ selectTimers \in [Runs -> Seq(Int)]

\* What a run has recorded is about one menu, and begins with what opened it
OneMenu(list, menu) ==
  list # << >> => Diagnosis!Opens(Head(list).event) /\ \A k \in 1..Len(list) : list[k].trigger = menu

Recorded ==
  \A r \in Runs :
    /\ captured[r] <=> events[r] # << >>
    /\ captured[r] => selectSelected[r] \in Triggers
    /\ OneMenu(events[r], selectSelected[r])
    /\ selectTimers[r] # << >> => r \in listening /\ captured[r] /\ Looking(r)

Report == [run : Runs, events : Seq(Opener), snapshots : Seq(Int)]

\* A report is whole, and the runs that have printed do not listen any more
Reported ==
  /\ printed \in Seq(Report)
  /\ \A k \in 1..Len(printed) :
       /\ printed[k].run <= last /\ (printed[k].run = last => last \notin listening)
       /\ \A j \in 1..k - 1 : printed[j].run < printed[k].run
       /\ printed[k].snapshots = Views
       /\ printed[k].events # << >>
       /\ \E t \in Triggers : OneMenu(printed[k].events, t)

SelectInv ==
  /\ Diagnosis!SelectAssumption /\ SelectTypes
  /\ listening \subseteq {last} /\ Recorded /\ Reported

-----------------------------------------------------------------------------
LEMMA Grows ==
  ASSUME NEW s \in Seq(Int), NEW e \in Int
  PROVE  /\ Append(s, e) \in Seq(Int) /\ Len(Append(s, e)) = Len(s) + 1
         /\ \A i \in 1..Len(s) : Append(s, e)[i] = s[i]
         /\ Append(s, e)[Len(s) + 1] = e
         /\ Append(s, e) = s \o <<e>>
BY AppendProperties, AppendIsConcat

LEMMA FiveViews ==
  /\ Views \in Seq(Int) /\ Len(Views) = 5 /\ Schedule \in Seq(Int) /\ Len(Schedule) = 5
  /\ SubSeq(Views, 1, 1) = <<-1>> /\ SubSeq(Views, 1, 5) = Views
  /\ SubSeq(Schedule, 1, 5) = Schedule
  /\ \A k \in 1..4 : Views[k + 1] = Schedule[k] /\ Schedule[k] # Diagnosis!Printing
  /\ Schedule[5] = Diagnosis!Printing
<1>1. /\ Diagnosis!Delays \in Seq(Int) /\ Len(Diagnosis!Delays) = 4
      /\ Diagnosis!Printing \in Int
      /\ \A k \in 1..4 : Diagnosis!Delays[k] # Diagnosis!Printing
  BY DEF Diagnosis!Delays, Diagnosis!Printing
<1>2. <<-1>> \in Seq(Int) /\ Len(<<-1>>) = 1 /\ <<-1>>[1] = -1
  OBVIOUS
<1>3. /\ Views \in Seq(Int) /\ Len(Views) = 5 /\ Views[1] = -1
      /\ \A k \in 1..4 : Views[k + 1] = Diagnosis!Delays[k]
  <2>1. /\ Views \in Seq(Int) /\ Len(Views) = Len(<<-1>>) + Len(Diagnosis!Delays)
        /\ \A i \in 1..Len(<<-1>>) + Len(Diagnosis!Delays) :
             Views[i] = IF i <= Len(<<-1>>) THEN <<-1>>[i] ELSE Diagnosis!Delays[i - Len(<<-1>>)]
    BY <1>1, <1>2, ConcatProperties, Zenon DEF Views
  <2>2. Len(Views) = 5 /\ Views[1] = -1
    BY <1>1, <1>2, <2>1
  <2>3. ASSUME NEW k \in 1..4 PROVE Views[k + 1] = Diagnosis!Delays[k]
    <3>1. k + 1 \in 1..5 /\ ~(k + 1 <= 1) /\ k + 1 - 1 = k
      OBVIOUS
    <3> QED BY <1>1, <1>2, <2>1, <3>1
  <2> QED BY <2>1, <2>2, <2>3
<1>4. /\ Schedule \in Seq(Int) /\ Len(Schedule) = 5 /\ Schedule[5] = Diagnosis!Printing
      /\ \A k \in 1..4 : Schedule[k] = Diagnosis!Delays[k]
  <2>1. /\ Schedule \in Seq(Int) /\ Len(Schedule) = Len(Diagnosis!Delays) + 1
        /\ \A i \in 1..Len(Diagnosis!Delays) : Schedule[i] = Diagnosis!Delays[i]
        /\ Schedule[Len(Diagnosis!Delays) + 1] = Diagnosis!Printing
    <3>1. Diagnosis!Delays \in Seq(Int) /\ Diagnosis!Printing \in Int
      BY <1>1
    <3> QED BY <3>1, Grows, Zenon DEF Schedule
  <2> QED BY <1>1, <2>1
<1>5. SubSeq(Views, 1, 1) = <<-1>>
  <2>1. \A i \in 1..1 : Views[i] \in Int
    BY <1>3
  <2>2. /\ SubSeq(Views, 1, 1) \in Seq(Int) /\ Len(SubSeq(Views, 1, 1)) = 1
        /\ SubSeq(Views, 1, 1)[1] = Views[1]
    BY <1>3
  <2>3. \A i \in 1..Len(SubSeq(Views, 1, 1)) : SubSeq(Views, 1, 1)[i] = <<-1>>[i]
    BY <1>2, <1>3, <2>2
  <2>4. Len(SubSeq(Views, 1, 1)) = Len(<<-1>>)
    BY <1>2, <2>2
  <2> QED BY <1>2, <2>2, <2>3, <2>4, SeqEqual, Zenon
<1> QED BY <1>1, <1>3, <1>4, <1>5, SubSeqFull

LEMMA Slices ==
  ASSUME NEW k \in 1..5
  PROVE  /\ SubSeq(Schedule, k, 5) \in Seq(Int) /\ Len(SubSeq(Schedule, k, 5)) = 5 - k + 1
         /\ SubSeq(Views, 1, k) \in Seq(Int)
<1>1. \A i \in 1..5 : Schedule[i] \in Int /\ Views[i] \in Int
  <2>1. Len(Views) = 5 /\ Len(Schedule) = 5 /\ Views \in Seq(Int) /\ Schedule \in Seq(Int)
    BY FiveViews
  <2> QED BY <2>1, ElementOfSeq
<1>2. /\ \A i \in k..5 : Schedule[i] \in Int
      /\ \A i \in 1..k : Views[i] \in Int
      /\ k \in Int /\ 5 \in Int /\ 1 \in Int /\ k <= 5
  BY <1>1
<1> QED BY <1>2, SubSeqProperties

LEMMA Looks ==
  ASSUME NEW r \in Runs, Looking(r)
  PROVE  /\ selectTimers[r] # << >> /\ selectTimers[r] \in Seq(Int) /\ snapshots[r] \in Seq(Int)
         /\ Head(selectTimers[r]) = Diagnosis!Printing => snapshots[r] = Views
         /\ Head(selectTimers[r]) # Diagnosis!Printing =>
              \E k \in 1..5 :
                /\ Append(snapshots[r], Head(selectTimers[r])) = SubSeq(Views, 1, k)
                /\ Tail(selectTimers[r]) = SubSeq(Schedule, k, 5)
<1>0. PICK k \in 1..5 : /\ snapshots[r] = SubSeq(Views, 1, k)
                        /\ selectTimers[r] = SubSeq(Schedule, k, 5)
  BY DEF Looking
<1>1. /\ Head(selectTimers[r]) = Schedule[k] /\ Tail(selectTimers[r]) = SubSeq(Schedule, k + 1, 5)
      /\ selectTimers[r] # << >> /\ selectTimers[r] \in Seq(Int) /\ snapshots[r] \in Seq(Int)
  <2>1. 5 \in k..Len(Schedule) /\ k \in 1..Len(Schedule)
    BY FiveViews
  <2>3. /\ SubSeq(Schedule, k, 5) \in Seq(Int) /\ Len(SubSeq(Schedule, k, 5)) = 5 - k + 1
        /\ SubSeq(Views, 1, k) \in Seq(Int)
    BY Slices
  <2>4. SubSeq(Schedule, k, 5) # << >>
    <3>1. Len(SubSeq(Schedule, k, 5)) # 0
      BY <2>3
    <3> QED BY <3>1, EmptySeq
  <2>5. /\ Head(SubSeq(Schedule, k, 5)) = Schedule[k]
        /\ Tail(SubSeq(Schedule, k, 5)) = SubSeq(Schedule, k + 1, 5)
    BY <2>1, FiveViews, HeadTailOfSubSeq
  <2> QED BY <1>0, <2>3, <2>4, <2>5
<1>2. CASE k = 5
  BY <1>0, <1>1, <1>2, FiveViews
<1>3. CASE k # 5
  <2>1. k \in 1..4 /\ k + 1 \in 1..5
    BY <1>3
  <2>2. Append(snapshots[r], Schedule[k]) = snapshots[r] \o <<Schedule[k]>>
    <3>1. Schedule[k] \in Int
      <4>1. k \in 1..Len(Schedule) /\ Schedule \in Seq(Int)
        BY <2>1, FiveViews
      <4> QED BY <4>1, ElementOfSeq
    <3> QED BY <1>1, <3>1, Grows
  <2>3. SubSeq(Views, 1, k + 1) = SubSeq(Views, 1, k) \o <<Views[k + 1]>>
    <3>1. 1 \in 1..Len(Views) /\ k + 1 \in 1..Len(Views) /\ k + 1 - 1 = k
      BY <2>1, FiveViews
    <3> QED BY <3>1, FiveViews, SubSeqRecursiveSecond
  <2>4. Schedule[k] = Views[k + 1] /\ Schedule[k] # Diagnosis!Printing
    BY <2>1, FiveViews
  <2> QED BY <1>0, <1>1, <2>1, <2>2, <2>3, <2>4
<1> QED BY <1>2, <1>3

LEMMA Hears ==
  ASSUME NEW list \in Seq(Opener), NEW e \in Opener, NEW menu, OneMenu(list, menu),
         list # << >> => menu = e.trigger, list # << >> \/ Diagnosis!Opens(e.event)
  PROVE  /\ Append(list, e) \in Seq(Opener) /\ Append(list, e) # << >>
         /\ OneMenu(Append(list, e), e.trigger)
<1> DEFINE more == Append(list, e)
<1>1. /\ more \in Seq(Opener) /\ more # << >> /\ Len(more) = Len(list) + 1
      /\ more[Len(list) + 1] = e /\ \A k \in 1..Len(list) : more[k] = list[k]
      /\ Head(more) = more[1]
  BY AppendProperties
<1> HIDE DEF more
<1>2. CASE list = << >>
  <2>1. Len(list) = 0
    BY <1>2
  <2> QED BY <1>1, <1>2, <2>1 DEF OneMenu
<1>3. CASE list # << >>
  <2>1. Head(more) = Head(list)
    BY <1>1, <1>3
  <2>2. \A k \in 1..Len(more) : more[k].trigger = e.trigger
    BY <1>1, <1>3 DEF OneMenu
  <2> QED BY <1>3, <2>1, <2>2 DEF OneMenu
<1> QED BY <1>1, <1>2, <1>3 DEF more

LEMMA ReportsTyped ==
  SelectInv => \A k \in 1..Len(printed) :
                 /\ printed[k] \in Report /\ printed[k].run \in Nat
                 /\ printed[k].events \in Seq(Opener)
<1> SUFFICES ASSUME SelectInv, NEW k \in 1..Len(printed)
             PROVE  /\ printed[k] \in Report /\ printed[k].run \in Nat
                    /\ printed[k].events \in Seq(Opener)
  OBVIOUS
<1>1. printed[k] \in Report
  BY DEF SelectInv, Reported
<1> QED BY <1>1 DEF Report, SelectInv, Diagnosis!SelectAssumption

LEMMA ReportsAreWhole == SelectInv => Diagnosis!WholeReports
<1> SUFFICES ASSUME SelectInv PROVE Diagnosis!WholeReports
  OBVIOUS
<1>1. /\ DOMAIN printed = 1..Len(printed)
      /\ \A k \in 1..Len(printed) : printed[k].events \in Seq(Opener) /\ printed[k].run \in Nat
  <2>1. printed \in Seq(Report)
    BY DEF SelectInv, Reported
  <2> QED BY <2>1, ReportsTyped
<1>2. ASSUME NEW k \in 1..Len(printed)
      PROVE  /\ Diagnosis!Opens(Head(printed[k].events).event)
             /\ \A e \in Diagnosis!Range(printed[k].events) : e.trigger = Head(printed[k].events).trigger
  <2> DEFINE list == printed[k].events
  <2>1. PICK t \in Triggers : OneMenu(list, t)
    BY DEF SelectInv, Reported
  <2>2. list \in Seq(Opener) /\ list # << >>
    BY <1>1 DEF SelectInv, Reported
  <2> HIDE DEF list
  <2>3. Head(list) = list[1] /\ 1 \in 1..Len(list) /\ DOMAIN list = 1..Len(list)
    BY <2>2
  <2>4. \A e \in Diagnosis!Range(list) : \E j \in 1..Len(list) : e = list[j]
    BY <2>3 DEF Diagnosis!Range
  <2>5. /\ Diagnosis!Opens(Head(list).event)
        /\ \A e \in Diagnosis!Range(list) : e.trigger = Head(list).trigger
    BY <2>1, <2>2, <2>3, <2>4 DEF OneMenu
  <2> QED BY <2>5 DEF list
<1>3. listening \subseteq {last} /\ \A r \in Runs : selectTimers[r] # << >> => r \in listening
  BY DEF SelectInv, Recorded
<1>4. ASSUME NEW k \in 1..Len(printed)
      PROVE  /\ printed[k].snapshots = <<-1>> \o Diagnosis!Delays
             /\ \A j \in 1..k - 1 : printed[j].run < printed[k].run
  BY DEF SelectInv, Reported, Views
<1> QED BY <1>1, <1>2, <1>3, <1>4 DEF Diagnosis!WholeReports

-----------------------------------------------------------------------------
LEMMA SelectStarts == Diagnosis!SelectAssumption /\ Diagnosis!Init => SelectInv
BY DEF SelectInv, SelectTypes, Recorded, OneMenu, Reported, Diagnosis!Init

\* Only the run that listens has timers
LEMMA PasteKeeps ==
  ASSUME SelectInv, NEW r \in Runs, Diagnosis!Paste(r) PROVE SelectInv'
<1>1. /\ r = last + 1 /\ last' = r /\ last \in Nat /\ listening' = {r} /\ r \notin listening
      /\ UNCHANGED <<selectSelected, captured, events, snapshots, errors, printed>>
  <2>1. /\ r = last + 1 /\ last' = r /\ last \in Nat /\ last # r
        /\ UNCHANGED <<selectSelected, captured, events, snapshots, errors, printed>>
    BY DEF Diagnosis!Paste, SelectInv, SelectTypes
  <2>2. listening \subseteq {last} /\ (last = 0 => listening = {})
    BY DEF SelectInv, SelectTypes, Diagnosis!SelectAssumption
  <2>3. listening' = {r}
    BY <2>2 DEF Diagnosis!Paste
  <2> QED BY <2>1, <2>2, <2>3
<1>2. /\ selectTimers' \in [Runs -> Seq(Int)] /\ \A q \in Runs : selectTimers'[q] = << >>
  <2>1. selectTimers \in [Runs -> Seq(Int)] /\ \A q \in Runs : selectTimers[q] # << >> => q = last /\ q \in listening
    BY DEF SelectInv, SelectTypes, Recorded
  <2>2. \/ selectTimers' = [selectTimers EXCEPT ![last] = << >>]
        \/ last \notin listening /\ UNCHANGED selectTimers
    BY DEF Diagnosis!Paste, Diagnosis!StopsTimers, SelectInv, SelectTypes, Diagnosis!SelectAssumption
  <2>3. << >> \in Seq(Int)
    OBVIOUS
  <2> QED BY <2>1, <2>2, <2>3
<1>3. SelectTypes' /\ Recorded'
  BY <1>1, <1>2 DEF SelectInv, SelectTypes, Recorded, OneMenu
<1>4. Reported'
  <2>1. \A k \in 1..Len(printed) : printed[k].run \in Nat
    BY ReportsTyped
  <2> QED BY <1>1, <2>1 DEF SelectInv, Reported
<1> QED BY <1>1, <1>3, <1>4 DEF SelectInv

LEMMA StopKeeps == ASSUME SelectInv, Diagnosis!StopCalled PROVE SelectInv'
<1>1. /\ listening' = listening \ {last}
      /\ UNCHANGED <<last, selectSelected, captured, events, snapshots, errors, printed>>
  BY DEF Diagnosis!StopCalled, Diagnosis!Stops
<1>2. /\ selectTimers' \in [Runs -> Seq(Int)] /\ \A q \in Runs : selectTimers'[q] = << >>
  <2>1. selectTimers \in [Runs -> Seq(Int)] /\ \A q \in Runs : selectTimers[q] # << >> => q = last /\ q \in listening
    BY DEF SelectInv, SelectTypes, Recorded
  <2>2. \/ selectTimers' = [selectTimers EXCEPT ![last] = << >>]
        \/ last \notin listening /\ UNCHANGED selectTimers
    BY DEF Diagnosis!StopCalled, Diagnosis!Stops, Diagnosis!StopsTimers
  <2>3. << >> \in Seq(Int)
    OBVIOUS
  <2> QED BY <2>1, <2>2, <2>3
<1>3. SelectTypes' /\ Recorded'
  BY <1>1, <1>2 DEF SelectInv, SelectTypes, Recorded, OneMenu
<1>4. Reported'
  BY <1>1 DEF SelectInv, Reported, Report
<1> QED BY <1>1, <1>3, <1>4 DEF SelectInv

LEMMA ErrorKeeps == ASSUME SelectInv, Diagnosis!Error PROVE SelectInv'
BY DEF SelectInv, SelectTypes, Recorded, Looking, Reported, Diagnosis!Error

LEMMA InteractKeeps ==
  ASSUME SelectInv, NEW t \in Triggers, NEW i \in Diagnosis!Interactions, Diagnosis!Interact(t, i)
  PROVE SelectInv'
<1> DEFINE Hear == {r \in listening : Diagnosis!Heard(r, t, i)}
           Fresh == {r \in Hear : ~captured[r]}
           e == [trigger |-> t, event |-> i]
<1>1. /\ selectSelected' = [r \in Runs |-> IF r \in Hear THEN t ELSE selectSelected[r]]
      /\ events' = [r \in Runs |-> IF r \in Hear THEN Append(events[r], e) ELSE events[r]]
      /\ captured' = [r \in Runs |-> captured[r] \/ r \in Hear]
      /\ snapshots' = [r \in Runs |-> IF r \in Fresh THEN <<-1>> ELSE snapshots[r]]
      /\ selectTimers' = [r \in Runs |-> IF r \in Fresh THEN Schedule ELSE selectTimers[r]]
      /\ UNCHANGED <<last, listening, errors, printed>>
  BY DEF Diagnosis!Interact, Schedule
<1>2. e \in Opener /\ e.trigger = t /\ e.event = i
  BY DEF Opener
<1>3. ASSUME NEW r \in Runs, r \in Hear
      PROVE  /\ Append(events[r], e) \in Seq(Opener) /\ Append(events[r], e) # << >>
             /\ OneMenu(Append(events[r], e), t)
  <2>1. Diagnosis!Heard(r, t, i)
    BY <1>3
  <2>2. events[r] # << >> => captured[r] /\ selectSelected[r] = t
    <3>1. events[r] # << >> => captured[r] /\ selectSelected[r] \in Triggers
      BY DEF SelectInv, Recorded
    <3>2. selectSelected[r] \in {Diagnosis!NoTrigger, t} /\ Diagnosis!NoTrigger \notin Triggers
      BY <2>1 DEF Diagnosis!Heard, SelectInv, Diagnosis!SelectAssumption
    <3> QED BY <3>1, <3>2
  <2>3. events[r] \in Seq(Opener) /\ OneMenu(events[r], selectSelected[r])
    BY DEF SelectInv, SelectTypes, Recorded
  <2>4. events[r] # << >> \/ Diagnosis!Opens(i)
    BY <2>1 DEF Diagnosis!Heard, SelectInv, Recorded
  <2> HIDE DEF e
  <2> QED BY <1>2, <2>2, <2>3, <2>4, Hears
<1> HIDE DEF e
<1>4. SelectTypes'
  BY <1>1, <1>3, FiveViews DEF SelectInv, SelectTypes
<1>5. ASSUME NEW r \in Runs
      PROVE  /\ captured'[r] <=> events'[r] # << >>
             /\ captured'[r] => selectSelected'[r] \in Triggers
             /\ OneMenu(events'[r], selectSelected'[r])
             /\ selectTimers'[r] # << >> => r \in listening' /\ captured'[r] /\ Looking(r)'
  <2>1. CASE r \notin Hear
    BY <1>1, <2>1 DEF SelectInv, SelectTypes, Recorded, Looking
  <2>2. CASE r \in Fresh
    <3>1. /\ events'[r] = Append(events[r], e) /\ captured'[r] /\ selectSelected'[r] = t
          /\ snapshots'[r] = <<-1>> /\ selectTimers'[r] = Schedule /\ r \in listening'
      BY <1>1, <2>2 DEF SelectInv, SelectTypes
    <3>2. Looking(r)'
      <4>1. /\ snapshots'[r] = SubSeq(Views, 1, 1) /\ selectTimers'[r] = SubSeq(Schedule, 1, 5)
        BY <3>1, FiveViews, Zenon
      <4>2. 1 \in 1..5
        OBVIOUS
      <4> QED BY <4>1, <4>2 DEF Looking
    <3>3. r \in Hear
      BY <2>2
    <3> QED BY <1>3, <3>1, <3>2, <3>3
  <2>3. CASE r \in Hear /\ r \notin Fresh
    <3>1. /\ events'[r] = Append(events[r], e) /\ captured'[r] /\ selectSelected'[r] = t
          /\ UNCHANGED <<snapshots[r], selectTimers[r], listening>> /\ captured[r]
      BY <1>1, <2>3 DEF SelectInv, SelectTypes
    <3>2. selectTimers[r] # << >> => r \in listening /\ Looking(r)
      BY DEF SelectInv, Recorded
    <3>3. Looking(r) => Looking(r)'
      BY <3>1 DEF Looking
    <3> QED BY <1>3, <2>3, <3>1, <3>2, <3>3
  <2> QED BY <2>1, <2>2, <2>3
<1>6. Reported'
  BY <1>1 DEF SelectInv, Reported, Report
<1> QED BY <1>1, <1>4, <1>5, <1>6 DEF SelectInv, Recorded

LEMMA TimerKeeps ==
  ASSUME SelectInv, NEW r \in Runs, Diagnosis!Timer(r) PROVE SelectInv'
<1>1. /\ r \in listening /\ captured[r] /\ Looking(r) /\ r = last /\ listening = {r}
      /\ \A q \in Runs : selectTimers[q] # << >> => q = r
  BY DEF SelectInv, Recorded, Diagnosis!Timer
<1>2. /\ selectSelected' = selectSelected /\ captured' = captured /\ events' = events
      /\ last' = last /\ errors' = errors
  BY DEF Diagnosis!Timer
<1>3. CASE Head(selectTimers[r]) # Diagnosis!Printing
  <2>1. /\ snapshots' = [snapshots EXCEPT ![r] = Append(snapshots[r], Head(selectTimers[r]))]
        /\ selectTimers' = [selectTimers EXCEPT ![r] = Tail(selectTimers[r])]
        /\ UNCHANGED <<listening, printed>>
    BY <1>3 DEF Diagnosis!Timer
  <2>2. PICK k \in 1..5 : /\ Append(snapshots[r], Head(selectTimers[r])) = SubSeq(Views, 1, k)
                          /\ Tail(selectTimers[r]) = SubSeq(Schedule, k, 5)
    BY <1>1, <1>3, Looks
  <2>3. SubSeq(Views, 1, k) \in Seq(Int) /\ SubSeq(Schedule, k, 5) \in Seq(Int)
    BY Slices
  <2>4. /\ SelectTypes' /\ snapshots'[r] = SubSeq(Views, 1, k)
        /\ selectTimers'[r] = SubSeq(Schedule, k, 5)
        /\ \A q \in Runs : q # r => /\ snapshots'[q] = snapshots[q]
                                    /\ selectTimers'[q] = selectTimers[q]
    BY <1>2, <2>1, <2>2, <2>3 DEF SelectInv, SelectTypes
  <2>5. Looking(r)'
    BY <2>4 DEF Looking
  <2>6. Recorded'
    BY <1>1, <1>2, <2>1, <2>4, <2>5 DEF SelectInv, Recorded
  <2>7. Reported'
    BY <1>2, <2>1 DEF SelectInv, Reported
  <2> QED BY <1>2, <2>1, <2>4, <2>6, <2>7 DEF SelectInv
<1>4. CASE Head(selectTimers[r]) = Diagnosis!Printing
  <2> DEFINE report == [run |-> r, events |-> events[r], snapshots |-> snapshots[r]]
  <2>1. /\ printed' = Append(printed, report) /\ listening' = {}
        /\ selectTimers' = [selectTimers EXCEPT ![r] = << >>] /\ UNCHANGED snapshots
    BY <1>1, <1>4 DEF Diagnosis!Timer
  <2>2. /\ report \in Report /\ report.run = r /\ report.events = events[r]
        /\ report.snapshots = Views
    <3>1. events[r] \in Seq(Opener) /\ snapshots[r] \in Seq(Int)
      BY DEF SelectInv, SelectTypes
    <3> QED BY <1>1, <1>4, <3>1, Looks DEF Report
  <2> HIDE DEF report
  <2>3. selectTimers' \in [Runs -> Seq(Int)] /\ \A q \in Runs : selectTimers'[q] = << >>
    <3>1. << >> \in Seq(Int)
      OBVIOUS
    <3> QED BY <1>1, <2>1, <3>1 DEF SelectInv, SelectTypes
  <2>4. SelectTypes' /\ Recorded'
    BY <1>2, <2>1, <2>3 DEF SelectInv, SelectTypes, Recorded
  <2>5. printed' \in Seq(Report) /\ Len(printed') = Len(printed) + 1 /\ printed'[Len(printed) + 1] = report
        /\ \A k \in 1..Len(printed) : printed'[k] = printed[k]
    <3>1. printed \in Seq(Report)
      BY DEF SelectInv, Reported
    <3> QED BY <2>1, <2>2, <3>1, AppendProperties
  <2>6. \A k \in 1..Len(printed) : printed[k].run < last
    BY <1>1, ReportsTyped DEF SelectInv, Reported, SelectTypes
  <2>7. events[r] # << >> /\ OneMenu(events[r], selectSelected[r]) /\ selectSelected[r] \in Triggers
    BY <1>1 DEF SelectInv, Recorded
  <2>8. ASSUME NEW k \in 1..Len(printed')
        PROVE  /\ printed'[k].run <= last' /\ (printed'[k].run = last' => last' \notin listening')
               /\ \A j \in 1..k - 1 : printed'[j].run < printed'[k].run
               /\ printed'[k].snapshots = Views /\ printed'[k].events # << >>
               /\ \E t \in Triggers : OneMenu(printed'[k].events, t)
    <3>1. last \in Nat /\ Len(printed) \in Nat /\ last' = last /\ listening' = {}
      BY <1>2, <2>1 DEF SelectInv, SelectTypes, Reported
    <3>2. CASE k \in 1..Len(printed)
      <4>1. \A j \in 1..k - 1 : j \in 1..Len(printed)
        BY <3>1, <3>2
      <4>2. /\ printed[k].run <= last
            /\ \A j \in 1..k - 1 : printed[j].run < printed[k].run
            /\ printed[k].snapshots = Views /\ printed[k].events # << >>
            /\ \E t \in Triggers : OneMenu(printed[k].events, t)
        BY <3>2 DEF SelectInv, Reported
      <4> QED BY <2>5, <3>1, <3>2, <4>1, <4>2
    <3>3. CASE k = Len(printed) + 1
      <4>1. \A j \in 1..k - 1 : j \in 1..Len(printed)
        BY <3>1, <3>3
      <4>2. printed'[k] = report
        BY <2>5, <3>3
      <4>3. report.run = last /\ report.run <= last
        BY <1>1, <2>2, <3>1
      <4> QED BY <2>2, <2>5, <2>6, <2>7, <3>1, <4>1, <4>2, <4>3
    <3> QED BY <2>5, <3>1, <3>2, <3>3
  <2>9. Reported'
    BY <2>5, <2>8 DEF Reported
  <2> QED BY <1>2, <2>1, <2>4, <2>9 DEF SelectInv
<1> QED BY <1>3, <1>4

LEMMA SelectStep == SelectInv /\ [Diagnosis!Next]_selectVars => SelectInv'
<1> SUFFICES ASSUME SelectInv, [Diagnosis!Next]_selectVars PROVE SelectInv'
  OBVIOUS
<1>1. CASE UNCHANGED selectVars
  BY <1>1 DEF selectVars, SelectInv, SelectTypes, Recorded, Looking, Reported
<1> QED BY <1>1, StopKeeps, ErrorKeeps, PasteKeeps, TimerKeeps, InteractKeeps DEF Diagnosis!Next

\* However often the diagnosis is pasted, and whatever is clicked meanwhile: the last run
\* listens, each prints one report at most, in the order of their pasting, and a report begins
\* with what opened a menu, is about that one, and has the five views
\* (debug-webui-select.js:100-213).
THEOREM PagesWholeReports == ASSUME PagesAssumption PROVE PagesSpec => []WholeReports
<1>1. PagesInit => (subject = "select" => SelectInv)
  BY SelectStarts DEF PagesAssumption, PagesInit
<1>2. (subject = "select" => SelectInv) /\ [PagesNext]_allVars => (subject = "select" => SelectInv)'
  BY SelectStep DEF PagesNext, allVars
<1>3. (subject = "select" => SelectInv) => WholeReports
  BY ReportsAreWhole DEF WholeReports
<1> QED BY <1>1, <1>2, <1>3, PTL DEF PagesSpec
=============================================================================
