----------------------------- MODULE WebSession -----------------------------
(***************************************************************************)
(* The login sessions of the web interface: the rows of web_sessions       *)
(* (internal/store/auth.go), the handlers that create, revoke and re-date  *)
(* them (internal/webui/auth.go, settings.go), and the overview sockets,   *)
(* which validate their session before each push through a small cache     *)
(* (internal/webui/server.go).                                             *)
(*                                                                         *)
(* SQLite has one connection, so that a statement or a transaction is one  *)
(* step.  A token stands for its hash; passwords and cookies do not matter *)
(* here, and each token has at most one socket.                            *)
(***************************************************************************)
EXTENDS Integers

CONSTANTS
  Tokens,       \* tokens a login may draw; no token is drawn twice
  Handlers,     \* requests under way at once
  Lifetimes,    \* values of settings.SessionLifetime
  Interval,     \* websocketInterval, also the lifetime of a cached validation
  MaxTime, MaxRequests,  \* bounds: the clock, the requests
  MaxFaults     \* bound: statements that fail

SessionAssumption ==
  /\ Tokens # {} /\ Lifetimes \subseteq Nat \ {0} /\ Lifetimes # {}
  /\ Interval \in Nat \ {0}
  /\ MaxTime \in Nat /\ MaxRequests \in Nat /\ MaxFaults \in Nat

VARIABLES
  now,
  lifetime,   \* SessionLifetime in system_settings
  session,    \* web_sessions: [created, expires]; expires = 0 without a row
  drawn,      \* tokens that logins have drawn
  cache,      \* websocketSessions: [valid, at]; valid = "none" without an entry
  socket,     \* the overview socket of each token: [at, since]
  holder,     \* the socket that holds websocketSessionMu, or Nobody
  handler,    \* a request: [op, at, token, time, gone]
  requests, faults,
  revoked,    \* observer: tokens whose revocation was answered with success
  loggedOut   \* observer: tokens whose logout was answered

bounds    == <<requests, faults>>
observers == <<revoked, loggedOut>>
pushes    == <<cache, socket, holder>>
vars == <<now, lifetime, session, drawn, pushes, handler, bounds, observers>>

Nobody    == "nobody"
NobodyAssumption == Nobody \notin Tokens
NoSession == [created |-> 0, expires |-> 0]
NoEntry   == [valid |-> "none", at |-> 0]
NoSocket  == [at |-> "none", since |-> 0]
NoRequest == [op |-> "none", at |-> "idle", token |-> CHOOSE t \in Tokens : TRUE,
              time |-> 0, gone |-> {}]
Stamps    == 0..(MaxTime + CHOOSE l \in Lifetimes : \A m \in Lifetimes : m <= l)
Validating == {"erase", "live", "dead"}

\* time: the lifetime that settings are given, or when a new session expires;
\* gone: the sessions a revocation has deleted
TypeOK ==
  /\ now \in 0..MaxTime /\ lifetime \in Lifetimes
  /\ session \in [Tokens -> [created : 0..MaxTime, expires : Stamps]]
  /\ drawn \subseteq Tokens
  /\ cache \in [Tokens -> [valid : {"none", "yes", "no"}, at : 0..MaxTime]]
  /\ socket \in [Tokens -> [at : {"none", "open", "check", "push", "closed"}
                                   \cup Validating, since : 0..MaxTime]]
  /\ holder \in Tokens \cup {Nobody}
  /\ \A t \in Tokens : holder = t <=> socket[t].at \in Validating
  /\ handler \in [Handlers ->
       [op : {"none", "login", "logout", "revoke", "others", "admin", "settings",
             "visit"},
        at : {"idle", "read", "create", "delete", "save", "apply", "invalidate",
              "refresh", "erase", "done", "failed"},
        token : Tokens, time : Stamps, gone : SUBSET Tokens]]
  /\ requests \in 0..MaxRequests /\ faults \in 0..MaxFaults
  /\ revoked \subseteq Tokens /\ loggedOut \subseteq Tokens

Live(t) == session[t].expires > now

\* Tokens whose cookie a client may have
Issued == {t \in drawn : \A h \in Handlers : handler[h].op = "login" => handler[h].token # t}

\* A statement fails, or the request's context is done before it
Fault == faults < MaxFaults /\ faults' = faults + 1

-----------------------------------------------------------------------------
(* The requests                                                            *)

Begins(h, op, at, t, time) ==
  handler' = [handler EXCEPT ![h] =
                [op |-> op, at |-> at, token |-> t, time |-> time, gone |-> {}]]

\* A login whose password was right
LoginArrives(h) ==
  \E t \in Tokens \ drawn : drawn' = drawn \cup {t} /\ Begins(h, "login", "read", t, 0)

\* A logout, or a request whose session authMiddleware has found valid
RequestArrives(h) ==
  /\ \/ \E t \in Issued : Begins(h, "logout", "delete", t, 0)
     \/ \E t \in Issued : Live(t) /\
          \/ \E u \in Issued : Begins(h, "revoke", "delete", u, 0)
          \/ \E op \in {"others", "admin"} : Begins(h, op, "delete", t, 0)
          \/ \E l \in Lifetimes : Begins(h, "settings", "save", t, l)
  /\ UNCHANGED drawn

\* A request whose session has expired: ValidateSessionExpiry has read the row
ExpiredArrives(h) ==
  /\ \E t \in Issued : session[t] # NoSession /\ ~Live(t) /\ Begins(h, "visit", "erase", t, 0)
  /\ UNCHANGED drawn

Arrives(h) ==
  /\ handler[h].at = "idle" /\ requests < MaxRequests
  /\ requests' = requests + 1
  /\ LoginArrives(h) \/ RequestArrives(h) \/ ExpiredArrives(h)
  /\ UNCHANGED <<now, lifetime, session, pushes, faults, observers>>

Goto(h, l) == handler' = [handler EXCEPT ![h] = [@ EXCEPT !.at = l]]
rest == <<now, drawn, pushes, requests, observers>>

\* issueSession reads the lifetime, then creates the session
LoginReads(h) ==
  /\ handler[h].at = "read"
  /\ handler' = [handler EXCEPT ![h] = [@ EXCEPT !.at = "create", !.time = now + lifetime]]
  /\ UNCHANGED <<rest, lifetime, session, faults>>

LoginCreates(h) ==
  /\ handler[h].at = "create"
  /\ session' = [session EXCEPT ![handler[h].token] =
                   [created |-> now, expires |-> handler[h].time]]
  /\ Goto(h, "done")
  /\ UNCHANGED <<rest, lifetime, faults>>

\* The DELETE of ValidateSessionExpiry
ErasesExpired(h) ==
  /\ handler[h].at = "erase"
  /\ session' = [session EXCEPT ![handler[h].token] = NoSession]
  /\ Goto(h, "done")
  /\ UNCHANGED <<rest, lifetime, faults>>

\* DeleteSession, DeleteOtherSessions; a logout and a change of the administrator,
\* which is already saved then, go on after an error
Deletes(h) ==
  LET r    == handler[h]
      gone == IF r.op \in {"others", "admin"}
              THEN {t \in Tokens : session[t] # NoSession} \ {r.token}
              ELSE {r.token}
  IN
  /\ r.at = "delete"
  /\ \/ /\ session' = [t \in Tokens |-> IF t \in gone THEN NoSession ELSE session[t]]
        /\ handler' = [handler EXCEPT ![h] = [@ EXCEPT !.at = "invalidate", !.gone = gone]]
        /\ UNCHANGED faults
     \/ /\ Fault
        /\ Goto(h, IF r.op \in {"logout", "admin"} THEN "invalidate" ELSE "failed")
        /\ UNCHANGED session
  /\ UNCHANGED <<rest, lifetime>>

\* saveSettings
Saves(h) ==
  /\ handler[h].at = "save"
  /\ \/ lifetime' = handler[h].time /\ Goto(h, "apply") /\ UNCHANGED faults
     \/ Fault /\ Goto(h, "failed") /\ UNCHANGED lifetime
  /\ UNCHANGED <<rest, session>>

\* ApplySessionLifetime, a transaction: every session is dated from its login
Applies(h) ==
  LET due(t) == session[t].created + handler[h].time IN
  /\ handler[h].at = "apply"
  /\ \/ /\ session' = [t \in Tokens |->
             IF session[t] # NoSession /\ due(t) > now
             THEN [session[t] EXCEPT !.expires = due(t)] ELSE NoSession]
        /\ Goto(h, "invalidate")
        /\ UNCHANGED faults
     \/ Fault /\ Goto(h, "failed") /\ UNCHANGED session
  /\ UNCHANGED <<rest, lifetime>>

Forgotten(r) ==
  CASE r.op = "settings"            -> Tokens
    [] r.op \in {"others", "admin"} -> Tokens \ {r.token}
    [] OTHER                        -> {r.token}

\* Fault: the cached validations are left to age
InvalidatesNothing(h) ==
  /\ handler[h].at = "invalidate" /\ holder = Nobody
  /\ Goto(h, IF handler[h].op = "settings" THEN "refresh" ELSE "done")
  /\ UNCHANGED <<now, lifetime, session, drawn, pushes, bounds, observers>>

\* invalidateWebSocketSession, ...SessionsExcept, invalidateAllWebSocketSessions
Invalidates(h) ==
  /\ handler[h].at = "invalidate" /\ holder = Nobody
  /\ cache' = [t \in Tokens |-> IF t \in Forgotten(handler[h]) THEN NoEntry ELSE cache[t]]
  /\ Goto(h, IF handler[h].op = "settings" THEN "refresh" ELSE "done")
  /\ UNCHANGED <<now, lifetime, session, drawn, socket, holder, bounds, observers>>

\* saveSettings validates its own session again: refreshSessionCookie
Refreshes(h) ==
  LET t == handler[h].token IN
  /\ handler[h].at = "refresh"
  /\ Goto(h, IF session[t] # NoSession /\ ~Live(t) THEN "erase" ELSE "done")
  /\ UNCHANGED <<rest, lifetime, session, faults>>

Answers(h) ==
  LET r == handler[h] IN
  /\ r.at \in {"done", "failed"}
  /\ revoked' = revoked \cup r.gone
  /\ loggedOut' = IF r.op = "logout" THEN loggedOut \cup {r.token} ELSE loggedOut
  /\ handler' = [handler EXCEPT ![h] = NoRequest]
  /\ UNCHANGED <<now, lifetime, session, drawn, pushes, bounds>>

Handle(h) ==
  \/ LoginReads(h) \/ LoginCreates(h) \/ ErasesExpired(h) \/ Deletes(h) \/ Saves(h)
  \/ Applies(h) \/ Invalidates(h) \/ Refreshes(h) \/ Answers(h)

\* listSessions: PruneSessions
Prune ==
  /\ \E t \in Tokens : session[t] # NoSession /\ ~Live(t)
  /\ session' = [t \in Tokens |-> IF Live(t) THEN session[t] ELSE NoSession]
  /\ UNCHANGED <<rest, lifetime, handler, faults>>

-----------------------------------------------------------------------------
(* The overview sockets                                                    *)

pushRest == <<now, lifetime, drawn, handler, requests, observers>>

At(t, l) == socket' = [socket EXCEPT ![t] = [@ EXCEPT !.at = l]]

\* A socket is accepted, its session was valid in authMiddleware; send(false) follows
Connects(t) ==
  /\ socket[t].at = "none" /\ t \in Issued /\ Live(t)
  /\ At(t, "check")
  /\ UNCHANGED <<pushRest, session, cache, holder, faults>>

Fresh(t) == cache[t].valid # "none" /\ now - cache[t].at < Interval

\* validateWebSocketSession: the cache, or the row, read with the mutex held
Validates(t) ==
  /\ socket[t].at = "check" /\ holder = Nobody
  /\ \/ /\ Fresh(t)
        /\ At(t, IF cache[t].valid = "yes" THEN "push" ELSE "closed")
        /\ UNCHANGED <<holder, faults>>
     \/ /\ ~Fresh(t)
        /\ holder' = t
        /\ socket' = [socket EXCEPT ![t] =
             [at |-> IF Live(t) THEN "live"
                     ELSE IF session[t] = NoSession THEN "dead" ELSE "erase",
              since |-> now]]
        /\ UNCHANGED faults
     \/ /\ ~Fresh(t) /\ Fault
        /\ At(t, "closed")
        /\ UNCHANGED holder
  /\ UNCHANGED <<pushRest, session, cache>>

ValidationErases(t) ==
  /\ socket[t].at = "erase"
  /\ session' = [session EXCEPT ![t] = NoSession]
  /\ At(t, "dead")
  /\ UNCHANGED <<pushRest, cache, holder, faults>>

\* The result is cached, old results are dropped, the mutex is released
Caches(t) ==
  /\ socket[t].at \in {"live", "dead"}
  /\ cache' = [u \in Tokens |->
       IF u = t THEN [valid |-> IF socket[t].at = "live" THEN "yes" ELSE "no",
                      at |-> socket[t].since]
       ELSE IF socket[t].since - cache[u].at >= Interval THEN NoEntry ELSE cache[u]]
  /\ holder' = Nobody
  /\ socket' = [socket EXCEPT ![t] =
       [at |-> IF @.at = "live" THEN "push" ELSE "closed", since |-> 0]]
  /\ UNCHANGED <<pushRest, session, faults>>

\* The overview is written; then the ticker or a refresh asks for the next push
Pushes(t) ==
  /\ \/ socket[t].at = "push" /\ At(t, "open")
     \/ socket[t].at = "open" /\ At(t, "check")
  /\ UNCHANGED <<pushRest, session, cache, holder, faults>>

\* The client leaves, or the overview cannot be read or written
Disconnects(t) ==
  /\ socket[t].at \in {"open", "push"}
  /\ At(t, "closed")
  /\ UNCHANGED <<pushRest, session, cache, holder, faults>>

Socket(t) == Validates(t) \/ ValidationErases(t) \/ Caches(t) \/ Pushes(t)

Tick ==
  /\ now < MaxTime
  /\ now' = now + 1
  /\ UNCHANGED <<lifetime, session, drawn, pushes, handler, bounds, observers>>

-----------------------------------------------------------------------------
Init ==
  /\ now = 0 /\ lifetime \in Lifetimes
  /\ session = [t \in Tokens |-> NoSession] /\ drawn = {}
  /\ cache = [t \in Tokens |-> NoEntry]
  /\ socket = [t \in Tokens |-> NoSocket] /\ holder = Nobody
  /\ handler = [h \in Handlers |-> NoRequest]
  /\ requests = 0 /\ faults = 0 /\ revoked = {} /\ loggedOut = {}

Next ==
  \/ \E h \in Handlers : Arrives(h) \/ Handle(h)
  \/ \E t \in Tokens : Connects(t) \/ Socket(t) \/ Disconnects(t)
  \/ Prune \/ Tick

Spec == Init /\ [][Next]_vars

\* Every goroutine runs and the ticker of a socket ticks.
Fairness ==
  /\ \A h \in Handlers : WF_vars(Handle(h))
  /\ \A t \in Tokens : WF_vars(Validates(t)) /\ WF_vars(ValidationErases(t) \/ Caches(t))
                       /\ WF_vars(Pushes(t))

FairSpec == Spec /\ Fairness

-----------------------------------------------------------------------------
\* After a revocation has been answered the session is gone for good, and no
\* validation that was cached, or under way, still says otherwise
\* (webui/server.go:228-230).
RevokedStays ==
  \A t \in revoked : session[t] = NoSession /\ cache[t].valid # "yes" /\ socket[t].at # "live"

\* The socket of a session that was revoked is closed (webui/server.go:229-230).
RevokedCloses == \A t \in Tokens :
  t \in revoked /\ socket[t].at # "none" ~> socket[t].at = "closed"

\* A logout removes the session on the server (README.md:301).
LogoutDeletes == \A t \in loggedOut : session[t] = NoSession

\* When nobody is logging in or changing the settings, no session outlives the
\* lifetime in the settings (store/auth.go:133-135).
PolicyHolds ==
  (\A h \in Handlers : handler[h].op \notin {"login", "settings"}) =>
    \A t \in Tokens : session[t].expires <= session[t].created + lifetime

\* Only a revocation or a change of the lifetime removes a session that has not
\* expired (store/auth.go:133-135).
LiveIsKept ==
  [][\A t \in Tokens : Live(t) /\ session'[t] = NoSession =>
       \E h \in Handlers : handler[h].at \in {"delete", "apply"}
                           /\ handler'[h] # handler[h]]_vars

=============================================================================
