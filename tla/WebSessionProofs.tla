-------------------------- MODULE WebSessionProofs --------------------------
(***************************************************************************)
(* Proofs about the web console's server: of WebSession, for all sets of   *)
(* tokens and of requests, all lifetimes and every interval of the cache,  *)
(* that a session whose revocation was answered is never found valid       *)
(* again; of SelfUpdate, for all calls and faults, that there is one       *)
(* update at a time, and that an answer tells what was done.               *)
(***************************************************************************)
EXTENDS MCWeb, FiniteSetTheorems, TLAPS

\* The shape of the state, as far as the steps read it
Ops == {"none", "login", "logout", "revoke", "others", "admin", "settings", "visit"}
Places == {"idle", "read", "create", "delete", "save", "apply", "invalidate", "refresh", "erase",
           "done", "failed"}
Stages == {"none", "open", "check", "push", "closed", "erase", "live", "dead"}
Requests == [op : Ops, at : Places, token : Tokens, time : Nat, gone : SUBSET Tokens]
Sessions == [created : Nat, expires : Nat]
Entries  == [valid : {"none", "yes", "no"}, at : Nat]
Sockets  == [at : Stages, since : Nat]
Shapes ==
  /\ now \in Nat /\ lifetime \in Nat /\ drawn \subseteq Tokens
  /\ session \in [Tokens -> Sessions]
  /\ cache \in [Tokens -> Entries]
  /\ socket \in [Tokens -> Sockets]
  /\ handler \in [Handlers -> Requests]

\* A login that will still create the session of a token
LogsIn(h, t) == handler[h].at \in {"read", "create"} /\ handler[h].token = t
\* The login of a token is over, and no other will draw it
Settled(t) == t \in drawn /\ \A h \in Handlers : ~LogsIn(h, t)
\* A token without a session, now and for ever
Dead(t)  == Settled(t) /\ session[t] = NoSession
\* No validation of it says otherwise
Clean(t) == cache[t].valid # "yes" /\ socket[t].at # "live"

\* A token is drawn once, has a session only after its login, and is named by a
\* logout or a revocation only then
TokensOnce ==
  /\ \A h \in Handlers, t \in Tokens : LogsIn(h, t) => t \in drawn
  /\ \A h, k \in Handlers, t \in Tokens : LogsIn(h, t) /\ LogsIn(k, t) => h = k
  /\ \A t \in Tokens : session[t] # NoSession => Settled(t)
  /\ \A h \in Handlers :
       /\ handler[h].op \in {"logout", "revoke"} => Settled(handler[h].token)
       /\ handler[h].at \in {"read", "create"} => handler[h].op = "login"
       /\ handler[h].at = "delete" => handler[h].op \in {"logout", "revoke", "others", "admin"}

\* What a request has deleted is dead, and clean once it has invalidated the cache
DeletedIsDead ==
  \A h \in Handlers : \A t \in handler[h].gone :
    /\ Dead(t) /\ t \in Forgotten(handler[h])
    /\ handler[h].at # "invalidate" => Clean(t)

RevokedIsDead == revoked \subseteq Tokens /\ \A t \in revoked : Dead(t) /\ Clean(t)

\* Whoever validates holds the mutex
Mutex == \A t \in Tokens : socket[t].at \in Validating => holder = t

Inv == Shapes /\ TokensOnce /\ DeletedIsDead /\ RevokedIsDead /\ Mutex

LEMMA InvImplies == Inv => RevokedStays
BY DEF Inv, RevokedIsDead, RevokedStays, Dead, Clean

-----------------------------------------------------------------------------
(* The shape of the state                                                  *)

LEMMA Empties ==
  ASSUME SessionAssumption
  PROVE  NoRequest \in Requests /\ NoSession \in Sessions
         /\ NoEntry \in Entries /\ NoSocket \in Sockets
<1>1. (CHOOSE t \in Tokens : TRUE) \in Tokens
  BY DEF SessionAssumption
<1> QED
  BY <1>1 DEF NoRequest, NoSession, NoEntry, NoSocket, Requests, Sessions, Entries, Sockets, Ops,
     Places, Stages

LEMMA ShapesInit == SessionAssumption /\ Init => Shapes
BY Empties DEF Init, Shapes, SessionAssumption

\* A request that goes on keeps its shape.
LEMMA GotoShape ==
  ASSUME Shapes, NEW h \in Handlers, NEW l \in Places, Goto(h, l)
  PROVE  handler' \in [Handlers -> Requests]
BY DEF Shapes, Goto, Requests

LEMMA BeginsShape ==
  ASSUME Shapes, NEW h \in Handlers, NEW o \in Ops, NEW l \in Places, NEW t \in Tokens,
         NEW n \in Nat, Begins(h, o, l, t, n)
  PROVE  handler' \in [Handlers -> Requests]
BY DEF Shapes, Begins, Requests

LEMMA AtShape ==
  ASSUME Shapes, NEW t \in Tokens, NEW l \in Stages, At(t, l)
  PROVE  socket' \in [Tokens -> Sockets]
BY DEF Shapes, At, Sockets

LEMMA ShapesStep ==
  ASSUME SessionAssumption, Shapes, [Next]_vars
  PROVE  Shapes'
<1>1. ASSUME NEW h \in Handlers, Arrives(h) PROVE Shapes'
  <2>1. handler' \in [Handlers -> Requests]
    <3>1. ASSUME LoginArrives(h) PROVE handler' \in [Handlers -> Requests]
      BY <3>1, BeginsShape DEF LoginArrives, Ops, Places
    <3>2. ASSUME RequestArrives(h) PROVE handler' \in [Handlers -> Requests]
      <4>1. Lifetimes \subseteq Nat /\ Issued \subseteq Tokens
        BY DEF SessionAssumption, Issued, Shapes
      <4> QED
        BY <3>2, <4>1, BeginsShape DEF RequestArrives, Ops, Places
    <3>3. ASSUME ExpiredArrives(h) PROVE handler' \in [Handlers -> Requests]
      <4>1. PICK t \in Issued : Begins(h, "visit", "erase", t, 0)
        BY <3>3 DEF ExpiredArrives
      <4>2. t \in Tokens
        BY DEF Issued, Shapes
      <4> QED
        BY <4>1, <4>2, BeginsShape DEF Ops, Places
    <3> QED
      BY <1>1, <3>1, <3>2, <3>3 DEF Arrives
  <2>2. drawn' \subseteq Tokens
    BY <1>1 DEF Arrives, LoginArrives, RequestArrives, ExpiredArrives, Shapes
  <2> QED
    BY <1>1, <2>1, <2>2 DEF Arrives, Shapes, pushes
<1>2. ASSUME NEW h \in Handlers, Handle(h) PROVE Shapes'
  <2>1. CASE LoginReads(h)
    <3>1. now + lifetime \in Nat
      BY DEF Shapes, SessionAssumption
    <3>2. handler' \in [Handlers -> Requests]
      BY ZenonT(60), <2>1, <3>1 DEF LoginReads, Shapes, Requests, Places
    <3> QED
      BY <2>1, <3>2 DEF LoginReads, Shapes, rest, pushes
  <2>2. CASE LoginCreates(h)
    <3>1. handler' \in [Handlers -> Requests]
      BY <2>2, GotoShape DEF Places, LoginCreates
    <3>2. session' \in [Tokens -> Sessions]
      BY <2>2 DEF LoginCreates, Shapes, Requests, Sessions
    <3> QED
      BY <2>2, <3>1, <3>2 DEF LoginCreates, Shapes, rest, pushes
  <2>3. CASE ErasesExpired(h)
    BY <2>3, GotoShape, Empties DEF Places, ErasesExpired, Shapes, rest, pushes
  <2>4. CASE Deletes(h)
    <3>1. handler' \in [Handlers -> Requests]
      <4>1. CASE \E G \in SUBSET Tokens :
                   handler' = [handler EXCEPT ![h] = [@ EXCEPT !.at = "invalidate", !.gone = G]]
        <5>1. PICK G \in SUBSET Tokens :
                handler' = [handler EXCEPT ![h] = [@ EXCEPT !.at = "invalidate", !.gone = G]]
          BY <4>1
        <5> QED
          BY ZenonT(60), <5>1 DEF Shapes, Requests, Places
      <4>2. CASE Goto(h, "invalidate") \/ Goto(h, "failed")
        BY <4>2, GotoShape DEF Places
      <4>3. handler[h].token \in Tokens
        BY DEF Shapes, Requests
      <4> QED
        BY <2>4, <4>1, <4>2, <4>3 DEF Deletes
    <3>2. session' \in [Tokens -> Sessions]
      BY <2>4, Empties DEF Deletes, Shapes
    <3> QED
      BY <2>4, <3>1, <3>2 DEF Deletes, Shapes, rest, pushes
  <2>5. CASE Saves(h)
    <3>1. handler' \in [Handlers -> Requests]
      BY <2>5, GotoShape DEF Places, Saves
    <3>2. lifetime' \in Nat
      BY <2>5 DEF Saves, Shapes, Requests
    <3> QED
      BY <2>5, <3>1, <3>2 DEF Saves, Shapes, rest, pushes
  <2>6. CASE Applies(h)
    <3>1. handler' \in [Handlers -> Requests]
      BY <2>6, GotoShape DEF Places, Applies
    <3>2. \A t \in Tokens : session[t].created + handler[h].time \in Nat
      BY DEF Shapes, Sessions, Requests
    <3>3. session' \in [Tokens -> Sessions]
      BY <2>6, <3>2, Empties DEF Applies, Shapes, Sessions
    <3> QED
      BY <2>6, <3>1, <3>3 DEF Applies, Shapes, rest, pushes
  <2>7. CASE Invalidates(h)
    <3>1. handler' \in [Handlers -> Requests]
      BY <2>7, GotoShape DEF Places, Invalidates
    <3>2. cache' \in [Tokens -> Entries]
      BY <2>7, Empties DEF Invalidates, Shapes
    <3> QED
      BY <2>7, <3>1, <3>2 DEF Invalidates, Shapes
  <2>8. CASE Refreshes(h)
    BY <2>8, GotoShape DEF Places, Refreshes, Shapes, rest, pushes
  <2>9. CASE Answers(h)
    BY <2>9, Empties DEF Answers, Shapes, pushes
  <2> QED
    BY <1>2, <2>1, <2>2, <2>3, <2>4, <2>5, <2>6, <2>7, <2>8, <2>9 DEF Handle
<1>3. ASSUME NEW t \in Tokens, Connects(t) \/ Pushes(t) \/ Disconnects(t) PROVE Shapes'
  BY <1>3, AtShape DEF Stages, Connects, Pushes, Disconnects, Shapes, pushRest
<1>4. ASSUME NEW t \in Tokens, Validates(t) PROVE Shapes'
  <2>1. CASE At(t, "push") \/ At(t, "closed")
    BY <1>4, <2>1, AtShape DEF Validates, Shapes, pushRest, Stages
  <2>2. CASE \E l \in {"live", "dead", "erase"} :
               socket' = [socket EXCEPT ![t] = [at |-> l, since |-> now]]
    BY <1>4, <2>2 DEF Validates, Shapes, pushRest, Sockets, Stages
  <2> QED
    BY <1>4, <2>1, <2>2 DEF Validates
<1>5. ASSUME NEW t \in Tokens, ValidationErases(t) PROVE Shapes'
  BY <1>5, AtShape, Empties DEF Stages, ValidationErases, Shapes, pushRest
<1>6. ASSUME NEW t \in Tokens, Caches(t) PROVE Shapes'
  <2>1. cache' \in [Tokens -> Entries]
    BY <1>6, Empties DEF Caches, Shapes, Entries, Sockets
  <2>2. socket' \in [Tokens -> Sockets]
    BY <1>6 DEF Caches, Shapes, Sockets, Stages
  <2> QED
    BY <1>6, <2>1, <2>2 DEF Caches, Shapes, pushRest
<1>7. CASE Prune
  BY <1>7, Empties DEF Prune, Shapes, rest, pushes
<1>8. CASE Tick
  BY <1>8 DEF Tick, Shapes, pushes
<1>9. CASE UNCHANGED vars
  BY <1>9 DEF vars, Shapes, pushes
<1> QED
  BY <1>1, <1>2, <1>3, <1>4, <1>5, <1>6, <1>7, <1>8, <1>9 DEF Next, Socket

-----------------------------------------------------------------------------
(* What stays                                                              *)

\* A request takes a step of its own: it keeps its token, and does not log in again
GoesOn(h) ==
  /\ drawn' = drawn /\ socket' = socket /\ holder' = holder
  /\ \A k \in Handlers : k # h => handler'[k] = handler[k]
  /\ \/ handler'[h] = NoRequest
     \/ handler'[h].op = handler[h].op /\ handler'[h].token = handler[h].token
  /\ handler'[h].at # "delete"
  /\ handler'[h].at \in {"read", "create"} =>
       /\ handler[h].at = "read"
       /\ handler'[h].op = handler[h].op /\ handler'[h].token = handler[h].token

LEMMA Idle == NoRequest.at = "idle" /\ NoRequest.op = "none" /\ NoRequest.gone = {}
BY DEF NoRequest

\* Every step of a request is one of those.
LEMMA StepOfRequest ==
  ASSUME Shapes, NEW h \in Handlers, Handle(h)
  PROVE  GoesOn(h)
<1>1. ASSUME NEW l \in Places \ {"read", "create", "delete"}, Goto(h, l), UNCHANGED <<drawn, socket, holder>>
      PROVE  GoesOn(h)
  BY <1>1 DEF Goto, Shapes, Requests, GoesOn
<1>2. CASE LoginReads(h)
  BY <1>2 DEF LoginReads, Shapes, Requests, rest, pushes, GoesOn
<1>3. CASE LoginCreates(h) \/ ErasesExpired(h)
  BY <1>3, <1>1 DEF LoginCreates, ErasesExpired, rest, pushes, Places
<1>4. CASE Saves(h) \/ Applies(h)
  BY <1>4, <1>1 DEF Saves, Applies, rest, pushes, Places
<1>5. CASE Refreshes(h) \/ Invalidates(h)
  BY <1>5, <1>1 DEF Refreshes, Invalidates, rest, pushes, Places
<1>6. CASE Deletes(h)
  <2>1. ASSUME NEW G, handler' = [handler EXCEPT ![h] = [@ EXCEPT !.at = "invalidate", !.gone = G]]
        PROVE  GoesOn(h)
    BY <1>6, <2>1 DEF Deletes, Shapes, Requests, GoesOn, rest, pushes
  <2>2. CASE Goto(h, "invalidate") \/ Goto(h, "failed")
    BY <1>1, <1>6, <2>2 DEF Deletes, rest, pushes, Places
  <2> QED
    BY <1>6, <2>1, <2>2 DEF Deletes
<1>7. CASE Answers(h)
  <2>1. handler' = [handler EXCEPT ![h] = NoRequest] /\ UNCHANGED <<drawn, socket, holder>>
    BY <1>7 DEF Answers, pushes
  <2> QED
    BY <2>1, Idle DEF Shapes, GoesOn
<1> QED
  BY <1>2, <1>3, <1>4, <1>5, <1>6, <1>7 DEF Handle

\* A login that is over stays so.
LEMMA SettledStays ==
  ASSUME Shapes, [Next]_vars, NEW t \in Tokens, Settled(t)
  PROVE  Settled(t)'
<1>1. ASSUME NEW h \in Handlers, Arrives(h) PROVE Settled(t)'
  <2>1. /\ drawn \subseteq drawn' /\ \A k \in Handlers : k # h => handler'[k] = handler[k]
        /\ handler'[h].at \in {"read", "create"} => handler'[h].token \notin drawn
    BY <1>1 DEF Arrives, LoginArrives, RequestArrives, ExpiredArrives, Begins, Shapes
  <2> QED
    BY <2>1 DEF Settled, LogsIn
<1>2. ASSUME NEW h \in Handlers, Handle(h) PROVE Settled(t)'
  BY <1>2, StepOfRequest DEF Settled, LogsIn, GoesOn
<1>3. ASSUME UNCHANGED <<drawn, handler>> PROVE Settled(t)'
  BY <1>3 DEF Settled, LogsIn
<1>4. CASE UNCHANGED <<drawn, handler>>
  BY <1>3, <1>4
<1> QED
  BY <1>1, <1>2, <1>4 DEF Next, Socket, Connects, Validates, ValidationErases, Caches, Pushes,
     Disconnects, Prune, Tick, vars, pushRest, rest

\* Nothing gives a session to a token whose login is over.
LEMMA DeadStays ==
  ASSUME Shapes, [Next]_vars, NEW t \in Tokens, Dead(t)
  PROVE  Dead(t)'
<1>0. Settled(t)' /\ Settled(t) /\ session[t] = NoSession
  BY SettledStays DEF Dead
<1>1. session'[t] = NoSession
  <2>1. ASSUME NEW h \in Handlers, Handle(h) PROVE session'[t] = NoSession
    <3>1. CASE LoginCreates(h)
      BY <1>0, <3>1 DEF LoginCreates, Settled, LogsIn, Shapes
    <3>2. CASE ErasesExpired(h) \/ Deletes(h) \/ Applies(h)
      BY <1>0, <3>2 DEF ErasesExpired, Deletes, Applies, Shapes
    <3> QED
      BY <1>0, <2>1, <3>1, <3>2 DEF Handle, LoginReads, Saves, Invalidates, Refreshes, Answers
  <2>2. CASE Prune
    BY <1>0, <2>2 DEF Prune
  <2>3. ASSUME NEW u \in Tokens, ValidationErases(u) PROVE session'[t] = NoSession
    BY <1>0, <2>3 DEF ValidationErases, Shapes
  <2>4. CASE UNCHANGED session
    BY <1>0, <2>4
  <2> QED
    BY <2>1, <2>2, <2>3, <2>4 DEF Next, Arrives, Socket, Connects, Validates, Caches, Pushes,
       Disconnects, Tick, vars
<1> QED
  BY <1>0, <1>1 DEF Dead

\* A validation of a dead token finds it dead.
LEMMA CleanStays ==
  ASSUME Shapes, [Next]_vars, NEW t \in Tokens, Dead(t), Clean(t)
  PROVE  Clean(t)'
<1>0. ~Live(t)
  BY DEF Dead, Live, NoSession, Shapes
<1>1. ASSUME NEW u \in Tokens, NEW l \in {"open", "check", "push", "closed", "dead"}, At(u, l),
             UNCHANGED cache
      PROVE  Clean(t)'
  BY <1>1 DEF At, Clean, Shapes, Sockets
<1>2. ASSUME NEW u \in Tokens, Validates(u) PROVE Clean(t)'
  <2>1. CASE At(u, "push") \/ At(u, "closed")
    BY <1>1, <1>2, <2>1 DEF Validates
  <2>2. CASE socket' = [socket EXCEPT ![u] =
               [at |-> IF Live(u) THEN "live"
                       ELSE IF session[u] = NoSession THEN "dead" ELSE "erase", since |-> now]]
    BY <1>0, <1>2, <2>2 DEF Validates, Clean, Shapes
  <2> QED
    BY <1>2, <2>1, <2>2 DEF Validates
<1>3. ASSUME NEW u \in Tokens, Caches(u) PROVE Clean(t)'
  <2>1. cache'[t].valid # "yes"
    BY <1>3 DEF Caches, Clean, Shapes, NoEntry
  <2>2. socket'[t].at # "live"
    BY <1>3 DEF Caches, Clean, Shapes
  <2> QED
    BY <2>1, <2>2 DEF Clean
<1>4. ASSUME NEW h \in Handlers, Handle(h) PROVE Clean(t)'
  <2>1. CASE Invalidates(h)
    BY <2>1 DEF Invalidates, Clean, NoEntry
  <2> QED
    BY <1>4, <2>1 DEF Handle, LoginReads, LoginCreates, ErasesExpired, Deletes, Saves, Applies,
       Refreshes, Answers, Clean, rest, pushes
<1>5. CASE UNCHANGED <<cache, socket>>
  BY <1>5 DEF Clean
<1> QED
  BY <1>1, <1>2, <1>3, <1>4, <1>5 DEF Next, Arrives, Socket, Connects, ValidationErases, Pushes,
     Disconnects, Prune, Tick, vars, pushes, rest

-----------------------------------------------------------------------------
(* The invariant                                                           *)

LEMMA InitInv == SessionAssumption /\ Init => Inv
<1> SUFFICES ASSUME SessionAssumption, Init PROVE Inv
  OBVIOUS
<1>1. Shapes
  BY ShapesInit
<1>2. \A h \in Handlers : handler[h].at = "idle" /\ handler[h].op = "none" /\ handler[h].gone = {}
  BY Idle DEF Init
<1>3. TokensOnce
  BY <1>2 DEF Init, TokensOnce, LogsIn
<1>4. DeletedIsDead /\ RevokedIsDead
  BY <1>2 DEF Init, DeletedIsDead, RevokedIsDead
<1>5. Mutex
  BY DEF Init, Mutex, NoSocket, Validating
<1> QED
  BY <1>1, <1>3, <1>4, <1>5 DEF Inv

\* A request arrives with a token that was never drawn, or one whose login is over.
LEMMA Arrival ==
  ASSUME Inv, NEW h \in Handlers, Arrives(h)
  PROVE  /\ \A k \in Handlers : k # h => handler'[k] = handler[k]
         /\ handler'[h].gone = {} /\ drawn \subseteq drawn' /\ session' = session
         /\ handler'[h].at \in {"read", "create"} =>
              /\ handler'[h].op = "login"
              /\ handler'[h].token \in drawn' \ drawn
         /\ handler'[h].op \in {"logout", "revoke"} => Settled(handler'[h].token)
         /\ handler'[h].at = "delete" => handler'[h].op \in {"logout", "revoke", "others", "admin"}
         /\ handler'[h].token \in Tokens
<1>0. Shapes /\ TokensOnce
  BY DEF Inv
<1>1. session' = session
  BY DEF Arrives
<1>2. ASSUME NEW o, NEW l, NEW t, NEW n, Begins(h, o, l, t, n)
      PROVE  /\ \A k \in Handlers : k # h => handler'[k] = handler[k]
             /\ handler'[h] = [op |-> o, at |-> l, token |-> t, time |-> n, gone |-> {}]
  BY <1>0, <1>2 DEF Begins, Shapes
<1>3. \A t \in Issued : Settled(t) /\ t \in Tokens
  BY <1>0 DEF Issued, Settled, LogsIn, TokensOnce, Shapes
<1>4. CASE LoginArrives(h)
  <2>1. PICK t \in Tokens \ drawn : drawn' = drawn \cup {t} /\ Begins(h, "login", "read", t, 0)
    BY <1>4 DEF LoginArrives
  <2>2. /\ \A k \in Handlers : k # h => handler'[k] = handler[k]
        /\ handler'[h] = [op |-> "login", at |-> "read", token |-> t, time |-> 0, gone |-> {}]
    BY <1>2, <2>1
  <2> QED
    BY <1>1, <2>1, <2>2
<1>5. CASE RequestArrives(h)
  <2>1. UNCHANGED drawn
    BY <1>5 DEF RequestArrives
  <2>2. CASE \E t \in Issued, o \in {"logout", "revoke"} : Begins(h, o, "delete", t, 0)
    <3>1. PICK t \in Issued, o \in {"logout", "revoke"} : Begins(h, o, "delete", t, 0)
      BY <2>2
    <3>2. /\ \A k \in Handlers : k # h => handler'[k] = handler[k]
          /\ handler'[h] = [op |-> o, at |-> "delete", token |-> t, time |-> 0, gone |-> {}]
      BY <1>2, <3>1
    <3> QED
      BY <1>1, <1>3, <2>1, <3>1, <3>2
  <2>3. CASE \E t \in Issued, o \in {"others", "admin"} : Begins(h, o, "delete", t, 0)
    <3>1. PICK t \in Issued, o \in {"others", "admin"} : Begins(h, o, "delete", t, 0)
      BY <2>3
    <3>2. /\ \A k \in Handlers : k # h => handler'[k] = handler[k]
          /\ handler'[h] = [op |-> o, at |-> "delete", token |-> t, time |-> 0, gone |-> {}]
      BY <1>2, <3>1
    <3> QED
      BY <1>1, <1>3, <2>1, <3>1, <3>2
  <2>4. CASE \E t \in Issued, l \in Lifetimes : Begins(h, "settings", "save", t, l)
    <3>1. PICK t \in Issued, l \in Lifetimes : Begins(h, "settings", "save", t, l)
      BY <2>4
    <3>2. /\ \A k \in Handlers : k # h => handler'[k] = handler[k]
          /\ handler'[h] = [op |-> "settings", at |-> "save", token |-> t, time |-> l, gone |-> {}]
      BY <1>2, <3>1
    <3> QED
      BY <1>1, <1>3, <2>1, <3>1, <3>2
  <2> QED
    BY <1>5, <2>2, <2>3, <2>4 DEF RequestArrives
<1>6. CASE ExpiredArrives(h)
  <2>1. PICK t \in Issued : UNCHANGED drawn /\ Begins(h, "visit", "erase", t, 0)
    BY <1>6 DEF ExpiredArrives
  <2>2. /\ \A k \in Handlers : k # h => handler'[k] = handler[k]
        /\ handler'[h] = [op |-> "visit", at |-> "erase", token |-> t, time |-> 0, gone |-> {}]
    BY <1>2, <2>1
  <2> QED
    BY <1>1, <1>3, <2>1, <2>2
<1> QED
  BY <1>4, <1>5, <1>6 DEF Arrives

LEMMA TokensStep ==
  ASSUME Inv, [Next]_vars
  PROVE  TokensOnce'
<1>0. Shapes /\ TokensOnce /\ \A t \in Tokens : Settled(t) => Settled(t)'
  BY SettledStays DEF Inv
<1>1. ASSUME NEW h \in Handlers, Arrives(h) PROVE TokensOnce'
  <2>1. /\ \A k \in Handlers : k # h => handler'[k] = handler[k]
        /\ drawn \subseteq drawn' /\ session' = session
        /\ handler'[h].at \in {"read", "create"} =>
             handler'[h].op = "login" /\ handler'[h].token \in drawn' \ drawn
        /\ handler'[h].op \in {"logout", "revoke"} => Settled(handler'[h].token)
        /\ handler'[h].at = "delete" => handler'[h].op \in {"logout", "revoke", "others", "admin"}
        /\ handler'[h].token \in Tokens
    BY <1>1, Arrival
  <2>2. \A k \in Handlers, t \in Tokens :
          LogsIn(k, t)' => (k # h /\ LogsIn(k, t)) \/ (k = h /\ t \in drawn' \ drawn)
    <3>1. ASSUME NEW t \in Tokens, LogsIn(h, t)' PROVE t \in drawn' \ drawn
      BY <2>1, <3>1 DEF LogsIn
    <3>2. ASSUME NEW k \in Handlers, NEW t \in Tokens, LogsIn(k, t)', k # h PROVE LogsIn(k, t)
      BY <2>1, <3>2 DEF LogsIn
    <3> QED
      BY <3>1, <3>2
  <2>3. /\ \A k \in Handlers, t \in Tokens : LogsIn(k, t)' => t \in drawn'
        /\ \A k, j \in Handlers, t \in Tokens : LogsIn(k, t)' /\ LogsIn(j, t)' => k = j
    BY <1>0, <2>1, <2>2 DEF TokensOnce
  <2>4. \A t \in Tokens : session'[t] # NoSession => Settled(t)'
    BY <1>0, <2>1 DEF TokensOnce
  <2>5. ASSUME NEW k \in Handlers, handler'[k].op \in {"logout", "revoke"}
        PROVE  Settled(handler[k].token)'
    <3>1. CASE k = h
      <4>1. PICK t \in Tokens : t = handler'[h].token /\ Settled(t)
        BY <2>1, <2>5, <3>1
      <4>2. Settled(t)'
        BY <1>0, <4>1
      <4> QED
        BY <3>1, <4>1, <4>2
    <3>2. CASE k # h
      <4>1. handler'[k] = handler[k] /\ handler[k].token \in Tokens /\ Settled(handler[k].token)
        BY <1>0, <2>1, <2>5, <3>2 DEF TokensOnce, Shapes, Requests
      <4> QED
        BY <1>0, <4>1
    <3> QED
      BY <3>1, <3>2
  <2>6. ASSUME NEW k \in Handlers
        PROVE  /\ handler'[k].at \in {"read", "create"} => handler'[k].op = "login"
               /\ handler'[k].at = "delete" =>
                    handler'[k].op \in {"logout", "revoke", "others", "admin"}
    BY <1>0, <2>1 DEF TokensOnce
  <2> QED
    BY <2>3, <2>4, <2>5, <2>6 DEF TokensOnce
<1>2. ASSUME NEW h \in Handlers, Handle(h) PROVE TokensOnce'
  <2>1. GoesOn(h) /\ NoRequest.at = "idle" /\ NoRequest.op = "none"
    BY <1>0, <1>2, StepOfRequest, Idle
  <2>2. ASSUME NEW t \in Tokens, session'[t] # NoSession PROVE Settled(t)'
    <3>1. CASE session[t] # NoSession
      BY <1>0, <3>1 DEF TokensOnce
    <3>2. CASE session[t] = NoSession
      <4>1. LoginCreates(h) /\ handler[h].token = t /\ handler'[h].at = "done"
        BY <1>0, <1>2, <2>2, <3>2 DEF Handle, LoginReads, LoginCreates, ErasesExpired, Deletes, Saves,
           Applies, Invalidates, Refreshes, Answers, Shapes, Requests, Goto
      <4>2. LogsIn(h, t)
        BY <4>1 DEF LoginCreates, LogsIn
      <4> QED
        BY <1>0, <2>1, <4>1, <4>2 DEF TokensOnce, Settled, LogsIn, GoesOn
    <3> QED
      BY <3>1, <3>2
  <2>3. ASSUME NEW k \in Handlers, handler'[k].op \in {"logout", "revoke"}
        PROVE  Settled(handler[k].token)'
    <3>1. handler'[k].op = handler[k].op /\ handler'[k].token = handler[k].token
      BY <2>1, <2>3 DEF GoesOn
    <3>2. Settled(handler[k].token) /\ handler[k].token \in Tokens
      BY <1>0, <2>3, <3>1 DEF TokensOnce, Shapes, Requests
    <3>3. PICK t \in Tokens : t = handler'[k].token /\ Settled(t)
      BY <3>1, <3>2
    <3>4. Settled(t)'
      BY <1>0, <3>3
    <3> QED
      BY <3>3, <3>4
  <2>4. ASSUME NEW k \in Handlers
        PROVE  /\ handler'[k].at \in {"read", "create"} => handler'[k].op = "login"
               /\ handler'[k].at = "delete" =>
                    handler'[k].op \in {"logout", "revoke", "others", "admin"}
    BY <1>0, <2>1 DEF TokensOnce, GoesOn
  <2>5. /\ \A k \in Handlers, t \in Tokens : LogsIn(k, t)' => LogsIn(k, t)
        /\ drawn' = drawn
    BY <2>1 DEF LogsIn, GoesOn
  <2> QED
    BY <1>0, <2>2, <2>3, <2>4, <2>5 DEF TokensOnce
<1>3. ASSUME UNCHANGED <<drawn, handler>>, \A t \in Tokens : session'[t] = session[t] \/ session'[t] = NoSession
      PROVE  TokensOnce'
  BY <1>0, <1>3 DEF TokensOnce, LogsIn, Settled
<1>4. CASE \E t \in Tokens : Connects(t) \/ Socket(t) \/ Disconnects(t)
  BY <1>0, <1>3, <1>4 DEF Socket, Connects, Validates, ValidationErases, Caches, Pushes, Disconnects,
     pushRest, Shapes
<1>5. CASE Prune
  BY <1>0, <1>3, <1>5 DEF Prune, rest
<1>6. CASE Tick \/ UNCHANGED vars
  BY <1>3, <1>6 DEF Tick, vars
<1> QED
  BY <1>1, <1>2, <1>4, <1>5, <1>6 DEF Next

\* A request keeps what it has deleted, and is not past its invalidation unless it was
Keeps(k) ==
  /\ handler'[k].gone = handler[k].gone
  /\ handler'[k].op = handler[k].op /\ handler'[k].token = handler[k].token
  /\ handler'[k].at # "invalidate" => handler[k].at # "invalidate"

\* What the deletion of a request names is settled, and has no session after it.
LEMMA DeletesDead ==
  ASSUME Inv, [Next]_vars, NEW h \in Handlers, Deletes(h)
  PROVE  \/ Keeps(h)
         \/ /\ handler'[h].at = "invalidate"
            /\ \A t \in handler'[h].gone : Dead(t)' /\ t \in Forgotten(handler'[h])
<1>0. /\ Shapes /\ TokensOnce /\ \A t \in Tokens : Settled(t) => Settled(t)'
      /\ handler[h].at = "delete" /\ handler[h].token \in Tokens
      /\ handler[h].op \in {"logout", "revoke", "others", "admin"}
  BY SettledStays DEF Inv, Deletes, TokensOnce, Shapes, Requests
<1> DEFINE G == IF handler[h].op \in {"others", "admin"}
                THEN {t \in Tokens : session[t] # NoSession} \ {handler[h].token}
                ELSE {handler[h].token}
<1>1. CASE Goto(h, "invalidate") \/ Goto(h, "failed")
  BY <1>0, <1>1 DEF Goto, Shapes, Requests, Keeps
<1>2. CASE /\ session' = [t \in Tokens |-> IF t \in G THEN NoSession ELSE session[t]]
           /\ handler' = [handler EXCEPT ![h] = [@ EXCEPT !.at = "invalidate", !.gone = G]]
  <2>1. /\ handler'[h].at = "invalidate" /\ handler'[h].gone = G
        /\ handler'[h].op = handler[h].op /\ handler'[h].token = handler[h].token
    BY <1>0, <1>2 DEF Shapes, Requests
  <2>2. ASSUME NEW t \in G PROVE Dead(t)' /\ t \in Forgotten(handler'[h])
    <3>1. CASE handler[h].op \in {"others", "admin"}
      <4>1. t \in Tokens /\ session[t] # NoSession /\ t # handler[h].token
        BY <3>1
      <4>2. Settled(t)' /\ session'[t] = NoSession
        BY <1>0, <1>2, <4>1 DEF TokensOnce
      <4>3. Forgotten(handler'[h]) = Tokens \ {handler[h].token}
        BY <2>1, <3>1 DEF Forgotten
      <4> QED
        BY <4>1, <4>2, <4>3 DEF Dead
    <3>2. CASE handler[h].op \in {"logout", "revoke"}
      <4>1. t = handler[h].token /\ t \in Tokens
        BY <1>0, <3>2
      <4>2. Settled(t)' /\ session'[t] = NoSession
        BY <1>0, <1>2, <3>2, <4>1 DEF TokensOnce
      <4>3. Forgotten(handler'[h]) = {handler[h].token}
        BY <2>1, <3>2 DEF Forgotten
      <4> QED
        BY <4>1, <4>2, <4>3 DEF Dead
    <3> QED
      BY <1>0, <3>1, <3>2
  <2> QED
    BY <2>1, <2>2
<1> QED
  BY <1>0, <1>1, <1>2 DEF Deletes

\* After the invalidation nothing says that what is gone is valid.
LEMMA InvalidatesClean ==
  ASSUME Inv, NobodyAssumption, NEW h \in Handlers, Invalidates(h)
  PROVE  /\ handler'[h].gone = handler[h].gone /\ handler'[h].op = handler[h].op
         /\ handler'[h].token = handler[h].token
         /\ \A t \in handler[h].gone : Clean(t)'
<1>0. Shapes /\ DeletedIsDead /\ Mutex /\ handler[h].gone \subseteq Tokens
  BY DEF Inv, Shapes, Requests
<1>1. /\ handler'[h].gone = handler[h].gone /\ handler'[h].op = handler[h].op
      /\ handler'[h].token = handler[h].token
  BY <1>0 DEF Invalidates, Goto, Shapes, Requests
<1>2. ASSUME NEW t \in handler[h].gone PROVE Clean(t)'
  <2>1. t \in Forgotten(handler[h]) /\ t \in Tokens
    BY <1>0 DEF DeletedIsDead
  <2>2. cache'[t].valid # "yes"
    BY <2>1 DEF Invalidates, NoEntry
  <2>3. socket'[t].at # "live"
    BY <1>0, <2>1 DEF Invalidates, Mutex, Validating, NobodyAssumption
  <2> QED
    BY <2>2, <2>3 DEF Clean
<1> QED
  BY <1>1, <1>2

LEMMA DeletedStep ==
  ASSUME Inv, NobodyAssumption, [Next]_vars
  PROVE  DeletedIsDead'
<1>0. /\ Shapes /\ DeletedIsDead
      /\ \A t \in Tokens : Dead(t) => Dead(t)'
      /\ \A t \in Tokens : Dead(t) /\ Clean(t) => Clean(t)'
      /\ \A h \in Handlers : handler[h].gone \subseteq Tokens
  BY DeadStays, CleanStays DEF Inv, Shapes, Requests
<1> DEFINE Good(k) == \A t \in handler'[k].gone :
                        /\ Dead(t)' /\ t \in Forgotten(handler'[k])
                        /\ handler'[k].at # "invalidate" => Clean(t)'
<1>1. ASSUME NEW k \in Handlers, Keeps(k) PROVE Good(k)
  <2> SUFFICES ASSUME NEW t \in handler'[k].gone
               PROVE  /\ Dead(t)' /\ t \in Forgotten(handler'[k])
                      /\ handler'[k].at # "invalidate" => Clean(t)'
    OBVIOUS
  <2>1. Dead(t) /\ t \in Tokens /\ t \in Forgotten(handler[k])
        /\ (handler[k].at # "invalidate" => Clean(t))
    BY <1>0, <1>1 DEF DeletedIsDead, Keeps
  <2>2. Forgotten(handler'[k]) = Forgotten(handler[k])
    BY <1>1 DEF Forgotten, Keeps
  <2> QED
    BY <1>0, <1>1, <2>1, <2>2 DEF Keeps
<1>2. ASSUME NEW k \in Handlers, handler'[k] = handler[k] PROVE Good(k)
  BY <1>1, <1>2 DEF Keeps
<1>3. ASSUME NEW h \in Handlers, Arrives(h), NEW k \in Handlers PROVE Good(k)
  BY <1>2, <1>3, Arrival
<1>4. ASSUME NEW h \in Handlers, Handle(h) PROVE Good(h)
  <2>1. ASSUME NEW l \in Places, Goto(h, l), handler[h].at # "invalidate" PROVE Good(h)
    <3>1. Keeps(h)
      BY <1>0, <2>1 DEF Goto, Shapes, Requests, Keeps
    <3> QED
      BY <1>1, <3>1
  <2>2. CASE LoginReads(h)
    <3>1. Keeps(h)
      BY <1>0, <2>2 DEF LoginReads, Shapes, Requests, Keeps
    <3> QED
      BY <1>1, <3>1
  <2>3. CASE LoginCreates(h) \/ ErasesExpired(h) \/ Saves(h) \/ Applies(h) \/ Refreshes(h)
    BY <2>1, <2>3 DEF LoginCreates, ErasesExpired, Saves, Applies, Refreshes, Places
  <2>4. CASE Deletes(h)
    BY <1>1, <2>4, DeletesDead
  <2>5. CASE Invalidates(h)
    <3>1. /\ handler'[h].gone = handler[h].gone /\ handler'[h].op = handler[h].op
          /\ handler'[h].token = handler[h].token /\ \A t \in handler[h].gone : Clean(t)'
      BY <2>5, InvalidatesClean
    <3>2. Forgotten(handler'[h]) = Forgotten(handler[h])
      BY <3>1 DEF Forgotten
    <3>3. \A t \in handler[h].gone : Dead(t)' /\ t \in Forgotten(handler[h])
      BY <1>0 DEF DeletedIsDead
    <3> QED
      BY <3>1, <3>2, <3>3
  <2>6. CASE Answers(h)
    <3>1. handler'[h] = NoRequest /\ NoRequest.gone = {}
      BY <1>0, <2>6, Idle DEF Answers, Shapes
    <3> QED
      BY <3>1
  <2> QED
    BY <1>4, <2>2, <2>3, <2>4, <2>5, <2>6 DEF Handle
<1>5. ASSUME NEW h \in Handlers, Handle(h), NEW k \in Handlers PROVE Good(k)
  <2>1. GoesOn(h)
    BY <1>0, <1>5, StepOfRequest
  <2>2. CASE k = h
    BY <1>4, <1>5, <2>2
  <2>3. CASE k # h
    BY <1>2, <2>1, <2>3 DEF GoesOn
  <2> QED
    BY <2>2, <2>3
<1>6. ASSUME UNCHANGED handler, NEW k \in Handlers PROVE Good(k)
  BY <1>2, <1>6
<1>7. \A k \in Handlers : Good(k)
  BY <1>3, <1>5, <1>6 DEF Next, Socket, Connects, Validates, ValidationErases, Caches, Pushes,
     Disconnects, Prune, Tick, vars, pushRest
<1> QED
  BY <1>7 DEF DeletedIsDead

LEMMA RevokedStep ==
  ASSUME Inv, [Next]_vars
  PROVE  RevokedIsDead'
<1>0. /\ Shapes /\ DeletedIsDead /\ RevokedIsDead
      /\ \A t \in Tokens : Dead(t) => Dead(t)'
      /\ \A t \in Tokens : Dead(t) /\ Clean(t) => Clean(t)'
  BY DeadStays, CleanStays DEF Inv
<1>1. ASSUME NEW t \in revoked' PROVE t \in Tokens /\ Dead(t) /\ Clean(t)
  <2>1. CASE t \in revoked
    BY <1>0, <2>1 DEF RevokedIsDead
  <2>2. CASE \E h \in Handlers : Answers(h) /\ t \in handler[h].gone
    BY <1>0, <2>2 DEF Answers, DeletedIsDead, Shapes, Requests
  <2>3. revoked' = revoked \/ \E h \in Handlers : Answers(h) /\ revoked' = revoked \cup handler[h].gone
    BY DEF Next, Arrives, Handle, LoginReads, LoginCreates, ErasesExpired, Deletes, Saves, Applies,
       Invalidates, Refreshes, Answers, Socket, Connects, Validates, ValidationErases, Caches,
       Pushes, Disconnects, Prune, Tick, vars, pushRest, rest, observers
  <2> QED
    BY <2>1, <2>2, <2>3
<1> QED
  BY <1>0, <1>1 DEF RevokedIsDead

LEMMA MutexStep ==
  ASSUME Inv, NobodyAssumption, [Next]_vars
  PROVE  Mutex'
<1>0. Shapes /\ Mutex
  BY DEF Inv
<1>1. ASSUME NEW u \in Tokens, NEW l \in Stages \ Validating, At(u, l), UNCHANGED holder PROVE Mutex'
  BY <1>0, <1>1 DEF At, Mutex, Shapes, Sockets
<1>2. ASSUME NEW u \in Tokens, Connects(u) \/ Pushes(u) \/ Disconnects(u) PROVE Mutex'
  BY <1>1, <1>2 DEF Connects, Pushes, Disconnects, Stages, Validating
<1>3. ASSUME NEW u \in Tokens, Validates(u) PROVE Mutex'
  <2>1. CASE (At(u, "push") \/ At(u, "closed")) /\ UNCHANGED holder
    BY <1>1, <2>1 DEF Stages, Validating
  <2>2. CASE /\ holder' = u
             /\ \A t \in Tokens : t # u => socket'[t] = socket[t]
    <3>1. \A t \in Tokens : socket[t].at \notin Validating
      BY <1>0, <1>3 DEF Validates, Mutex, NobodyAssumption
    <3> QED
      BY <2>2, <3>1 DEF Mutex
  <2> QED
    BY <1>0, <1>3, <2>1, <2>2 DEF Validates, Shapes
<1>4. ASSUME NEW u \in Tokens, ValidationErases(u) PROVE Mutex'
  BY <1>0, <1>4 DEF ValidationErases, At, Mutex, Shapes, Sockets, Validating
<1>5. ASSUME NEW u \in Tokens, Caches(u) PROVE Mutex'
  BY <1>0, <1>5 DEF Caches, Mutex, Shapes, Sockets, Validating
<1>6. ASSUME UNCHANGED <<socket, holder>> PROVE Mutex'
  BY <1>0, <1>6 DEF Mutex
<1>7. ASSUME NEW h \in Handlers, Handle(h) PROVE Mutex'
  BY <1>0, <1>6, <1>7, StepOfRequest DEF GoesOn
<1>8. ASSUME NEW h \in Handlers, Arrives(h) PROVE Mutex'
  BY <1>6, <1>8 DEF Arrives, pushes
<1> QED
  BY <1>2, <1>3, <1>4, <1>5, <1>6, <1>7, <1>8 DEF Next, Socket, Prune, Tick, vars, pushes, rest

LEMMA StepInv == SessionAssumption /\ NobodyAssumption /\ Inv /\ [Next]_vars => Inv'
<1> SUFFICES ASSUME SessionAssumption, NobodyAssumption, Inv, [Next]_vars PROVE Inv'
  OBVIOUS
<1>1. Shapes'
  BY ShapesStep DEF Inv
<1> QED
  BY <1>1, TokensStep, DeletedStep, RevokedStep, MutexStep DEF Inv

\* webui/server.go:228-230: once a revocation has been answered, the session is gone for
\* good, and neither a cached validation nor one under way finds it valid; for whatever
\* logins, logouts, revocations, settings, expiries and pushes go on beside it.
THEOREM SessionsRevokedStays ==
  ASSUME SessionAssumption, NobodyAssumption PROVE Spec => []RevokedStays
<1>1. Init => Inv
  BY InitInv
<1>2. Inv /\ [Next]_vars => Inv'
  BY StepInv
<1>3. Inv => RevokedStays
  BY InvImplies
<1> QED
  BY <1>1, <1>2, <1>3, PTL DEF Spec

-----------------------------------------------------------------------------
(* The update agent                                                        *)

\* The shape of the agent's and the calls' state, as far as the steps read it
UpdateTypes ==
  /\ agent \in {"down", "serving", "exiting"} /\ busy \in BOOLEAN
  /\ status \in Update!States /\ seen \in [Calls -> Update!States]
  /\ updateHandler \in [Calls -> {"none", "received", "queueing"}]
  /\ answer \in [Calls -> {"none", "ok", "busy", "rejected"}]
  /\ job \in [Calls -> Update!Jobs \cup {"none", "over"}]
  /\ call \in [Calls -> Update!Returned \cup {"ready", "deciding", "sending"}]

\* A call has the agent: it is about to queue its update, or its update is not over
Owns(c) == updateHandler[c] = "queueing" \/ job[c] \in Update!Jobs

\* The flag is set as long as a call has the agent, and one has it at a time
OneOwner ==
  /\ \A c \in Calls : Owns(c) => busy
  /\ \A c, d \in Calls : Owns(c) /\ Owns(d) => c = d

\* While an update sleeps or runs, the status says that one is in progress
InProgress == \A c \in Calls : job[c] \in {"sleeping", "running"} => status \in Update!InProgress

\* What was done for a call, and what it was or will be told
Told(c) ==
  /\ call[c] \in {"ready", "deciding", "inProgress", "unsupported", "noUpdate"} => c \notin started
  /\ call[c] \in {"ready", "deciding"} => updateHandler[c] = "none" /\ answer[c] = "none"
  /\ call[c] \in {"inProgress", "unsupported", "noUpdate"} => updateHandler[c] = "none"
  /\ updateHandler[c] # "none" => c \notin started /\ answer[c] = "none"
  /\ answer[c] = "ok" <=> c \in started
  /\ c \notin started => job[c] = "none"
  /\ call[c] = "scheduled" => c \in started

UpdateInv == UpdateTypes /\ OneOwner /\ InProgress /\ \A c \in Calls : Told(c)

LEMMA UpdateStarts == Update!Init => UpdateInv
BY DEF Update!Init, UpdateInv, UpdateTypes, OneOwner, Owns, InProgress, Told, Update!States,
  Update!Jobs, Update!Returned

LEMMA CallerKeeps ==
  ASSUME UpdateInv, NEW c \in Calls,
         Update!ReadsStatus(c) \/ Update!Decides(c) \/ Update!Receives(c)
  PROVE UpdateInv'
<1>1. CASE Update!ReadsStatus(c)
  BY <1>1 DEF Update!ReadsStatus, Update!process, Update!files, UpdateInv, UpdateTypes, OneOwner,
     Owns, InProgress, Told, Update!States, Update!Jobs, Update!Returned
<1>2. CASE Update!Decides(c)
  BY <1>2 DEF Update!Decides, Update!files, UpdateInv, UpdateTypes, OneOwner,
     Owns, InProgress, Told, Update!Jobs, Update!Returned, Update!InProgress
<1>3. CASE Update!Receives(c)
  BY <1>3 DEF Update!Receives, Update!process, Update!files, UpdateInv, UpdateTypes, OneOwner,
     Owns, InProgress, Told, Update!States, Update!Jobs, Update!Returned
<1> QED BY <1>1, <1>2, <1>3

LEMMA HandlesKeeps == ASSUME UpdateInv, NEW c \in Calls, Update!Handles(c) PROVE UpdateInv'
<1>1. CASE busy
  BY <1>1 DEF Update!Handles, Update!Answers, Update!files, UpdateInv, UpdateTypes, OneOwner,
     Owns, InProgress, Told, Update!States, Update!Jobs, Update!Returned
<1>2. CASE ~busy
  <2>1. /\ updateHandler[c] = "received" /\ updateHandler' = [updateHandler EXCEPT ![c] = "queueing"]
        /\ busy' = TRUE /\ UNCHANGED <<agent, job, status, call, seen, started, answer>>
    BY <1>2 DEF Update!Handles, Update!Answers, Update!files
  <2>2. \A d \in Calls : ~Owns(d)
    BY <1>2 DEF UpdateInv, OneOwner
  <2>3. UpdateTypes' /\ InProgress' /\ \A d \in Calls : Told(d)'
    BY <2>1 DEF UpdateInv, UpdateTypes, InProgress, Told
  <2>4. OneOwner'
    BY <2>1, <2>2 DEF UpdateInv, UpdateTypes, OneOwner, Owns
  <2> QED BY <2>3, <2>4 DEF UpdateInv
<1> QED BY <1>1, <1>2

LEMMA QueuesKeeps == ASSUME UpdateInv, NEW c \in Calls, Update!Queues(c) PROVE UpdateInv'
<1>1. /\ updateHandler[c] = "queueing" /\ updateHandler' = [updateHandler EXCEPT ![c] = "none"]
      /\ UNCHANGED <<agent, call, seen>>
  BY DEF Update!Queues, Update!Answers, Update!clients
<1>2. \A d \in Calls : Owns(d) => d = c
  BY <1>1 DEF UpdateInv, OneOwner, Owns
<1>3. CASE answer' = [answer EXCEPT ![c] = "ok"] /\ status' = "queued" /\ Update!Starts(c) /\ busy' = busy
  BY <1>1, <1>2, <1>3 DEF Update!Starts, UpdateInv, UpdateTypes, OneOwner,
     Owns, InProgress, Told, Update!States, Update!Jobs, Update!Returned, Update!InProgress
<1>4. CASE answer' = [answer EXCEPT ![c] = "rejected"] /\ busy' = FALSE /\ UNCHANGED <<status, job, started>>
  <2>1. UpdateTypes' /\ InProgress'
    BY <1>1, <1>4 DEF UpdateInv, UpdateTypes, InProgress
  <2>2. \A d \in Calls : Told(d)'
    BY <1>1, <1>4 DEF UpdateInv, UpdateTypes, Told
  <2>3. job[c] \notin Update!Jobs
    BY <1>1 DEF UpdateInv, Told, Update!Jobs
  <2>4. \A d \in Calls : ~Owns(d)'
    BY <1>1, <1>2, <1>4, <2>3 DEF UpdateInv, UpdateTypes, Owns
  <2> QED BY <2>1, <2>2, <2>4 DEF UpdateInv, OneOwner
<1> QED BY <1>3, <1>4 DEF Update!Queues, Update!Answers

\* performUpdate
LEMMA JobKeeps ==
  ASSUME UpdateInv, NEW c \in Calls, Update!Runs(c) \/ Update!Installs(c) \/ Update!Records(c)
  PROVE UpdateInv'
<1>1. /\ UNCHANGED <<busy, updateHandler, call, seen, answer, started>>
      /\ job[c] \in Update!Jobs
  BY DEF Update!Runs, Update!Installs, Update!Records, Update!clients, Update!Jobs
<1>2. \A d \in Calls : Owns(d) => d = c
  BY <1>1 DEF UpdateInv, OneOwner, Owns
<1>3. CASE Update!Runs(c)
  BY <1>1, <1>2, <1>3 DEF Update!Runs, Update!Writes, UpdateInv, UpdateTypes, OneOwner,
     Owns, InProgress, Told, Update!States, Update!Jobs, Update!Returned, Update!InProgress
<1>4. CASE Update!Installs(c)
  BY <1>1, <1>2, <1>4 DEF Update!Installs, Update!files, UpdateInv, UpdateTypes, OneOwner,
     Owns, InProgress, Told, Update!States, Update!Jobs, Update!Returned
<1>5. CASE Update!Records(c)
  BY <1>1, <1>2, <1>5 DEF Update!Records, Update!Writes, UpdateInv, UpdateTypes, OneOwner,
     Owns, InProgress, Told, Update!States, Update!Jobs, Update!Returned
<1> QED BY <1>3, <1>4, <1>5

LEMMA ProcessKeeps ==
  ASSUME UpdateInv, Update!Exits \/ Update!Dies \/ Update!Serves PROVE UpdateInv'
<1>1. CASE Update!Ends
  BY <1>1 DEF Update!Ends, Update!clients, UpdateInv, UpdateTypes, OneOwner, Owns, InProgress, Told,
     Update!States, Update!Jobs, Update!Returned
<1>2. CASE Update!Serves
  BY <1>2 DEF Update!Serves, Update!clients, Update!files, UpdateInv, UpdateTypes, OneOwner, Owns,
     InProgress, Told, Update!States, Update!Jobs, Update!Returned
<1> QED BY <1>1, <1>2 DEF Update!Exits, Update!Dies

LEMMA UpdateStep == UpdateInv /\ [Update!Next]_updateVars => UpdateInv'
<1> SUFFICES ASSUME UpdateInv, [Update!Next]_updateVars PROVE UpdateInv'
  OBVIOUS
<1>1. CASE UNCHANGED updateVars
  BY <1>1 DEF updateVars, UpdateInv, UpdateTypes, OneOwner, Owns, InProgress, Told
<1> QED
  BY <1>1, CallerKeeps, HandlesKeeps, QueuesKeeps, JobKeeps, ProcessKeeps
  DEF Update!Next, Update!Works

LEMMA UpdateCardinality == \A S : Update!Cardinality(S) = Cardinality(S)
BY DEF Update!Cardinality, Cardinality

LEMMA UpdateOrder ==
  UpdateInv => Update!OneUpdate /\ Update!ProgressShown /\ Update!AnswerTrue
<1> SUFFICES ASSUME UpdateInv PROVE Update!OneUpdate /\ Update!ProgressShown /\ Update!AnswerTrue
  OBVIOUS
<1>1. \A c \in Update!Active : c \in Calls /\ Owns(c)
  BY DEF Update!Active, Owns, Update!Jobs
<1>2. Update!OneUpdate
  <2>1. CASE Update!Active = {}
    BY <2>1, FS_EmptySet, UpdateCardinality DEF Update!OneUpdate
  <2>2. CASE Update!Active # {}
    <3>1. PICK c \in Update!Active : TRUE
      BY <2>2
    <3>2. Update!Active = {c}
      BY <1>1, <3>1 DEF UpdateInv, OneOwner
    <3> QED BY <3>2, FS_Singleton, UpdateCardinality DEF Update!OneUpdate
  <2> QED BY <2>1, <2>2
<1>3. Update!ProgressShown
  BY DEF Update!ProgressShown, Update!Active, UpdateInv, InProgress
<1>4. Update!AnswerTrue
  BY DEF Update!AnswerTrue, UpdateInv, Told
<1> QED BY <1>2, <1>3, <1>4

\* Whatever order calls, the job and the restart of the service come in: one update at a time,
\* and what a call is told is what was done for it (selfupdate/agent.go:110-222).
THEOREM WebUpdateInOrder == WebSpec => []UpdateInOrder
<1>1. WebInit => (subject = "update" => UpdateInv)
  BY UpdateStarts DEF WebInit
<1>2. (subject = "update" => UpdateInv) /\ [WebNext]_allVars => (subject = "update" => UpdateInv)'
  BY UpdateStep DEF WebNext, allVars
<1>3. (subject = "update" => UpdateInv) => UpdateInOrder
  BY UpdateOrder DEF UpdateInOrder
<1> QED BY <1>1, <1>2, <1>3, PTL DEF WebSpec
=============================================================================
