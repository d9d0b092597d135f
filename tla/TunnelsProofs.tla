--------------------------- MODULE TunnelsProofs ---------------------------
(***************************************************************************)
(* Proofs about what carries the connections of a session, for any number  *)
(* of connections, calls and peers.  The components are the instances of   *)
(* MCTunnels: Http is HttpDrain, Bind is BindAccept and Relay is Relay.    *)
(***************************************************************************)
EXTENDS MCTunnels, FiniteSetTheorems, SequenceTheorems, TLAPS

-----------------------------------------------------------------------------
(* The HTTP server                                                         *)

HttpTypes ==
  /\ at \in [Conns -> Http!Places]
  /\ open \subseteq Conns
  /\ active = Http!At({"tunnel"})
  /\ upstream \subseteq Http!At({"dialled", "hijacked", "tunnel"})
  /\ call \in [Http!Callers -> {"ready", "shutdown", "marking", "waiting",
                               "close", "httpClose", "joining", "returned"}]
  /\ handlerDone \in [Http!Callers -> {"none", "open", "closed"}]

\* The handlers under way are finitely many, and counted one by one.
Counted ==
  /\ IsFiniteSet(Http!At(Http!Handled))
  /\ handlerCount = Cardinality(Http!At(Http!Handled))

\* A call has set closing before it waits, and what tells it that it may return is said
\* when there is no handler; from then on none begins.
DoneMeansDone ==
  \A k \in Http!Callers :
    /\ handlerDone[k] # "none" => closing
    /\ handlerDone[k] = "closed" => handlerCount = 0
    /\ call[k] = "returned" => handlerDone[k] = "closed"

\* Who closes what is in progress is Close, or a drain whose deadline has passed.
OnlyForced ==
  \A k \in Http!Callers :
    call[k] \in {"close", "httpClose", "joining"} => k \in Closers \/ k \in expired

HttpInv == HttpTypes /\ Counted /\ DoneMeansDone /\ OnlyForced

LEMMA HttpStart == Http!Init => HttpInv
<1> SUFFICES ASSUME Http!Init PROVE HttpInv
  OBVIOUS
<1>1. \A S : "away" \notin S => Http!At(S) = {}
  BY DEF Http!Init, Http!At
<1>2. Http!At(Http!Handled) = {} /\ Http!At({"tunnel"}) = {}
  BY <1>1 DEF Http!Handled
<1>3. IsFiniteSet({}) /\ Cardinality({}) = 0
  BY FS_EmptySet
<1>4. HttpTypes
  BY <1>2 DEF Http!Init, HttpTypes, Http!Places, Http!Handled
<1> QED
  BY <1>2, <1>3, <1>4 DEF HttpInv, Counted, DoneMeansDone, OnlyForced, Http!Init

\* A connection that moves enters or leaves the set of every stage.
LEMMA AtMoves ==
  ASSUME HttpTypes, NEW c \in Conns, NEW l, at' = [at EXCEPT ![c] = l]
  PROVE  \A S : Http!At(S)' = IF l \in S THEN Http!At(S) \cup {c} ELSE Http!At(S) \ {c}
BY DEF HttpTypes, Http!At

LEMMA AtStays ==
  ASSUME at' = at PROVE \A S : Http!At(S)' = Http!At(S)
BY DEF Http!At

\* What a step does to a connection: it moves, begins work only before closing, keeps its tunnel's place in the list and its
\* upstream in step, and is counted when it gets among the handlers and when it leaves them.
Moved(c, l) ==
  /\ at' = [at EXCEPT ![c] = l]
  /\ l \in Http!Places
  /\ open' \subseteq open \cup {c}
  /\ active' = (IF l = "tunnel" THEN active \cup {c} ELSE active \ {c})
  /\ upstream' = (IF l = "dialled" THEN upstream \cup {c}
                 ELSE IF l \in {"hijacked", "tunnel"} THEN upstream ELSE upstream \ {c})
  /\ l \in {"hijacked", "tunnel"} => at[c] \in {"dialled", "hijacked", "tunnel"}
  /\ l \in {"plain", "tunnel"} => ~closing
  /\ UNCHANGED <<serve, inShutdown, closing, call, expired>>
  /\ \/ /\ (l \in Http!Handled <=> at[c] \in Http!Handled)
        /\ UNCHANGED <<handlerCount, handlerDone>>
     \/ /\ l \in Http!Handled /\ at[c] \notin Http!Handled /\ ~closing
        /\ handlerCount' = handlerCount + 1 /\ UNCHANGED handlerDone
     \/ /\ l \notin Http!Handled /\ at[c] \in Http!Handled
        /\ handlerCount' = handlerCount - 1 /\ Http!Signal(handlerCount - 1)

LEMMA ConnectionsMove ==
  ASSUME HttpInv, NEW c \in Conns,
         \/ Http!Arrives(c) \/ Http!Leaves(c) \/ Http!Begin(c, "plain") \/ Http!Begin(c, "dialing")
         \/ Http!PlainEnds(c, "idle") \/ Http!PlainEnds(c, "gone") \/ Http!Dialled(c)
         \/ Http!DialFails(c, "idle") \/ Http!DialFails(c, "gone")
         \/ Http!Hijack(c) \/ Http!Track(c) \/ Http!TunnelEnds(c) \/ Http!ConnectEnds(c)
  PROVE  \E l : Moved(c, l)
<1>0. /\ at \in [Conns -> Http!Places] /\ active = Http!At({"tunnel"})
      /\ upstream \subseteq Http!At({"dialled", "hijacked", "tunnel"})
  BY DEF HttpInv, HttpTypes
<1>1. /\ c \in active => at[c] = "tunnel"
      /\ c \in upstream => at[c] \in {"dialled", "hijacked", "tunnel"}
  BY <1>0 DEF Http!At
<1> USE <1>1 DEF Moved, Http!Places, Http!Handled, Http!server, Http!calls
<1>2. CASE Http!Arrives(c)
  <2>1. Moved(c, "new")
    BY <1>2 DEF Http!Arrives
  <2> QED
    BY <2>1
<1>3. CASE Http!Leaves(c)
  <2>1. Moved(c, "gone")
    BY <1>3 DEF Http!Leaves
  <2> QED
    BY <2>1
<1>4. CASE Http!Begin(c, "plain")
  <2>1. Moved(c, "refusing") \/ Moved(c, "plain")
    BY <1>4 DEF Http!Begin
  <2> QED
    BY <2>1
<1>5. CASE Http!Begin(c, "dialing")
  <2>1. Moved(c, "refusing") \/ Moved(c, "dialing")
    BY <1>5 DEF Http!Begin
  <2> QED
    BY <2>1
<1>6. ASSUME NEW place \in {"idle", "gone"}, Http!PlainEnds(c, place) \/ Http!DialFails(c, place)
      PROVE  \E l : Moved(c, l)
  <2>1. Moved(c, place)
    BY <1>6 DEF Http!PlainEnds, Http!DialFails, Http!End
  <2> QED
    BY <2>1
<1>7. CASE Http!Dialled(c)
  <2>1. Moved(c, "dialled")
    BY <1>7 DEF Http!Dialled
  <2> QED
    BY <2>1
<1>8. CASE Http!Hijack(c)
  <2>1. Moved(c, "hijacked")
    BY <1>8 DEF Http!Hijack
  <2> QED
    BY <2>1
<1>9. CASE Http!Track(c)
  <2>1. Moved(c, "tunnel") \/ Moved(c, "ending")
    BY <1>9 DEF Http!Track
  <2> QED
    BY <2>1
<1>10. CASE Http!TunnelEnds(c)
  <2>1. Moved(c, "ending")
    BY <1>10 DEF Http!TunnelEnds
  <2> QED
    BY <2>1
<1>11. CASE Http!ConnectEnds(c)
  <2>1. Moved(c, "gone")
    BY <1>11 DEF Http!ConnectEnds, Http!End
  <2> QED
    BY <2>1
<1> HIDE DEF Moved
<1> QED
  BY <1>2, <1>3, <1>4, <1>5, <1>6, <1>7, <1>8, <1>9, <1>10, <1>11

LEMMA MovedKeeps ==
  ASSUME HttpInv, NEW c \in Conns, NEW l, Moved(c, l)
  PROVE  HttpInv'
<1>0. HttpTypes /\ Counted /\ DoneMeansDone /\ OnlyForced
  BY DEF HttpInv
<1>1. \A S : Http!At(S)' = IF l \in S THEN Http!At(S) \cup {c} ELSE Http!At(S) \ {c}
  BY <1>0, AtMoves DEF Moved
<1>2. \A S : c \in Http!At(S) <=> at[c] \in S
  BY DEF Http!At
<1>3. HttpTypes'
  <2>1. at' \in [Conns -> Http!Places] /\ open' \subseteq Conns /\ active' = Http!At({"tunnel"})'
    BY <1>0, <1>1 DEF HttpTypes, Moved
  <2>2. upstream' \subseteq Http!At({"dialled", "hijacked", "tunnel"})'
    BY <1>0, <1>1, <1>2 DEF HttpTypes, Moved
  <2>3. call' = call /\ handlerDone' \in [Http!Callers -> {"none", "open", "closed"}]
    BY <1>0 DEF HttpTypes, Moved, Http!Signal
  <2> QED
    BY <1>0, <2>1, <2>2, <2>3 DEF HttpTypes
<1>4. Counted'
  <2> DEFINE H == Http!At(Http!Handled)
  <2>1. IsFiniteSet(H) /\ handlerCount = Cardinality(H)
    BY <1>0 DEF Counted
  <2>2. CASE l \in Http!Handled <=> at[c] \in Http!Handled
    <3>1. H' = H /\ handlerCount' = handlerCount
      BY <1>1, <1>2, <2>2 DEF Moved
    <3> QED
      BY <2>1, <3>1 DEF Counted
  <2>3. CASE l \in Http!Handled /\ at[c] \notin Http!Handled
    <3>1. c \notin H /\ H' = H \cup {c} /\ handlerCount' = handlerCount + 1
      BY <1>1, <1>2, <2>3 DEF Moved
    <3> QED
      BY <2>1, <3>1, FS_AddElement DEF Counted
  <2>4. CASE l \notin Http!Handled /\ at[c] \in Http!Handled
    <3>1. c \in H /\ H' = H \ {c} /\ handlerCount' = handlerCount - 1
      BY <1>1, <1>2, <2>4 DEF Moved
    <3> QED
      BY <2>1, <3>1, FS_RemoveElement DEF Counted
  <2> QED
    BY <2>2, <2>3, <2>4
<1>5. DoneMeansDone'
  <2>1. handlerCount \in Nat
    BY <1>0, FS_CardinalityType DEF Counted
  <2>2. at[c] \in Http!Handled => handlerCount # 0
    BY <1>0, <1>2, FS_EmptySet DEF Counted
  <2>3. UNCHANGED <<closing, call>>
    BY DEF Moved
  <2>4. CASE UNCHANGED <<handlerCount, handlerDone>>
    BY <1>0, <2>3, <2>4 DEF DoneMeansDone
  <2>5. CASE ~closing /\ UNCHANGED handlerDone
    BY <1>0, <2>3, <2>5 DEF DoneMeansDone
  <2>6. CASE at[c] \in Http!Handled /\ handlerCount' = handlerCount - 1
             /\ Http!Signal(handlerCount - 1)
    <3>1. \A k \in Http!Callers : handlerDone'[k] =
            IF handlerCount - 1 = 0 /\ handlerDone[k] = "open" THEN "closed" ELSE handlerDone[k]
      BY <2>6 DEF Http!Signal
    <3> QED
      BY <1>0, <2>1, <2>2, <2>3, <2>6, <3>1 DEF DoneMeansDone
  <2> QED
    BY <2>4, <2>5, <2>6 DEF Moved
<1>6. OnlyForced'
  BY <1>0 DEF OnlyForced, Moved
<1> QED
  BY <1>3, <1>4, <1>5, <1>6 DEF HttpInv

\* What a call does to the requests: it may close connections, and upstreams of tunnels.
LEMMA CallKeeps ==
  ASSUME HttpInv, NEW k \in Http!Callers, Http!Progress(k) \/ Http!Expire(k)
  PROVE  HttpInv'
<1>0. HttpTypes /\ Counted /\ DoneMeansDone /\ OnlyForced
  BY DEF HttpInv
<1>1. /\ UNCHANGED <<at, active, handlerCount>>
      /\ open' \subseteq open /\ upstream' \subseteq upstream
      /\ closing => closing' /\ expired \subseteq expired'
  BY DEF Http!Progress, Http!StopAccepting, Http!ShutdownPolls, Http!ShutdownReturns,
         Http!MarkClosing, Http!Drained, Http!Close, Http!HttpClose, Http!CloseReturns,
         Http!Expire, Http!server, Http!requests, Http!calls
<1>2. \A S : Http!At(S)' = Http!At(S)
  BY <1>1, AtStays
<1>3. Counted'
  BY <1>0, <1>1, <1>2 DEF Counted
<1>4. /\ call' \in [Http!Callers -> {"ready", "shutdown", "marking", "waiting",
                               "close", "httpClose", "joining", "returned"}]
      /\ handlerDone' \in [Http!Callers -> {"none", "open", "closed"}]
  BY <1>0 DEF HttpTypes, Http!Progress, Http!StopAccepting, Http!ShutdownPolls,
       Http!ShutdownReturns, Http!MarkClosing, Http!Drained, Http!Close, Http!HttpClose,
       Http!CloseReturns, Http!Expire, Http!server, Http!requests, Http!calls, Http!Goto,
       Http!TakeDone
<1>5. HttpTypes'
  BY <1>0, <1>1, <1>2, <1>4 DEF HttpTypes
<1>6. DoneMeansDone'
  <2>1. CASE UNCHANGED handlerDone /\ \A q \in Http!Callers :
               call'[q] = "returned" => call[q] = "returned" \/ handlerDone[q] = "closed"
    BY <1>0, <1>1, <2>1 DEF DoneMeansDone
  <2>2. CASE closing' /\ Http!TakeDone(k) /\ \A q \in Http!Callers :
               call'[q] = "returned" => call[q] = "returned" /\ q # k
    BY <1>0, <1>1, <2>2 DEF DoneMeansDone, HttpTypes, Http!TakeDone
  <2>3. CASE Http!MarkClosing(k) \/ Http!Close(k)
    BY <1>0, <2>2, <2>3 DEF Http!MarkClosing, Http!Close, Http!Goto, HttpTypes
  <2>4. CASE ~(Http!MarkClosing(k) \/ Http!Close(k))
    BY <1>0, <2>1, <2>4 DEF HttpTypes, Http!Progress, Http!StopAccepting, Http!ShutdownPolls,
       Http!ShutdownReturns, Http!Drained, Http!HttpClose,
       Http!CloseReturns, Http!Expire, Http!server, Http!requests, Http!calls, Http!Goto
  <2> QED
    BY <2>3, <2>4
<1>7. OnlyForced'
  BY <1>0 DEF OnlyForced, HttpTypes, Http!Progress, Http!StopAccepting, Http!ShutdownPolls,
       Http!ShutdownReturns, Http!MarkClosing, Http!Drained, Http!Close, Http!HttpClose,
       Http!CloseReturns, Http!Expire, Http!server, Http!requests, Http!calls, Http!Goto,
       Http!Callers
<1> QED
  BY <1>3, <1>5, <1>6, <1>7 DEF HttpInv

LEMMA HttpStep == HttpInv /\ [Http!Next]_httpVars => HttpInv'
<1> SUFFICES ASSUME HttpInv, [Http!Next]_httpVars PROVE HttpInv'
  OBVIOUS
<1>1. CASE Http!Serving \/ UNCHANGED httpVars
  <2>1. UNCHANGED <<closing, handlerCount, active, at, open, upstream, call, handlerDone, expired>>
    BY <1>1 DEF Http!Serving, Http!ServeInstalls, Http!ServeAccepts, Http!ServeEnds, httpVars,
                Http!requests, Http!calls
  <2>2. \A S : Http!At(S)' = Http!At(S)
    BY <2>1, AtStays
  <2> QED
    BY <2>1, <2>2 DEF HttpInv, HttpTypes, Counted, DoneMeansDone, OnlyForced
<1>2. ASSUME NEW c \in Conns,
             \/ Http!Arrives(c) \/ Http!Leaves(c) \/ Http!Begin(c, "plain")
             \/ Http!Begin(c, "dialing")
             \/ Http!PlainEnds(c, "idle") \/ Http!PlainEnds(c, "gone") \/ Http!Dialled(c)
             \/ Http!DialFails(c, "idle") \/ Http!DialFails(c, "gone")
             \/ Http!Hijack(c) \/ Http!Track(c) \/ Http!TunnelEnds(c) \/ Http!ConnectEnds(c)
      PROVE  HttpInv'
  BY <1>2, ConnectionsMove, MovedKeeps
<1>3. ASSUME NEW k \in Http!Callers, Http!Progress(k) \/ Http!Expire(k) PROVE HttpInv'
  BY <1>3, CallKeeps
<1> QED
  BY <1>1, <1>2, <1>3 DEF Http!Next

LEMMA HttpNothingLeft == HttpInv => Http!NothingLeft
<1> SUFFICES ASSUME HttpInv, NEW k \in Http!Callers, call[k] = "returned"
             PROVE  Http!At(Http!Handled) = {} /\ active = {} /\ upstream = {} /\ closing
  BY DEF Http!NothingLeft
<1>1. closing /\ handlerCount = 0
  BY DEF HttpInv, DoneMeansDone
<1>2. Http!At(Http!Handled) = {}
  BY <1>1, FS_EmptySet DEF HttpInv, Counted
<1> QED
  BY <1>1, <1>2 DEF HttpInv, HttpTypes, Http!At, Http!Handled

\* What closes a connection of a request under way is the end of the request, or a call
\* that is forced.
LEMMA HttpKeepsWork ==
  ASSUME HttpInv, [Http!Next]_httpVars,
         NEW c \in open, at[c] \in {"plain", "tunnel"}, c \notin open'
  PROVE  at'[c] # at[c] \/ Http!Forced'
<1>0. /\ HttpTypes /\ OnlyForced
      /\ c \in Conns
  BY DEF HttpInv, HttpTypes
<1>1. CASE Http!Serving \/ UNCHANGED httpVars
  BY <1>1 DEF Http!Serving, Http!ServeInstalls, Http!ServeAccepts, Http!ServeEnds, httpVars,
              Http!requests, Http!calls
<1>2. ASSUME NEW d \in Conns,
             \/ Http!Arrives(d) \/ Http!Leaves(d) \/ Http!Begin(d, "plain")
             \/ Http!Begin(d, "dialing")
             \/ Http!PlainEnds(d, "idle") \/ Http!PlainEnds(d, "gone") \/ Http!Dialled(d)
             \/ Http!DialFails(d, "idle") \/ Http!DialFails(d, "gone")
             \/ Http!Hijack(d) \/ Http!Track(d) \/ Http!TunnelEnds(d) \/ Http!ConnectEnds(d)
      PROVE  at'[c] # at[c]
  BY <1>0, <1>2 DEF HttpTypes, Http!Arrives, Http!Leaves, Http!Begin, Http!PlainEnds,
       Http!Dialled, Http!DialFails, Http!Hijack, Http!Track, Http!TunnelEnds,
       Http!ConnectEnds, Http!End, Http!calls
<1>3. ASSUME NEW k \in Http!Callers, Http!Progress(k) \/ Http!Expire(k) PROVE Http!Forced'
  <2>1. CASE \E cs \in SUBSET Conns : Http!ShutdownPolls(k, cs)
    BY <1>0, <2>1 DEF Http!ShutdownPolls, Http!At
  <2>2. CASE Http!Close(k) \/ Http!HttpClose(k)
    <3>1. expired' = expired /\ call'[k] \in {"httpClose", "joining"}
      BY <1>0, <2>2 DEF HttpTypes, Http!Close, Http!HttpClose, Http!Goto
    <3>2. k \in Closers \/ k \in expired
      BY <1>0, <2>2 DEF OnlyForced, Http!Close, Http!HttpClose
    <3> QED
      BY <3>1, <3>2 DEF Http!Forced
  <2>3. CASE ~((\E cs \in SUBSET Conns : Http!ShutdownPolls(k, cs))
               \/ Http!Close(k) \/ Http!HttpClose(k))
    BY <1>3, <2>3 DEF Http!Progress, Http!StopAccepting, Http!ShutdownReturns,
         Http!MarkClosing, Http!Drained, Http!CloseReturns, Http!Expire, Http!requests
  <2> QED
    BY <2>1, <2>2, <2>3
<1> QED
  BY <1>1, <1>2, <1>3 DEF Http!Next

LEMMA HttpVars == UNCHANGED httpVars <=> UNCHANGED Http!vars
BY DEF httpVars, Http!vars, Http!server, Http!requests, Http!calls

-----------------------------------------------------------------------------
(* The relay                                                               *)

RelayTypes ==
  /\ sent \in [Relay!Sides -> Nat] /\ delivered \in [Relay!Sides -> Nat]
  /\ ended \in [Relay!Sides -> {"no", "eof", "reset"}]
  /\ copier \in [Relay!Sides -> {"reading", "writing", "reporting", "done"}]
  /\ relayOpen \subseteq Relay!Sides /\ failed \subseteq Relay!Sides
  /\ timer \in Nat /\ quiet \in 0..Idle
  /\ watchdog \in {"armed", "closing", "done"}

\* A copier that has ended without an error has passed on all that was sent.
Passed ==
  \A s \in Relay!Sides :
    /\ delivered[s] <= sent[s]
    /\ copier[s] = "writing" => delivered[s] < sent[s]
    /\ s \in failed => copier[s] \in {"reporting", "done"}
    /\ copier[s] \in {"reporting", "done"} /\ s \notin failed =>
         ended[s] = "eof" /\ delivered[s] = sent[s]

\* The results that the session has received and those in the channel are, in this order,
\* those of the copiers that are done.
Received ==
  \/ relayMain = "first" /\ errCh = <<>> /\ \A s \in Relay!Sides : copier[s] # "done"
  \/ \E s \in Relay!Sides :
       /\ copier[s] = "done"
       /\ \/ relayMain = "first" /\ errCh = <<s \in failed>> /\ copier[Relay!Other(s)] # "done"
          \/ /\ relayMain = "first" /\ errCh = <<s \in failed, Relay!Other(s) \in failed>>
             /\ copier[Relay!Other(s)] = "done"
          \/ /\ relayMain = "second" /\ errCh = <<>> /\ copier[Relay!Other(s)] # "done"
             /\ first = (s \in failed)
          \/ /\ relayMain = "second" /\ errCh = <<Relay!Other(s) \in failed>>
             /\ copier[Relay!Other(s)] = "done" /\ first = (s \in failed)
  \/ /\ relayMain \in {"stopping", "returned"} /\ errCh = <<>> /\ relayOpen = {}
     /\ \A s \in Relay!Sides : copier[s] = "done"
     /\ relayResult = (IF failed = {} THEN "nil" ELSE "error")

RelayInv ==
  /\ RelayTypes /\ Passed /\ Received
  /\ Relay!CutInTime /\ Relay!HalfCloseKept
  /\ relayResult # "none" => relayMain \in {"stopping", "returned"}
  /\ relayMain = "returned" => watchdog = "done"

LEMMA Pair ==
  ASSUME NEW S, NEW a \in S, NEW b \in S PROVE Append(<<a>>, b) = <<a, b>>
<1>1. <<a>> \in Seq(S) /\ Len(<<a>>) = 1
  OBVIOUS
<1>2. Append(<<a>>, b) \in Seq(S) /\ Len(Append(<<a>>, b)) = 2
  BY <1>1
<1>3. Append(<<a>>, b)[1] = a /\ Append(<<a>>, b)[2] = b
  BY <1>1
<1>4. <<a, b>> \in Seq(S) /\ Len(<<a, b>>) = 2 /\ <<a, b>>[1] = a /\ <<a, b>>[2] = b
  OBVIOUS
<1> DEFINE s == Append(<<a>>, b)
           t == <<a, b>>
<1>5. s \in Seq(S) /\ t \in Seq(S) /\ Len(s) = Len(t) /\ \A i \in 1..Len(s) : s[i] = t[i]
  BY <1>1, <1>2, <1>3, <1>4
<1> HIDE DEF s, t
<1>6. s = t
  BY <1>5, SeqEqual
<1> QED
  BY <1>6 DEF s, t

LEMMA RelayStart == Relay!RelayAssumption /\ Relay!Init => RelayInv
BY DEF Relay!RelayAssumption, Relay!Init, RelayInv, RelayTypes, Passed, Received,
       Relay!CutInTime, Relay!HalfCloseKept, Relay!Sides

\* The peers, the server and the clock leave the copiers, the results and the session alone.
LEMMA RelayOutside ==
  ASSUME Relay!RelayAssumption, RelayInv,
         \/ \E s \in Relay!Sides : Relay!Sends(s) \/ Relay!Ends(s, "eof") \/ Relay!Ends(s, "reset")
         \/ Relay!ServerCloses \/ Relay!Tick \/ Relay!Watchdog
  PROVE  RelayInv'
<1>0. RelayTypes /\ Passed /\ Received /\ Relay!CutInTime /\ Relay!HalfCloseKept
  BY DEF RelayInv
<1>1. /\ UNCHANGED <<copier, failed, delivered, errCh, relayMain, first, relayResult>>
      /\ relayOpen' \subseteq relayOpen
      /\ watchdog = "done" => watchdog' = "done"
  BY DEF Relay!Sends, Relay!Ends, Relay!ServerCloses, Relay!Tick, Relay!Watchdog, Relay!Fires,
         Relay!WatchdogCloses, Relay!WatchdogStops, Relay!copies, Relay!session, Relay!clock
<1>2. RelayTypes'
  BY <1>0, <1>1 DEF RelayTypes, Relay!Sends, Relay!Ends, Relay!ServerCloses, Relay!Tick,
       Relay!Watchdog, Relay!Fires, Relay!WatchdogCloses, Relay!WatchdogStops, Relay!peer,
       Relay!clock, Relay!RelayAssumption
<1>3. Passed'
  BY <1>0, <1>1 DEF Passed, RelayTypes, Relay!Sends, Relay!Ends, Relay!ServerCloses, Relay!Tick,
       Relay!Watchdog, Relay!Fires, Relay!WatchdogCloses, Relay!WatchdogStops, Relay!peer
<1>4. Received'
  BY <1>0, <1>1 DEF Received, Relay!Other
<1>5. Relay!CutInTime'
  BY <1>0 DEF Relay!CutInTime, RelayTypes, Relay!Sends, Relay!Ends, Relay!ServerCloses,
       Relay!Tick, Relay!Watchdog, Relay!Fires, Relay!WatchdogCloses, Relay!WatchdogStops,
       Relay!clock, Relay!RelayAssumption
<1>6. Relay!HalfCloseKept'
  BY <1>0, <1>1 DEF Relay!HalfCloseKept, Relay!Sends, Relay!Ends, Relay!ServerCloses,
       Relay!Tick, Relay!Watchdog, Relay!Fires, Relay!WatchdogCloses, Relay!WatchdogStops,
       Relay!clock, Relay!peer
<1> QED
  BY <1>1, <1>2, <1>3, <1>4, <1>5, <1>6 DEF RelayInv

LEMMA RelayCopies ==
  ASSUME Relay!RelayAssumption, RelayInv, NEW s \in Relay!Sides,
         Relay!Reads(s) \/ Relay!CopyFails(s) \/ Relay!Writes(s) \/ Relay!Reports(s)
  PROVE  RelayInv'
<1>0. RelayTypes /\ Passed /\ Received /\ Relay!CutInTime /\ Relay!HalfCloseKept
  BY DEF RelayInv
<1> USE DEF Relay!peer, Relay!session, Relay!clock, Relay!CopierGoes
<1>1. /\ UNCHANGED <<sent, ended, cut, relayOpen, relayMain, first, relayResult, watchdog, timer>>
      /\ failed \subseteq failed'
  BY DEF Relay!Reads, Relay!CopyFails, Relay!Writes, Relay!Reports
<1>2. RelayTypes'
  <2>1. copier' \in [Relay!Sides -> {"reading", "writing", "reporting", "done"}]
    BY <1>0 DEF RelayTypes, Relay!Reads, Relay!CopyFails, Relay!Writes, Relay!Reports
  <2>2. delivered' \in [Relay!Sides -> Nat] /\ failed' \subseteq Relay!Sides
    BY <1>0 DEF RelayTypes, Relay!Reads, Relay!CopyFails, Relay!Writes, Relay!Reports
  <2>3. quiet' \in 0..Idle
    BY <1>0 DEF RelayTypes, Relay!Reads, Relay!CopyFails, Relay!Writes, Relay!Reports,
         Relay!RelayAssumption
  <2> QED
    BY <1>0, <1>1, <2>1, <2>2, <2>3 DEF RelayTypes
<1>3. Passed'
  BY <1>0, <1>1 DEF RelayTypes, Passed, Relay!Reads, Relay!CopyFails, Relay!Writes,
       Relay!Reports
<1>4. Received'
  <2>1. CASE Relay!Reports(s)
    <3>1. /\ errCh' = Append(errCh, s \in failed) /\ failed' = failed
          /\ copier' = [copier EXCEPT ![s] = "done"] /\ copier[s] = "reporting"
      BY <2>1 DEF Relay!Reports
    <3>2. Append(<<>>, s \in failed) = <<s \in failed>>
      OBVIOUS
    <3>3. \A b \in BOOLEAN, d \in BOOLEAN : Append(<<b>>, d) = <<b, d>>
      BY Pair
    <3>4. \A t \in Relay!Sides : t # s => t = Relay!Other(s) /\ s = Relay!Other(t)
      BY DEF Relay!Sides, Relay!Other
    <3>5. Relay!Other(s) \in Relay!Sides /\ Relay!Other(s) # s
          /\ Relay!Other(Relay!Other(s)) = s
      BY DEF Relay!Sides, Relay!Other
    <3>6. CASE errCh = <<>>
      BY ZenonT(60), <1>0, <1>1, <3>1, <3>2, <3>4, <3>5, <3>6 DEF Received, RelayTypes
    <3>7. CASE errCh # <<>>
      <4>1. PICK t \in Relay!Sides : /\ copier[t] = "done" /\ copier[Relay!Other(t)] # "done"
                                     /\ relayMain = "first" /\ errCh = <<t \in failed>>
        BY <1>0, <3>1, <3>4, <3>7 DEF Received
      <4>2. t # s /\ s = Relay!Other(t)
        BY <3>1, <3>4, <4>1
      <4>3. errCh' = <<t \in failed', Relay!Other(t) \in failed'>>
        <5>1. (t \in failed) \in BOOLEAN /\ (s \in failed) \in BOOLEAN
          OBVIOUS
        <5>2. Append(<<t \in failed>>, s \in failed) = <<t \in failed, s \in failed>>
          BY <3>3, <5>1
        <5>3. errCh' = <<t \in failed, s \in failed>>
          BY <3>1, <4>1, <5>2
        <5> QED
          BY <3>1, <4>2, <5>3
      <4>4. copier'[t] = "done" /\ copier'[Relay!Other(t)] = "done"
        BY <1>0, <3>1, <4>1, <4>2 DEF RelayTypes
      <4> QED
        BY <1>1, <4>1, <4>3, <4>4 DEF Received, Relay!Other
    <3> QED
      BY <3>6, <3>7
  <2>2. CASE Relay!Reads(s) \/ Relay!CopyFails(s) \/ Relay!Writes(s)
    <3>1. /\ copier[s] # "done" /\ copier'[s] # "done" /\ errCh' = errCh
          /\ failed' \ {s} = failed \ {s}
          /\ \A t \in Relay!Sides : t # s => copier'[t] = copier[t]
      BY <1>0, <2>2 DEF RelayTypes, Relay!Reads, Relay!CopyFails, Relay!Writes
    <3>2. \A t \in Relay!Sides :
            /\ copier'[t] = "done" <=> copier[t] = "done"
            /\ copier[t] = "done" => (t \in failed' <=> t \in failed)
      BY <3>1
    <3>3. ~\A t \in Relay!Sides : copier[t] = "done"
      BY <3>1
    <3>4. \A t \in Relay!Sides : Relay!Other(t) \in Relay!Sides
      BY DEF Relay!Sides, Relay!Other
    <3> QED
      BY <1>0, <1>1, <3>1, <3>2, <3>3, <3>4 DEF Received, Relay!Other
  <2> QED
    BY <2>1, <2>2
<1>5. Relay!CutInTime'
  BY <1>0, <1>1 DEF Relay!CutInTime, RelayTypes, Relay!Reads, Relay!CopyFails, Relay!Writes,
       Relay!Reports, Relay!RelayAssumption
<1>6. Relay!HalfCloseKept'
  BY <1>0, <1>1 DEF Relay!HalfCloseKept, RelayTypes, Relay!Reads, Relay!CopyFails, Relay!Writes,
       Relay!Reports
<1> QED
  BY <1>1, <1>2, <1>3, <1>4, <1>5, <1>6 DEF RelayInv

LEMMA RelaySession ==
  ASSUME Relay!RelayAssumption, RelayInv, Relay!Session
  PROVE  RelayInv'
<1>0. RelayTypes /\ Passed /\ Received /\ Relay!CutInTime /\ Relay!HalfCloseKept
  BY DEF RelayInv
<1> USE DEF Relay!peer, Relay!copies, Relay!clock
<1>1. /\ UNCHANGED <<sent, ended, cut, copier, failed, delivered, watchdog, timer, quiet>>
      /\ relayOpen' \in {relayOpen, {}}
  BY DEF Relay!Session, Relay!First, Relay!Second, Relay!Returns
<1>2. RelayTypes' /\ Passed' /\ Relay!CutInTime'
  BY <1>0, <1>1 DEF RelayTypes, Passed, Relay!CutInTime
<1>3. \A a, b : Head(<<a>>) = a /\ Tail(<<a>>) = <<>> /\ Head(<<a, b>>) = a /\ Tail(<<a, b>>) = <<b>>
  OBVIOUS
<1>4. \A t \in Relay!Sides : Relay!Other(t) \in Relay!Sides /\ Relay!Sides = {t, Relay!Other(t)}
  BY DEF Relay!Sides, Relay!Other
<1>5. CASE Relay!First
  <2>1. PICK s \in Relay!Sides :
          /\ copier[s] = "done"
          /\ \/ errCh = <<s \in failed>> /\ copier[Relay!Other(s)] # "done"
             \/ /\ errCh = <<s \in failed, Relay!Other(s) \in failed>>
                /\ copier[Relay!Other(s)] = "done"
    BY <1>0, <1>5 DEF Received, Relay!First
  <2>2. first' = (s \in failed) /\ relayMain' = "second" /\ relayResult' = relayResult
    BY <1>3, <1>5, <2>1 DEF Relay!First
  <2>3. Received'
    <3>1. CASE errCh = <<s \in failed>> /\ copier[Relay!Other(s)] # "done"
      <4>1. errCh' = <<>>
        BY <1>3, <1>5, <3>1 DEF Relay!First
      <4> QED
        BY <1>1, <2>1, <2>2, <3>1, <4>1 DEF Received, Relay!Other
    <3>2. CASE /\ errCh = <<s \in failed, Relay!Other(s) \in failed>>
               /\ copier[Relay!Other(s)] = "done"
      <4>1. errCh' = <<Relay!Other(s) \in failed>>
        BY <1>3, <1>5, <3>2 DEF Relay!First
      <4> QED
        BY <1>1, <2>1, <2>2, <3>2, <4>1 DEF Received, Relay!Other
    <3> QED
      BY <2>1, <3>1, <3>2
  <2>4. Relay!HalfCloseKept'
    <3>1. failed = {} => relayOpen' = relayOpen
      BY <1>5, <2>2 DEF Relay!First
    <3> QED
      BY <1>0, <1>1, <3>1 DEF Relay!HalfCloseKept
  <2> QED
    BY <1>2, <1>5, <2>2, <2>3, <2>4 DEF RelayInv, Relay!First
<1>6. CASE Relay!Second
  <2>1. PICK s \in Relay!Sides :
          /\ copier[s] = "done" /\ errCh = <<Relay!Other(s) \in failed>>
          /\ copier[Relay!Other(s)] = "done" /\ first = (s \in failed)
    BY <1>0, <1>6 DEF Received, Relay!Second
  <2>2. \A t \in Relay!Sides : copier[t] = "done"
    BY <1>4, <2>1
  <2>3. (first \/ Head(errCh)) <=> failed # {}
    <3>1. Head(errCh) = (Relay!Other(s) \in failed)
      BY <1>3, <2>1
    <3>2. failed # {} <=> s \in failed \/ Relay!Other(s) \in failed
      BY <1>0, <1>4 DEF RelayTypes
    <3> QED
      BY <2>1, <3>1, <3>2
  <2>4. errCh' = <<>>
    BY <1>3, <1>6, <2>1 DEF Relay!Second
  <2>5. Received'
    BY <1>1, <1>6, <2>2, <2>3, <2>4 DEF Received, Relay!Second
  <2>6. Relay!HalfCloseKept'
    BY <1>1, <2>2 DEF Relay!HalfCloseKept
  <2> QED
    BY <1>2, <1>6, <2>5, <2>6 DEF RelayInv, Relay!Second
<1>7. CASE Relay!Returns
  BY <1>0, <1>1, <1>2, <1>7 DEF RelayInv, Received, Relay!HalfCloseKept, Relay!Returns
<1> QED
  BY <1>5, <1>6, <1>7 DEF Relay!Session

LEMMA RelayStep == Relay!RelayAssumption /\ RelayInv /\ [Relay!Next]_relayVars => RelayInv'
<1>1. ASSUME Relay!RelayAssumption, RelayInv, Relay!Next PROVE RelayInv'
  BY <1>1, RelayOutside, RelayCopies, RelaySession DEF Relay!Next, Relay!Copier
<1>2. ASSUME RelayInv, UNCHANGED relayVars PROVE RelayInv'
  BY <1>2 DEF relayVars, RelayInv, RelayTypes, Passed, Received, Relay!CutInTime,
              Relay!HalfCloseKept
<1> QED
  BY <1>1, <1>2

LEMMA RelayKept ==
  RelayInv => Relay!NothingLeft /\ Relay!HalfCloseKept /\ Relay!CutInTime /\ Relay!CleanEnd
<1> SUFFICES ASSUME RelayInv PROVE Relay!NothingLeft /\ Relay!CleanEnd
  BY DEF RelayInv
<1>1. Relay!NothingLeft
  BY DEF RelayInv, Received, Relay!NothingLeft
<1>2. Relay!CleanEnd
  <2> SUFFICES ASSUME relayResult = "nil", NEW s \in Relay!Sides
               PROVE  ended[s] = "eof" /\ delivered[s] = sent[s]
    BY DEF Relay!CleanEnd
  <2>1. failed = {} /\ copier[s] = "done"
    BY DEF RelayInv, Received
  <2> QED
    BY <2>1 DEF RelayInv, Passed
<1> QED
  BY <1>1, <1>2

-----------------------------------------------------------------------------
(* A BIND request                                                          *)

BindTypes ==
  /\ outcome \in {"none", "peer", "control", "context", "listener"}
  /\ watch \in {"none", "reading", "sending", "closing", "done"}
  /\ bindListening \in BOOLEAN /\ timedOut \in BOOLEAN /\ pastDeadline \in BOOLEAN
  /\ consumed \in BOOLEAN /\ bindClosing \in BOOLEAN

\* Where the session waits, or has found that its listener is closed
Waiting == {"accept", "failed"}

\* The watcher of the control connection says what its one Read returned.
Watched ==
  /\ watch \in {"closing", "done"} => bindResult # "none" /\ bindResult = read
  /\ consumed => read = "data" /\ watch \in {"sending", "closing", "done"}
  /\ watch \in {"none", "reading", "sending"} => bindResult = "none"
  /\ watch = "sending" => read # "none"

\* The server has cancelled the context before it closes a connection.
CancelledFirst == bindClosing \/ client = "closed" => ctx = "cancelled"

\* A listener is closed by a watcher that has a reason.
ClosedForReason ==
  /\ bindMain = "start" => watch = "none" /\ ctxWatch = "none"
  /\ bindMain = "accept" /\ ~bindListening => bindResult # "none" \/ ctx # "live"
  /\ bindMain = "failed" => timedOut \/ ctx # "live"
  /\ bindMain = "start" \/ bindMain \in Waiting => outcome = "none"

\* How far the session is tells what was replied.
Replied ==
  /\ bindMain = "start" => replies = <<>>
  /\ bindMain \in {"accept", "failed", "stopping", "finished", "replying"} => replies = <<"success">>
  /\ bindMain = "relay" => replies = <<"success", "success">>

BindInv ==
  /\ BindTypes /\ Watched /\ CancelledFirst /\ ClosedForReason /\ Replied
  /\ peers \subseteq Allowed
  /\ pastDeadline <=> bindMain = "stopping"
  /\ outcome = "peer" => ~consumed /\ watch \in {"closing", "done"}
                         /\ bindMain \in {"finished", "replying", "relay", "done"}
  /\ bindMain = "finished" => outcome # "none"
  /\ Bind!CauseReported /\ Bind!Answered

LEMMA BindStart == Bind!Init => BindInv
BY DEF Bind!Init, BindInv, BindTypes, Watched, CancelledFirst, ClosedForReason, Waiting, Replied,
       Bind!CauseReported, Bind!Answered

\* What the client, the peers, time, the shutdown of the server and the watchers may change
Watches ==
  /\ UNCHANGED <<bindMain, outcome, replies, pastDeadline>>
  /\ peers' \subseteq peers
  /\ bindListening' = bindListening \/ ~bindListening'
  /\ bindListening' \in BOOLEAN /\ timedOut' \in BOOLEAN /\ (timedOut => timedOut')
  /\ ctx # "live" \/ bindMain = "done" => ctx' = ctx

LEMMA BindOutside ==
  ASSUME BindInv,
         \/ Bind!ClientSends \/ Bind!ClientEnds \/ Bind!ListenerTimesOut \/ Bind!ServerCloses
         \/ Bind!ContextEnds("cancelled") \/ Bind!ContextEnds("deadline")
         \/ \E p \in Peers : Bind!PeerDials(p)
  PROVE  /\ Watches /\ bindListening' = bindListening
         /\ UNCHANGED <<watch, read, bindResult, consumed, ctxWatch>>
         /\ bindClosing' \in BOOLEAN
         /\ CancelledFirst'
<1>0. BindTypes /\ CancelledFirst
  BY DEF BindInv
<1> USE DEF Bind!session, Bind!control, Watches
<1>1. CASE Bind!ClientSends
  BY <1>0, <1>1 DEF Bind!ClientSends, BindTypes, CancelledFirst
<1>2. CASE Bind!ClientEnds
  BY <1>0, <1>2 DEF Bind!ClientEnds, BindTypes, CancelledFirst
<1>3. CASE Bind!ListenerTimesOut
  BY <1>0, <1>3 DEF Bind!ListenerTimesOut, BindTypes, CancelledFirst
<1>4. CASE Bind!ServerCloses
  BY <1>0, <1>4 DEF Bind!ServerCloses, BindTypes, CancelledFirst
<1>5. CASE Bind!ContextEnds("cancelled") \/ Bind!ContextEnds("deadline")
  BY <1>0, <1>5 DEF Bind!ContextEnds, BindTypes, CancelledFirst
<1>6. ASSUME NEW p \in Peers, Bind!PeerDials(p)
      PROVE  /\ Watches /\ bindListening' = bindListening
             /\ UNCHANGED <<watch, read, bindResult, consumed, ctxWatch>>
             /\ bindClosing' \in BOOLEAN
             /\ CancelledFirst'
  BY <1>0, <1>6 DEF Bind!PeerDials, Bind!outside, BindTypes, CancelledFirst
<1> HIDE DEF Watches
<1> QED
  BY <1>1, <1>2, <1>3, <1>4, <1>5, <1>6

LEMMA BindWatchers ==
  ASSUME BindInv, Bind!ControlWatch \/ Bind!ContextWatch
  PROVE  /\ Watches
         /\ BindTypes' /\ CancelledFirst' /\ Watched'
         /\ bindMain = "start" => watch' = "none" /\ ctxWatch' = "none"
         /\ bindMain = "accept" /\ ~bindListening' => bindResult' # "none" \/ ctx' # "live"
         /\ outcome = "peer" => ~consumed' /\ watch' \in {"closing", "done"}
<1>0. /\ BindTypes /\ CancelledFirst /\ Watched /\ ClosedForReason
      /\ outcome = "peer" => ~consumed /\ watch \in {"closing", "done"}
  BY DEF BindInv
<1> USE DEF Bind!session, Bind!outside, Watches, BindTypes, CancelledFirst, Watched,
            ClosedForReason
<1>1. ASSUME NEW what \in Bind!Results, Bind!WatchReads(what)
      PROVE  /\ Watches
             /\ BindTypes' /\ CancelledFirst' /\ Watched'
             /\ bindMain = "start" => watch' = "none" /\ ctxWatch' = "none"
             /\ bindMain = "accept" /\ ~bindListening' => bindResult' # "none" \/ ctx' # "live"
             /\ outcome = "peer" => ~consumed' /\ watch' \in {"closing", "done"}
  BY <1>0, <1>1 DEF Bind!WatchReads
<1>2. CASE Bind!WatchSends
  BY <1>0, <1>2 DEF Bind!WatchSends
<1>3. CASE Bind!WatchCloses
  BY <1>0, <1>3 DEF Bind!WatchCloses
<1>4. CASE Bind!ContextWatch
  <2>1. CASE ctx # "live" /\ bindListening' = FALSE
    BY ZenonT(60), <1>0, <1>4, <2>1 DEF Bind!ContextWatch, Bind!control
  <2>2. CASE /\ bindMain \in {"finished", "replying", "relay", "done"}
             /\ UNCHANGED bindListening
    BY <1>0, <1>4, <2>2 DEF Bind!ContextWatch, Bind!control
  <2> QED
    BY <1>4, <2>1, <2>2 DEF Bind!ContextWatch
<1> HIDE DEF Watches, BindTypes, CancelledFirst, Watched, ClosedForReason
<1> QED
  BY <1>1, <1>2, <1>3, <1>4 DEF Bind!ControlWatch

LEMMA WatchesKeep ==
  ASSUME BindInv, Watches, BindTypes', Watched', CancelledFirst',
         bindMain = "start" => watch' = "none" /\ ctxWatch' = "none",
         bindMain = "accept" /\ ~bindListening' => bindResult' # "none" \/ ctx' # "live",
         outcome = "peer" => ~consumed' /\ watch' \in {"closing", "done"}
  PROVE  BindInv'
<1>0. UNCHANGED <<bindMain, outcome, replies, pastDeadline>>
  BY DEF Watches
<1>1. ClosedForReason'
  BY <1>0 DEF BindInv, ClosedForReason, Watches, Waiting
<1>2. Replied' /\ Bind!CauseReported' /\ Bind!Answered'
  BY <1>0 DEF BindInv, BindTypes, Replied, Bind!CauseReported, Bind!Answered, Watches
<1> QED
  BY <1>0, <1>1, <1>2 DEF BindInv, Watches

LEMMA BindSession ==
  ASSUME Bind!PeersAssumption, BindInv, Bind!Session \/ Bind!RelayEnds
  PROVE  BindInv'
<1>0. /\ BindTypes /\ Watched /\ CancelledFirst /\ ClosedForReason /\ Replied
      /\ peers \subseteq Allowed /\ Bind!CauseReported
      /\ pastDeadline <=> bindMain = "stopping"
      /\ outcome = "peer" => bindMain \in {"finished", "replying", "relay", "done"}
      /\ bindMain = "finished" => outcome # "none"
  BY DEF BindInv
<1> USE DEF Bind!session, Bind!control, Bind!outside
<1>1. CASE Bind!StartFails
  <2>1. client # "closed" \/ ctx = "cancelled"
    BY <1>0 DEF CancelledFirst
  <2>2. Bind!Answered'
    BY <1>0, <1>1, <2>1 DEF Replied, Bind!StartFails, Bind!Leave, Bind!Answer, Bind!Answered
  <2> QED
    BY <1>0, <1>1, <2>2 DEF BindInv, BindTypes, Watched, CancelledFirst, ClosedForReason, Waiting,
         Replied, Bind!CauseReported, Bind!StartFails, Bind!Leave
<1>2. CASE Bind!Starts
  <2>1. replies' = <<"success">>
    BY <1>0, <1>2 DEF Replied, Bind!Starts
  <2> QED
    BY <1>0, <1>2, <2>1 DEF BindInv, BindTypes, Watched, CancelledFirst, ClosedForReason, Waiting,
         Replied, Bind!CauseReported, Bind!Answered, Bind!Starts
<1>3. ASSUME NEW p \in Peers, Bind!Refuses(p) \/ Bind!Accepts(p) PROVE BindInv'
  <2>1. CASE Bind!Refuses(p)
    BY <1>0, <2>1 DEF BindInv, BindTypes, Watched, CancelledFirst, ClosedForReason, Waiting,
         Replied, Bind!CauseReported, Bind!Answered, Bind!Refuses
  <2>2. CASE Bind!Accepts(p)
    BY <1>0, <2>2 DEF BindInv, BindTypes, Watched, CancelledFirst, ClosedForReason, Waiting,
         Replied, Bind!CauseReported, Bind!Answered, Bind!Accepts
  <2> QED
    BY <1>3, <2>1, <2>2
<1>4. CASE Bind!AcceptFails
  <2>1. /\ outcome = "none" /\ outcome' \in {"none", "control"} /\ pastDeadline' = FALSE
        /\ bindMain' \in {"failed", "finished"}
        /\ bindMain' = "failed" => outcome' = "none" /\ (timedOut \/ ctx # "live")
        /\ bindMain' = "finished" => outcome' = "control"
    BY <1>0, <1>4 DEF BindTypes, ClosedForReason, Waiting, Bind!AcceptFails
  <2>2. BindTypes' /\ Watched' /\ CancelledFirst' /\ Replied'
    BY <1>0, <1>4, <2>1 DEF BindTypes, Watched, CancelledFirst, Replied, Bind!AcceptFails
  <2> QED
    BY <1>0, <1>4, <2>1, <2>2 DEF BindInv, ClosedForReason, Waiting, Bind!CauseReported,
         Bind!Answered, Bind!AcceptFails
<1>5. CASE Bind!FailsWithoutControl
  BY <1>0, <1>5 DEF BindInv, BindTypes, Watched, CancelledFirst, ClosedForReason, Waiting,
       Replied, Bind!CauseReported, Bind!Answered, Bind!FailsWithoutControl
<1>6. CASE Bind!Stopped
  <2>1. /\ outcome' \in {outcome, "peer", "control"} /\ outcome' # "none"
        /\ outcome' = "peer" => ~consumed /\ watch \in {"closing", "done"}
    BY <1>0, <1>6 DEF Bind!Stopped, BindTypes, Watched
  <2> QED
    BY <1>0, <1>6, <2>1 DEF BindInv, BindTypes, Watched, CancelledFirst, ClosedForReason, Waiting,
         Replied, Bind!CauseReported, Bind!Answered, Bind!Stopped
<1>7. CASE Bind!Fails
  <2>1. /\ bindMain' = "done" /\ ~bindListening' /\ peers' = {}
        /\ UNCHANGED <<outcome, watch, read, bindResult, pastDeadline, consumed, client, unread,
                       timedOut, ctx, bindClosing, ctxWatch>>
    BY <1>7 DEF Bind!Fails, Bind!Leave
  <2>2. ctx # "cancelled" => replies' = <<"success", "failure">>
    <3>1. ASSUME ctx # "cancelled" PROVE ~Bind!Silent /\ client # "closed"
      BY <1>0, <3>1 DEF Bind!Silent, CancelledFirst, Bind!CauseReported
    <3>2. ASSUME ctx # "cancelled" PROVE replies' = <<"success">> \o <<"failure">>
      BY <1>0, <1>7, <3>1, <3>2 DEF Bind!Fails, Bind!Leave, Bind!Answer, Replied
    <3> QED
      BY <3>2
  <2>3. bindListening' = FALSE
    BY <1>7 DEF Bind!Fails, Bind!Leave
  <2> QED
    <3>1. BindTypes' /\ Watched' /\ CancelledFirst' /\ ClosedForReason' /\ Replied'
      BY <1>0, <2>1, <2>3 DEF BindTypes, Watched, CancelledFirst, ClosedForReason, Waiting,
           Replied
    <3>2. Bind!CauseReported' /\ Bind!Answered'
      BY <1>0, <2>1, <2>2 DEF Bind!CauseReported, Bind!Answered
    <3> QED
      BY <1>0, <1>7, <2>1, <3>1, <3>2 DEF BindInv, Bind!Fails
<1>8. CASE Bind!Track
  BY <1>0, <1>8 DEF BindInv, BindTypes, Watched, CancelledFirst, ClosedForReason, Waiting,
       Replied, Bind!CauseReported, Bind!Answered, Bind!Track, Bind!Leave
<1>9. CASE Bind!Announces
  <2>1. bindMain' = "relay" => replies' = <<"success", "success">>
    BY <1>0, <1>9 DEF Replied, Bind!Announces, Bind!Leave
  <2> QED
    <3>1. /\ bindMain' \in {"done", "relay"}
          /\ bindMain' = "done" =>
               /\ ~bindListening' /\ bindListening' = FALSE /\ peers' = {} /\ ctx = "cancelled"
          /\ bindMain' = "relay" => peers' = peers /\ bindListening' = bindListening
          /\ UNCHANGED <<outcome, watch, read, bindResult, pastDeadline, consumed, client,
                         timedOut, ctx, bindClosing, ctxWatch>>
          /\ bindMain = "replying"
      BY <1>0, <1>9 DEF CancelledFirst, Bind!Announces, Bind!Leave
    <3>2. BindTypes' /\ Watched' /\ CancelledFirst' /\ ClosedForReason'
      BY ZenonT(60), <1>0, <3>1 DEF BindTypes, Watched, CancelledFirst, ClosedForReason, Waiting
    <3>3. Replied' /\ Bind!CauseReported' /\ Bind!Answered'
      BY <1>0, <2>1, <3>1 DEF Replied, Bind!CauseReported, Bind!Answered
    <3> QED
      BY <1>0, <3>1, <3>2, <3>3 DEF BindInv
<1>10. CASE Bind!RelayEnds
  <2>1. replies' = <<"success", "success">>
    BY <1>0, <1>10 DEF Replied, Bind!RelayEnds, Bind!Leave
  <2> QED
    BY <1>0, <1>10, <2>1 DEF BindInv, BindTypes, Watched, CancelledFirst, ClosedForReason, Waiting,
         Replied, Bind!CauseReported, Bind!Answered, Bind!RelayEnds, Bind!Leave
<1> QED
  BY <1>1, <1>2, <1>3, <1>4, <1>5, <1>6, <1>7, <1>8, <1>9, <1>10 DEF Bind!Session

LEMMA BindStep == Bind!PeersAssumption /\ BindInv /\ [Bind!Next]_bindVars => BindInv'
<1>1. ASSUME Bind!PeersAssumption, BindInv, Bind!Next PROVE BindInv'
  <2>1. CASE \/ Bind!ClientSends \/ Bind!ClientEnds \/ Bind!ListenerTimesOut
             \/ Bind!ServerCloses
             \/ Bind!ContextEnds("cancelled") \/ Bind!ContextEnds("deadline")
             \/ \E p \in Peers : Bind!PeerDials(p)
    <3>1. /\ Watches /\ bindListening' = bindListening
          /\ UNCHANGED <<watch, read, bindResult, consumed, ctxWatch>>
          /\ bindClosing' \in BOOLEAN
          /\ CancelledFirst'
      BY <1>1, <2>1, BindOutside
    <3>2. BindTypes' /\ Watched'
      BY <1>1, <3>1 DEF BindInv, BindTypes, Watched, Watches
    <3>3. /\ bindMain = "start" => watch' = "none" /\ ctxWatch' = "none"
          /\ bindMain = "accept" /\ ~bindListening' => bindResult' # "none" \/ ctx' # "live"
          /\ outcome = "peer" => ~consumed' /\ watch' \in {"closing", "done"}
      BY <1>1, <3>1 DEF BindInv, ClosedForReason, Watches
    <3> QED
      BY <1>1, <3>1, <3>2, <3>3, WatchesKeep
  <2>2. CASE Bind!ControlWatch \/ Bind!ContextWatch
    BY <1>1, <2>2, BindWatchers, WatchesKeep
  <2>3. CASE Bind!Session \/ Bind!RelayEnds
    BY <1>1, <2>3, BindSession
  <2> QED
    BY <1>1, <2>1, <2>2, <2>3 DEF Bind!Next
<1>2. ASSUME BindInv, UNCHANGED bindVars PROVE BindInv'
  BY <1>2 DEF bindVars, BindInv, BindTypes, Watched, CancelledFirst, ClosedForReason, Waiting,
       Replied, Bind!CauseReported, Bind!Answered
<1> QED
  BY <1>1, <1>2

LEMMA BindKept == BindInv => Bind!AnnouncedIntact /\ Bind!CauseReported /\ Bind!Answered
BY DEF BindInv, Bind!AnnouncedIntact

LEMMA BindVars == UNCHANGED bindVars <=> UNCHANGED Bind!vars
BY DEF bindVars, Bind!vars, Bind!session, Bind!control, Bind!outside

LEMMA RelayVars == UNCHANGED relayVars <=> UNCHANGED Relay!vars
BY DEF relayVars, Relay!vars, Relay!peer, Relay!copies, Relay!session, Relay!clock

-----------------------------------------------------------------------------
(* Nobody waits for ever                                                   *)

\* A call waits for a channel it has read, which is not closed only while there is a handler
\* that will close it; and net/http is shut down when it does.
Signalled ==
  /\ serve \in {"starting", "installed", "accepting", "ended"}
  /\ \A k \in Http!Callers :
       /\ handlerDone[k] = "open" => handlerCount # 0
       /\ call[k] \in {"waiting", "httpClose", "joining"} => handlerDone[k] # "none"
       /\ call[k] \in {"marking", "waiting", "joining", "returned"} => inShutdown

\* Close has closed the tunnels, then what net/http owns; no other work begins meanwhile.
Severed ==
  \A k \in Http!Callers, c \in Conns :
    /\ call[k] \in {"httpClose", "joining"} /\ at[c] = "tunnel" => c \notin open
    /\ call[k] = "joining" /\ at[c] = "plain" => c \notin open

HttpWaits == HttpInv /\ Signalled /\ Severed

LEMMA HttpWaitsStart == Http!Init => HttpWaits
BY HttpStart DEF HttpWaits, Signalled, Severed, Http!Init

\* Who has begun to close has set closing.
LEMMA ClosersMark ==
  ASSUME HttpWaits, NEW k \in Http!Callers, call[k] \in {"waiting", "httpClose", "joining"}
  PROVE  closing
BY DEF HttpWaits, HttpInv, DoneMeansDone, Signalled

LEMMA MovedWaits ==
  ASSUME HttpWaits, NEW c \in Conns, NEW l, Moved(c, l)
  PROVE  Signalled' /\ Severed'
<1>0. HttpTypes /\ Counted /\ Signalled /\ Severed
  BY DEF HttpWaits, HttpInv
<1>1. handlerCount \in Nat
  BY <1>0, FS_CardinalityType DEF Counted
<1>2. UNCHANGED <<serve, inShutdown, call>>
  BY DEF Moved
<1>3. Signalled'
  <2>1. CASE UNCHANGED handlerDone /\ handlerCount' \in {handlerCount, handlerCount + 1}
    BY <1>0, <1>1, <1>2, <2>1 DEF Signalled
  <2>2. CASE handlerCount' = handlerCount - 1 /\ Http!Signal(handlerCount - 1)
    <3>1. \A k \in Http!Callers : handlerDone'[k] =
            IF handlerCount' = 0 /\ handlerDone[k] = "open" THEN "closed" ELSE handlerDone[k]
      BY <2>2 DEF Http!Signal
    <3> QED
      BY <1>0, <1>2, <3>1 DEF Signalled
  <2> QED
    BY <2>1, <2>2 DEF Moved
<1>4. Severed'
  <2> SUFFICES ASSUME NEW k \in Http!Callers, NEW d \in Conns,
                      call'[k] \in {"httpClose", "joining"}, at'[d] \in {"plain", "tunnel"}
               PROVE  d # c /\ at'[d] = at[d] /\ (d \in open' => d \in open)
    BY <1>0, <1>2 DEF Severed
  <2>1. closing
    BY <1>2, ClosersMark
  <2>2. d # c
    BY <1>0, <2>1 DEF Moved, HttpTypes
  <2> QED
    BY <1>0, <2>2 DEF Moved, HttpTypes
<1> QED
  BY <1>3, <1>4

LEMMA CallWaits ==
  ASSUME HttpWaits, NEW k \in Http!Callers, Http!Progress(k) \/ Http!Expire(k)
  PROVE  Signalled' /\ Severed'
<1>0. HttpTypes /\ DoneMeansDone /\ Signalled /\ Severed
  BY DEF HttpWaits, HttpInv
<1>1. UNCHANGED <<at, serve, active, handlerCount>> /\ open' \subseteq open
  BY DEF Http!Progress, Http!StopAccepting, Http!ShutdownPolls, Http!ShutdownReturns,
         Http!MarkClosing, Http!Drained, Http!Close, Http!HttpClose, Http!CloseReturns,
         Http!Expire, Http!server, Http!requests, Http!calls
<1>2. Signalled'
  <2>1. CASE Http!MarkClosing(k) \/ Http!Close(k)
    <3>1. \A q \in Http!Callers :
            handlerDone'[q] = IF q # k THEN handlerDone[q]
                              ELSE IF handlerCount = 0 THEN "closed" ELSE "open"
      BY <1>0, <2>1 DEF HttpTypes, Http!MarkClosing, Http!Close, Http!TakeDone
    <3>2. \A q \in Http!Callers :
            /\ q # k => call'[q] = call[q]
            /\ call'[k] = "httpClose" \/ (call'[k] = "waiting" /\ call[k] = "marking")
      BY <1>0, <2>1 DEF HttpTypes, Http!MarkClosing, Http!Close, Http!Goto
    <3>3. inShutdown' = inShutdown
      BY <2>1 DEF Http!MarkClosing, Http!Close
    <3> QED
      BY <1>0, <1>1, <3>1, <3>2, <3>3 DEF Signalled
  <2>2. CASE ~(Http!MarkClosing(k) \/ Http!Close(k))
    BY <1>0, <1>1, <2>2 DEF Signalled, HttpTypes, Http!Progress, Http!StopAccepting,
       Http!ShutdownPolls, Http!ShutdownReturns, Http!Drained, Http!HttpClose,
       Http!CloseReturns, Http!Expire, Http!server, Http!requests, Http!calls, Http!Goto
  <2> QED
    BY <2>1, <2>2
<1>3. Severed'
  <2>1. CASE Http!Close(k)
    BY <1>0, <1>1, <2>1 DEF Severed, HttpTypes, Http!Close, Http!Goto, Http!At
  <2>2. CASE Http!HttpClose(k)
    BY <1>0, <1>1, <2>2 DEF Severed, HttpTypes, Http!HttpClose, Http!Goto, Http!At, Http!Owned
  <2>3. CASE ~(Http!Close(k) \/ Http!HttpClose(k))
    <3>1. \A q \in Http!Callers :
            call'[q] = call[q] \/ call'[q] \notin {"httpClose", "joining"}
      BY <1>0, <2>3 DEF HttpTypes, Http!Progress, Http!StopAccepting, Http!ShutdownPolls,
         Http!ShutdownReturns, Http!MarkClosing, Http!Drained, Http!CloseReturns, Http!Expire,
         Http!calls, Http!Goto
    <3> QED
      BY <1>0, <1>1, <3>1 DEF Severed
  <2> QED
    BY <2>1, <2>2, <2>3
<1> QED
  BY <1>2, <1>3

LEMMA HttpWaitsStep == HttpWaits /\ [Http!Next]_httpVars => HttpWaits'
<1> SUFFICES ASSUME HttpWaits, [Http!Next]_httpVars PROVE Signalled' /\ Severed'
  BY HttpStep DEF HttpWaits
<1>1. CASE Http!Serving \/ UNCHANGED httpVars
  <2>1. /\ UNCHANGED <<inShutdown, handlerCount, at, open, call, handlerDone>>
        /\ serve' \in {serve, "installed", "accepting", "ended"}
    BY <1>1 DEF Http!Serving, Http!ServeInstalls, Http!ServeAccepts, Http!ServeEnds, httpVars,
                Http!requests, Http!calls
  <2> QED
    BY <2>1 DEF HttpWaits, Signalled, Severed
<1>2. ASSUME NEW c \in Conns,
             \/ Http!Arrives(c) \/ Http!Leaves(c) \/ Http!Begin(c, "plain")
             \/ Http!Begin(c, "dialing")
             \/ Http!PlainEnds(c, "idle") \/ Http!PlainEnds(c, "gone") \/ Http!Dialled(c)
             \/ Http!DialFails(c, "idle") \/ Http!DialFails(c, "gone")
             \/ Http!Hijack(c) \/ Http!Track(c) \/ Http!TunnelEnds(c) \/ Http!ConnectEnds(c)
      PROVE  Signalled' /\ Severed'
  <2>1. PICK l : Moved(c, l)
    BY <1>2, ConnectionsMove DEF HttpWaits
  <2> QED
    BY <2>1, MovedWaits
<1>3. ASSUME NEW k \in Http!Callers, Http!Progress(k) \/ Http!Expire(k)
      PROVE  Signalled' /\ Severed'
  BY <1>3, CallWaits
<1> QED
  BY <1>1, <1>2, <1>3 DEF Http!Next

LEMMA HttpNeverStuck == HttpWaits => Http!NeverStuck
<1> SUFFICES ASSUME HttpWaits, NEW k \in Http!Callers
             PROVE  /\ call[k] \in {"waiting", "joining"} =>
                         handlerDone[k] = "closed" \/ Http!At(Http!Handled) # {}
                    /\ call[k] = "joining" =>
                         \A c \in Http!At(Http!Handled) : Http!HandlersTurn(c)
                    /\ call[k] \in {"marking", "waiting", "joining", "returned"} =>
                         Http!ServesTurn \/ serve = "ended"
  BY DEF Http!NeverStuck
<1>0. HttpTypes /\ Counted /\ Signalled /\ Severed
  BY DEF HttpWaits, HttpInv
<1>1. handlerCount # 0 => Http!At(Http!Handled) # {}
  BY <1>0, FS_EmptySet DEF Counted
<1>2. ASSUME call[k] \in {"waiting", "joining"}
      PROVE  handlerDone[k] = "closed" \/ Http!At(Http!Handled) # {}
  BY <1>0, <1>1, <1>2 DEF HttpTypes, Signalled
<1>3. ASSUME call[k] = "joining", NEW c \in Http!At(Http!Handled) PROVE Http!HandlersTurn(c)
  BY <1>0, <1>3 DEF Severed, Http!At, Http!Handled, Http!HandlersTurn
<1>4. ASSUME call[k] \in {"marking", "waiting", "joining", "returned"}
      PROVE  Http!ServesTurn \/ serve = "ended"
  BY <1>0, <1>4 DEF Signalled, Http!ServesTurn
<1> QED
  BY <1>2, <1>3, <1>4

\* A watchdog ends when it has closed the connections, or when the session has.
WatchdogLast == watchdog = "done" => relayOpen = {}

LEMMA WatchdogLastStep == RelayInv /\ WatchdogLast /\ [Relay!Next]_relayVars => WatchdogLast'
<1> SUFFICES ASSUME RelayInv, WatchdogLast, [Relay!Next]_relayVars, watchdog' = "done"
             PROVE  relayOpen' = {}
  BY DEF WatchdogLast
<1>1. CASE Relay!WatchdogCloses
  BY <1>1 DEF Relay!WatchdogCloses
<1>2. CASE Relay!WatchdogStops
  BY <1>2 DEF RelayInv, Received, Relay!WatchdogStops
<1>3. CASE ~Relay!WatchdogCloses /\ ~Relay!WatchdogStops
  <2>1. watchdog' = watchdog \/ watchdog' = "closing"
    BY <1>3 DEF Relay!Next, Relay!Sends, Relay!Ends, Relay!ServerCloses, Relay!Tick,
       Relay!Copier, Relay!Reads, Relay!Writes, Relay!CopyFails, Relay!Reports, Relay!Watchdog,
       Relay!Fires, Relay!Session, Relay!First, Relay!Second, Relay!Returns, Relay!clock,
       relayVars
  <2>2. relayOpen' \subseteq relayOpen
    BY <1>3 DEF Relay!Next, Relay!Sends, Relay!Ends, Relay!ServerCloses, Relay!Tick,
       Relay!Copier, Relay!Reads, Relay!Writes, Relay!CopyFails, Relay!Reports, Relay!Watchdog,
       Relay!Fires, Relay!Session, Relay!First, Relay!Second, Relay!Returns, relayVars
  <2> QED
    BY <2>1, <2>2 DEF WatchdogLast
<1> QED
  BY <1>1, <1>2, <1>3

LEMMA RelayNeverStuck == RelayInv /\ WatchdogLast => Relay!NeverStuck
<1> SUFFICES ASSUME RelayInv, WatchdogLast PROVE Relay!NeverStuck
  OBVIOUS
<1>0. RelayTypes /\ Received
  BY DEF RelayInv
<1>1. ASSUME relayMain \in {"first", "second"}, errCh = <<>>
      PROVE  \E s \in Relay!Sides : copier[s] # "done"
  BY <1>0, <1>1 DEF Received, Relay!Sides, Relay!Other
<1>2. ASSUME NEW s \in Relay!Sides, copier[s] # "done", watchdog = "done"
      PROVE  Relay!CopiersTurn(s)
  BY <1>0, <1>2 DEF WatchdogLast, RelayTypes, Relay!CopiersTurn
<1>3. ASSUME relayMain = "stopping" PROVE Relay!SessionsTurn \/ Relay!WatchdogsTurn
  BY <1>0, <1>3 DEF RelayTypes, Relay!SessionsTurn, Relay!WatchdogsTurn
<1> QED
  BY <1>1, <1>2, <1>3 DEF Relay!NeverStuck, Relay!SessionsTurn

\* A watcher ends during the wait only when it has closed the listener, and the control
\* connection has no reader when the wait is over.
Watchful ==
  /\ ctxWatch \in {"none", "waiting", "done"}
  /\ bindMain \in {"accept", "failed", "stopping"} => watch # "none" /\ ctxWatch # "none"
  /\ bindMain = "accept" /\ (watch = "done" \/ ctxWatch = "done") => ~bindListening
  /\ bindMain \in {"finished", "replying", "relay", "done"} => watch # "reading"

LEMMA WatchfulStart == Bind!Init => Watchful
BY DEF Bind!Init, Watchful

LEMMA WatchfulStep ==
  Bind!PeersAssumption /\ BindInv /\ Watchful /\ [Bind!Next]_bindVars => Watchful'
<1> SUFFICES ASSUME BindInv, Watchful, [Bind!Next]_bindVars PROVE Watchful'
  OBVIOUS
<1>0. /\ bindMain = "start" => watch = "none" /\ ctxWatch = "none"
      /\ watch = "reading" => bindResult = "none"
  BY DEF BindInv, ClosedForReason, Watched
<1>1. CASE \/ Bind!ClientSends \/ Bind!ClientEnds \/ Bind!ListenerTimesOut
           \/ Bind!ServerCloses
           \/ Bind!ContextEnds("cancelled") \/ Bind!ContextEnds("deadline")
           \/ \E p \in Peers : Bind!PeerDials(p)
  BY <1>1, BindOutside DEF Watches, Watchful
<1>2. CASE Bind!ControlWatch
  BY <1>2 DEF Bind!ControlWatch, Bind!WatchReads, Bind!WatchSends, Bind!WatchCloses,
     Bind!session, Watchful
<1>3. CASE Bind!ContextWatch
  BY <1>3 DEF Bind!ContextWatch, Bind!session, Bind!control, Watchful
<1>4. CASE Bind!Starts
  BY <1>4 DEF Bind!Starts, Watchful
<1>5. CASE Bind!AcceptFails
  BY <1>0, <1>5 DEF Bind!AcceptFails, Watchful
<1>6. CASE Bind!Stopped
  BY <1>0, <1>6 DEF Bind!Stopped, Watchful
<1>7. CASE Bind!StartFails \/ Bind!Fails \/ Bind!Track \/ Bind!Announces \/ Bind!RelayEnds
  BY <1>0, <1>7 DEF Bind!StartFails, Bind!Fails, Bind!Track, Bind!Announces, Bind!RelayEnds,
     Bind!Leave, Bind!control, Watchful
<1>8. CASE Bind!FailsWithoutControl \/ \E p \in Peers : Bind!Refuses(p) \/ Bind!Accepts(p)
  BY <1>8 DEF Bind!FailsWithoutControl, Bind!Refuses, Bind!Accepts, Bind!session, Bind!control,
     Watchful
<1>9. CASE UNCHANGED bindVars
  BY <1>9 DEF bindVars, Watchful
<1> QED
  BY <1>1, <1>2, <1>3, <1>4, <1>5, <1>6, <1>7, <1>8, <1>9 DEF Bind!Next, Bind!Session

LEMMA BindNeverStuck == BindInv /\ Watchful => Bind!NeverStuck
<1> SUFFICES ASSUME BindInv, Watchful PROVE Bind!NeverStuck
  OBVIOUS
<1>0. BindTypes /\ Watched /\ (pastDeadline <=> bindMain = "stopping")
  BY DEF BindInv
<1>1. ASSUME bindMain = "stopping" PROVE Bind!SessionsTurn \/ Bind!WatchersTurn
  BY <1>0, <1>1 DEF BindTypes, Watched, Watchful, Bind!SessionsTurn, Bind!WatchersTurn
<1>2. ASSUME bindMain = "accept",
             unread \/ client # "open" \/ watch # "reading" \/ ctx # "live"
      PROVE  Bind!SessionsTurn \/ Bind!WatchersTurn \/ Bind!ContextsTurn
  BY <1>0, <1>2 DEF BindTypes, Watchful, Bind!SessionsTurn, Bind!WatchersTurn,
     Bind!ContextsTurn
<1>3. ASSUME bindMain \in {"finished", "replying", "relay", "done"}
      PROVE  /\ watch \in {"none", "done"} \/ Bind!WatchersTurn
             /\ ctxWatch = "waiting" => Bind!ContextsTurn
  BY <1>0, <1>3 DEF BindTypes, Watchful, Bind!WatchersTurn, Bind!ContextsTurn
<1> QED
  BY <1>1, <1>2, <1>3 DEF Bind!NeverStuck

-----------------------------------------------------------------------------
(* Each component on its own                                               *)

\* When Close or GracefulClose has returned, no handler of the server runs, no tunnel and no
\* upstream connection is left; until then it waits for a handler that will tell it, and Close
\* for none that waits in its turn; and as long as nothing forces it, a drain cuts no plain
\* request and no tunnel (httpproxy/server.go:160-176, 183-184, 194-211, 280-300).
THEOREM HttpDrains ==
  Http!Spec => [](Http!NothingLeft /\ Http!NeverStuck) /\ Http!DrainKeepsWork
<1>1. HttpWaits /\ [Http!Next]_(Http!vars) => HttpWaits'
  BY HttpWaitsStep, HttpVars
<1>2. HttpWaits => HttpInv
  BY DEF HttpWaits
<1>3. HttpInv /\ [Http!Next]_(Http!vars) =>
        [\A c \in open : at[c] \in {"plain", "tunnel"} /\ c \notin open' =>
           at'[c] # at[c] \/ Http!Forced']_(Http!vars)
  BY HttpKeepsWork, HttpVars
<1> QED
  BY <1>1, <1>2, <1>3, HttpNothingLeft, HttpNeverStuck, HttpWaitsStart, PTL
  DEF Http!Spec, Http!DrainKeepsWork

\* A peer is announced only if it is admitted and its control connection untouched, a
\* request that ended was answered, for the reason it ended, and none of its goroutines waits
\* for ever (bind.go:72-90, 222-285).
THEOREM BindIsSettled ==
  Bind!Spec =>
    [](Bind!AnnouncedIntact /\ Bind!CauseReported /\ Bind!Answered /\ Bind!NeverStuck)
<1>1. Bind!Init => BindInv /\ Watchful
  BY BindStart, WatchfulStart
<1>2. Bind!PeersAssumption /\ BindInv /\ Watchful /\ [Bind!Next]_(Bind!vars) =>
        BindInv' /\ Watchful'
  BY BindStep, WatchfulStep, BindVars
<1>3. Bind!PeersAssumption
  BY TunnelsAssumption
<1> QED
  BY <1>1, <1>2, <1>3, BindKept, BindNeverStuck, PTL DEF Bind!Spec

\* What Bidirectional has returned from leaves nothing behind, and until it returns what it
\* waits for goes on; a tunnel is cut neither early nor late, and a clean end has delivered
\* everything (relay.go:58-97).
THEOREM RelayIsCutWhenDue ==
  Relay!Spec => [](/\ Relay!NothingLeft /\ Relay!NeverStuck /\ Relay!HalfCloseKept
                   /\ Relay!CutInTime /\ Relay!CleanEnd)
<1>1. Relay!RelayAssumption
  BY TunnelsAssumption
<1>2. Relay!Init => WatchdogLast
  BY DEF Relay!Init, WatchdogLast
<1>3. Relay!RelayAssumption /\ RelayInv /\ WatchdogLast /\ [Relay!Next]_(Relay!vars) =>
        RelayInv' /\ WatchdogLast'
  BY RelayStep, WatchdogLastStep, RelayVars
<1> QED
  BY <1>1, <1>2, <1>3, RelayKept, RelayNeverStuck, RelayStart, PTL DEF Relay!Spec

-----------------------------------------------------------------------------
(* What the run checks                                                     *)

TunnelsInv == HttpWaits /\ BindInv /\ Watchful /\ RelayInv /\ WatchdogLast

LEMMA TunnelsStart == Init => TunnelsInv
<1> SUFFICES ASSUME Init PROVE TunnelsInv
  OBVIOUS
<1>1. HttpWaits /\ BindInv /\ Watchful /\ RelayInv
  BY HttpWaitsStart, BindStart, WatchfulStart, RelayStart, TunnelsAssumption DEF Init
<1>2. WatchdogLast
  BY DEF Init, Relay!Init, WatchdogLast
<1> QED
  BY <1>1, <1>2 DEF TunnelsInv

LEMMA TunnelsMove ==
  [Next]_vars => [Http!Next]_httpVars /\ [Bind!Next]_bindVars /\ [Relay!Next]_relayVars
BY DEF Next, vars

LEMMA TunnelsStep == TunnelsInv /\ [Next]_vars => TunnelsInv'
BY TunnelsMove, HttpWaitsStep, BindStep, WatchfulStep, RelayStep, WatchdogLastStep,
   TunnelsAssumption DEF TunnelsInv

\* The type invariants, the counts and the results that the four theorems below rest on hold
\* in every behaviour of the run.
THEOREM TunnelsSound == Spec => []TunnelsInv
BY TunnelsStart, TunnelsStep, PTL DEF Spec

\* What has returned leaves nothing behind: after Close or GracefulClose no handler, tunnel or
\* upstream connection, after Bidirectional no goroutine and no connection; and until then
\* whoever it waits for can go on
\* (httpproxy/server.go:160-176, 196-211, netrelay/relay.go:58-97).
THEOREM TunnelsLeaveNothing == Spec => []NothingLeft
<1>1. TunnelsInv => NothingLeft
  BY HttpNothingLeft, HttpNeverStuck, RelayKept, RelayNeverStuck
  DEF TunnelsInv, HttpWaits, NothingLeft
<1> QED
  BY <1>1, TunnelsSound, PTL

\* A drain of the HTTP server cuts no plain request and no established tunnel
\* (httpproxy/server.go:183-184, 194-195).
THEOREM TunnelsKeepWork == Spec => DrainKeepsWork
<1>1. TunnelsInv /\ [Next]_vars =>
        [\A c \in open : at[c] \in {"plain", "tunnel"} /\ c \notin open' =>
           at'[c] # at[c] \/ Http!Forced']_(Http!vars)
  BY TunnelsMove, HttpKeepsWork, HttpVars DEF TunnelsInv, HttpWaits
<1> QED
  BY <1>1, TunnelsSound, PTL DEF Spec, DrainKeepsWork, Http!DrainKeepsWork

\* The peer of a BIND request is announced over an untouched control connection, and a request
\* that has ended was answered for the reason it ended; no goroutine of it waits for ever
\* (bind.go:72-90, 222-285).
THEOREM TunnelsSettleBind == Spec => []BindSettled
<1>1. TunnelsInv => BindSettled
  BY BindKept, BindNeverStuck DEF TunnelsInv, BindSettled
<1> QED
  BY <1>1, TunnelsSound, PTL

\* A tunnel is cut neither early nor late: a peer that ends its direction goes on receiving,
\* silence is cut in time, and a clean end has delivered everything (relay.go:58-64, 79-97).
THEOREM TunnelsCutWhenDue == Spec => []CutWhenDue
<1>1. TunnelsInv => CutWhenDue
  BY RelayKept DEF TunnelsInv, CutWhenDue
<1> QED
  BY <1>1, TunnelsSound, PTL
=============================================================================
