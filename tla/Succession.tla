----------------------------- MODULE Succession -----------------------------
(***************************************************************************)
(* What a server whose configuration is changed while it is used promises  *)
(* to its clients.  A generation serves until the next one takes its       *)
(* place; then it keeps the sessions it has, first those of its HTTP       *)
(* server, which dial through its SOCKS5 server, and then the others,      *)
(* until they have ended or its time is over.  Generations succeed one     *)
(* another: one that was replaced never serves again, and one that is over *)
(* has nothing left.  Once the program ends nothing more is promised of    *)
(* the sessions that are there.                                            *)
(***************************************************************************)
EXTENDS Integers

CONSTANT Gen        \* the generations, numbered in the order of their creation

VARIABLES
  life,    \* of each generation, see Life
  live,    \* the sessions: pairs of a generation and one of its servers
  due,     \* replaced generations whose time is over
  ended    \* the program ends

vars == <<life, live, due, ended>>

Life     == {"none", "current", "retired", "closing", "over"}
Replaced == {"retired", "closing"}
Of(g)    == {<<g, "socks">>, <<g, "http">>}

Init ==
  /\ life = [g \in Gen |-> "none"]
  /\ live = {} /\ due = {} /\ ended = FALSE

Newest(g) == \A h \in Gen : life[h] # "none" => h < g

\* g is created and takes the place of the current generation, if there is one
Succeeds(g) ==
  /\ ~ended /\ Newest(g)
  /\ life' = [h \in Gen |-> IF h = g THEN "current"
                            ELSE IF life[h] = "current" THEN "retired" ELSE life[h]]
  /\ UNCHANGED <<live, due, ended>>

\* g is created and does not start
Stillborn(g) ==
  /\ Newest(g)
  /\ life' = [life EXCEPT ![g] = "over"]
  /\ UNCHANGED <<live, due, ended>>

\* The current generation is stopped, and its sessions with it
Stops(g) ==
  /\ life[g] = "current"
  /\ life' = [life EXCEPT ![g] = "over"]
  /\ live' = live \ Of(g)
  /\ UNCHANGED <<due, ended>>

\* The server s of a replaced generation is closed: it has no session, or the
\* generation's time is over
ClosesServer(g, s) ==
  /\ <<g, s>> \in live => g \in due
  /\ live' = live \ {<<g, s>>}

\* The HTTP server is the first,
ClosesHTTP(g) ==
  /\ life[g] = "retired"
  /\ ClosesServer(g, "http")
  /\ life' = [life EXCEPT ![g] = "closing"]
  /\ UNCHANGED <<due, ended>>

\* and with the SOCKS5 server the generation is over.
ClosesSOCKS(g) ==
  /\ life[g] = "closing"
  /\ ClosesServer(g, "socks")
  /\ life' = [life EXCEPT ![g] = "over"]
  /\ due' = due \ {g}
  /\ UNCHANGED ended

\* Time is over for some of the replaced generations
TimesOut ==
  /\ due' # due /\ due \subseteq due'
  /\ \A g \in due' \ due : g \in Gen /\ life[g] \in Replaced
  /\ UNCHANGED <<life, live, ended>>

\* An HTTP request may come on a connection that was there before its server retired
Begins(g, s) ==
  /\ <<g, s>> \notin live
  /\ live' = live \cup {<<g, s>>}
  /\ \/ life[g] = "current"
     \/ life[g] = "retired" /\ s = "http"
     \/ life[g] = "over" /\ ended
  /\ UNCHANGED <<life, due, ended>>

Ends(g, s) ==
  /\ <<g, s>> \in live
  /\ live' = live \ {<<g, s>>}
  /\ UNCHANGED <<life, due, ended>>

\* The program ends, and cuts what it likes
Halts ==
  /\ ~ended
  /\ ended' = TRUE
  /\ life' = [g \in Gen |-> IF life[g] = "none" THEN "none" ELSE "over"]
  /\ due' = {}
  /\ UNCHANGED live

Cuts ==
  /\ ended
  /\ live' \subseteq live
  /\ UNCHANGED <<life, due, ended>>

Next ==
  \/ /\ life' # life
     /\ \E g \in Gen : \/ Succeeds(g) \/ Stillborn(g) \/ Stops(g)
                       \/ ClosesHTTP(g) \/ ClosesSOCKS(g)
  \/ /\ live' # live
     /\ Cuts \/ \E g \in Gen, s \in {"socks", "http"} : Begins(g, s) \/ Ends(g, s)
  \/ TimesOut \/ Halts

Spec == Init /\ [][Next]_vars
=============================================================================
