----------------------------- MODULE QueryView ------------------------------
(* A page that shows what the API answers for the filters that are selected  *)
(* (web/src/hooks/useQuery.ts, and LogsPage, EventsPage and StatisticsPage in *)
(* web/src/pages).  Statistics has two queries of one range, the others have *)
(* one.  What is selected is rendered, and the effect run, some time later;  *)
(* until then the answer to the last request is still welcome.               *)
EXTENDS Naturals

CONSTANTS
  Queries,      \* the queries of the page
  Filters,      \* level and text; type and device; server and range with its end
  MaxRevisions, \* bound: clicks on the refresh button
  MaxRequests   \* bound: requests of one query

QueryAssumption == Filters # {} /\ MaxRevisions \in Nat /\ MaxRequests \in Nat \ {0}

VARIABLES
  selected, revision,   \* the filter and the revisions of the queries, as they were set last
  effect,               \* what the last effect of each query was run for
  current, requests,    \* its request, and all that were made: what for, and what came of it
  data, loading, error  \* the state of each query

vars == <<selected, revision, effect, current, requests, data, loading, error>>

Keys == [filter : Filters, revision : 0..MaxRevisions]
Nothing == [filter |-> "nothing", revision |-> 0]
Key(q) == [filter |-> selected, revision |-> revision[q]]
Unused == [for |-> Nothing, is |-> "unused"]

Init ==
  /\ selected \in Filters /\ revision = [q \in Queries |-> 0]
  /\ effect = [q \in Queries |-> Nothing] /\ current = [q \in Queries |-> 0]
  /\ requests = [q \in Queries |-> [n \in 1..MaxRequests |-> Unused]]
  /\ data = [q \in Queries |-> Nothing] /\ loading = [q \in Queries |-> TRUE]
  /\ error = [q \in Queries |-> FALSE]

\* setLevel, setQuery, setType, setDevice; setServer and setRange with setEnd
Select(f) ==
  /\ selected' = f /\ f # selected
  /\ UNCHANGED <<revision, effect, current, requests, data, loading, error>>

\* The refresh button, which a page that is loading does not have.  Statistics moves the
\* end of its range as well.
Refresh ==
  /\ \A q \in Queries : ~loading[q] /\ revision[q] < MaxRevisions
  /\ revision' = [q \in Queries |-> revision[q] + 1]
  /\ selected' \in (IF Queries = {"points", "summary"} THEN Filters ELSE {selected})
  /\ UNCHANGED <<effect, current, requests, data, loading, error>>

\* The effect of useQuery, [path, revision]: the old request is aborted.  One commit runs
\* those of all queries.
Effect ==
  /\ \E q \in Queries : effect[q] # Key(q)
  /\ \A q \in Queries : effect[q] # Key(q) => current[q] < MaxRequests
  /\ LET Due == {q \in Queries : effect[q] # Key(q)}
     IN /\ effect' = [q \in Queries |-> Key(q)]
        /\ current' = [q \in Queries |-> IF q \in Due THEN current[q] + 1 ELSE current[q]]
        /\ requests' = [q \in Queries |->
             IF q \in Due THEN [requests[q] EXCEPT ![current'[q]] =
                                  [for |-> Key(q), is |-> "asked"]]
                          ELSE requests[q]]
        /\ loading' = [q \in Queries |-> loading[q] \/ q \in Due]
        /\ error' = [q \in Queries |-> error[q] /\ q \notin Due]
  /\ UNCHANGED <<selected, revision, data>>

\* The network answers, fails, or lets an aborted request go; in any order
Answered(q, n) ==
  /\ requests[q][n].is = "asked"
  /\ \E a \in {"told", "failed"} : requests' = [requests EXCEPT ![q][n].is = a]
  /\ UNCHANGED <<selected, revision, effect, current, data, loading, error>>

\* Fault: the handlers do not ask whether the request was aborted
WelcomeAlways(q, n) == TRUE
Welcome(q, n) == n = current[q]      \* !controller.signal.aborted

\* then, catch and finally
Told(q, n) ==
  /\ requests[q][n].is \in {"told", "failed"}
  /\ requests' = [requests EXCEPT ![q][n] = Unused]
  /\ IF ~Welcome(q, n) THEN UNCHANGED <<data, loading, error>>
     ELSE /\ loading' = [loading EXCEPT ![q] = FALSE]
          /\ IF requests[q][n].is = "told"
               THEN data' = [data EXCEPT ![q] = requests[q][n].for] /\ UNCHANGED error
               ELSE error' = [error EXCEPT ![q] = TRUE] /\ UNCHANGED data
  /\ UNCHANGED <<selected, revision, effect, current>>

Next ==
  \/ Refresh \/ Effect
  \/ \E f \in Filters : Select(f)
  \/ \E q \in Queries, n \in 1..MaxRequests : Answered(q, n) \/ Told(q, n)

Spec == Init /\ [][Next]_vars

-----------------------------------------------------------------------------
(* Properties *)

TypeOK ==
  /\ selected \in Filters /\ revision \in [Queries -> 0..MaxRevisions]
  /\ effect \in [Queries -> Keys \cup {Nothing}] /\ current \in [Queries -> 0..MaxRequests]
  /\ requests \in [Queries -> [1..MaxRequests ->
       [for : Keys \cup {Nothing}, is : {"unused", "asked", "told", "failed"}]]]
  /\ data \in [Queries -> Keys \cup {Nothing}] /\ loading \in [Queries -> BOOLEAN]
  /\ error \in [Queries -> BOOLEAN]

\* A page whose effects have run, and that says neither "loading" nor "error", shows the
\* answer for what is selected now, whatever order the answers came in; so the curve and
\* the sums of the statistics page are of one server and one range.
FreshAnswer ==
  \A q \in Queries :
    effect[q] = Key(q) /\ ~loading[q] /\ ~error[q] => data[q] = Key(q)
=============================================================================
