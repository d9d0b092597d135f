------------------------------ MODULE MCPages ------------------------------
(* The browser's side, for TLC: the tab of the console, its forms and pages, *)
(* and the diagnosis of its menus.  They share no state that is modelled, so *)
(* that a behaviour is one of one of them: subject says which, and the       *)
(* variables of the others keep their initial values.                        *)
EXTENDS Console, ServerForm

CONSTANTS
  Editors, MaxEditorEdits, MaxUnfit,
  Queries, Filters, MaxRevisions, MaxRequests,
  OpenTabs, Instances, Apart, Window, MaxPoints, MaxTime, MaxBack, MaxBytes, MaxRestarts,
  Runs, Triggers, MaxEvents, MaxErrors

VARIABLES
  subject,
  signedIn, editing, editor, isNew, draft, unfit, editorEdits, tab, invalid, saving,
  editorError, confirming, request, querySelected, revision, effect, current, requests,
  data, loading, queryError, now, service, generation, counter, counted, restarts, seen,
  history, stored, last, listening, selectSelected, captured, events, snapshots, errors,
  selectTimers, printed

\* A server to be edited: the other switches are turned on in its editor
EditorStored == {{"auth", "upstream", "bind", "doh", "udp"}}

Edit == INSTANCE Editor WITH
  Stored <- EditorStored, MaxEdits <- MaxEditorEdits, edits <- editorEdits,
  error <- editorError
Query == INSTANCE QueryView WITH
  selected <- querySelected, error <- queryError
Chart == INSTANCE TrafficHistory WITH
  Tabs <- OpenTabs
Diagnosis == INSTANCE SelectDiagnostics WITH
  selected <- selectSelected, timers <- selectTimers

ASSUME PagesAssumption ==
  /\ ConsoleAssumption /\ ServerFormAssumption /\ Edit!EditorAssumption
  /\ Query!QueryAssumption /\ Chart!HistoryAssumption /\ Diagnosis!SelectAssumption

editorVars ==
  <<signedIn, editing, editor, isNew, draft, unfit, editorEdits, tab, invalid, saving,
    editorError, confirming, request>>
queryVars ==
  <<querySelected, revision, effect, current, requests, data, loading, queryError>>
historyVars ==
  <<now, service, generation, counter, counted, restarts, seen, history, stored>>
selectVars ==
  <<last, listening, selectSelected, captured, events, snapshots, errors, selectTimers,
    printed>>

PagesInit ==
  /\ subject \in {"console", "editor", "form", "query", "history", "select"}
  /\ Init /\ Edit!Init /\ FormInit /\ Query!Init /\ Chart!Init /\ Diagnosis!Init
  \* one initial state is enough of what does not move
  /\ subject # "console" => cookie = 0
  /\ subject # "form" => users = [u \in Users |-> Empty] /\ dns = Nothing.dns
                          /\ udp = Nothing.udp
  /\ subject # "query" => querySelected = CHOOSE f \in Filters : TRUE

PagesNext ==
  \/ /\ subject = "console" /\ Next
     /\ UNCHANGED <<subject, editorVars, formVars, queryVars, historyVars, selectVars>>
  \/ /\ subject = "editor" /\ Edit!Next
     /\ UNCHANGED <<subject, vars, formVars, queryVars, historyVars, selectVars>>
  \/ /\ subject = "form" /\ FormNext
     /\ UNCHANGED <<subject, vars, editorVars, queryVars, historyVars, selectVars>>
  \/ /\ subject = "query" /\ Query!Next
     /\ UNCHANGED <<subject, vars, editorVars, formVars, historyVars, selectVars>>
  \/ /\ subject = "history" /\ Chart!Next
     /\ UNCHANGED <<subject, vars, editorVars, formVars, queryVars, selectVars>>
  \/ /\ subject = "select" /\ Diagnosis!Next
     /\ UNCHANGED <<subject, vars, editorVars, formVars, queryVars, historyVars>>

allVars ==
  <<subject, vars, editorVars, formVars, queryVars, historyVars, selectVars>>

PagesSpec == PagesInit /\ [][PagesNext]_allVars

\* What happens to the console from outside, in one behaviour: one change, one new name, one
\* fault or one login that ends for the server, whatever the tab and another one's login do
OneSurprise == rev + name + faults + Cardinality((1..logins) \ valid) <= 1

-----------------------------------------------------------------------------
(* SocketDiscipline is that of Console, CredentialsKept and SavedAsLoaded are those  *)
(* of ServerForm.  The properties of the others, see there:                              *)

\* A form that is not accepted selects the tab of the field it complains of
\* (ServerEditor.tsx:537-561).
FirstErrorShown == Edit!FirstErrorShown

\* A page that neither loads nor complains shows what is selected (useQuery.ts:4-31).
FreshAnswer == subject = "query" => Query!FreshAnswer

\* The curve has each byte once (useOverview.ts:46-89).
ChartedOnce == subject = "history" => Chart!ChartedOnce

\* One diagnosis at a time, with whole reports (debug-webui-select.js:100-213).
WholeReports == subject = "select" => Diagnosis!WholeReports
=============================================================================
