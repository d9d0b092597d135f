------------------------- MODULE SelectDiagnostics --------------------------
(* scripts/debug-webui-select.js: a diagnosis pasted into the console of a   *)
(* browser.  It waits for somebody to open a Select, looks at the page five  *)
(* times, prints one report and goes away; it may be pasted again at any     *)
(* moment.  A run is one evaluation of the file.                             *)
EXTENDS Integers, Sequences, SequencesExt

CONSTANTS
  Runs,        \* how often the file is pasted: 1..n
  Triggers,    \* the Select elements of the page
  MaxEvents,   \* events.length >= 40
  MaxErrors    \* bound: errors of the page that one run hears of

NoTrigger == "none"

SelectAssumption ==
  /\ Runs # {} /\ Runs \subseteq Nat \ {0} /\ Triggers # {} /\ NoTrigger \notin Triggers
  /\ MaxEvents \in Nat \ {0} /\ MaxErrors \in Nat

VARIABLES
  last,        \* the run window.__wwanSelectDiagnostics is of; 0: none
  listening,   \* the runs whose listeners are installed
  selected, captured, events, snapshots, errors,   \* the variables of each run
  timers,      \* its timers, in the order they are due
  printed      \* the reports, in the order they were printed

vars == <<last, listening, selected, captured, events, snapshots, errors, timers, printed>>

Pointer == {"click"}          \* pointerdown, mousedown, click
OpeningKeys == {"Enter"}      \* Enter, ArrowDown, the space bar
Interactions ==
  [type : Pointer \cup {"pointerup", "focusin"}, key : {"none"}]
    \cup [type : {"keydown"}, key : OpeningKeys \cup {"Escape", "Tab"}]

Delays == <<0, 100, 400, 1200>>
Printing == 2000

Init ==
  /\ last = 0 /\ listening = {}
  /\ selected = [r \in Runs |-> NoTrigger] /\ captured = [r \in Runs |-> FALSE]
  /\ events = [r \in Runs |-> << >>] /\ snapshots = [r \in Runs |-> << >>]
  /\ errors = [r \in Runs |-> 0] /\ timers = [r \in Runs |-> << >>]
  /\ printed = << >>

\* Fault: stop() forgets the timers
StopsListening(r) == UNCHANGED timers

\* stop(), the timers
StopsTimers(r) == timers' = [timers EXCEPT ![r] = << >>]

\* stop()
Stops(r) ==
  /\ listening' = listening \ {r}
  /\ IF r \in listening THEN StopsTimers(r) ELSE UNCHANGED timers

\* The file is pasted: what the last one left is stopped, the listeners are installed
Paste(r) ==
  /\ r = last + 1 /\ last' = r
  /\ IF last = 0 THEN listening' = {r} /\ UNCHANGED timers
     ELSE /\ listening' = (listening \ {last}) \cup {r}
          /\ IF last \in listening THEN StopsTimers(last) ELSE UNCHANGED timers
  /\ UNCHANGED <<selected, captured, events, snapshots, errors, printed>>

\* __wwanSelectDiagnostics.stop(), by hand
StopCalled ==
  /\ last # 0 /\ Stops(last)
  /\ UNCHANGED <<last, selected, captured, events, snapshots, errors, printed>>

\* Focus alone does not open a menu
Opens(i) == i.type \in Pointer \/ i.key \in OpeningKeys

\* The early returns of onInteraction
Heard(r, t, i) ==
  /\ selected[r] \in {NoTrigger, t} /\ Len(events[r]) < MaxEvents
  /\ i.type = "keydown" => i.key \in OpeningKeys \cup {"Escape"}
  /\ captured[r] \/ Opens(i)

\* onInteraction; every run that listens hears it
Interact(t, i) ==
  LET Hear == {r \in listening : Heard(r, t, i)}
      First == {r \in Hear : ~captured[r]}
  IN /\ Hear # {}
     /\ selected' = [r \in Runs |-> IF r \in Hear THEN t ELSE selected[r]]
     /\ events' = [r \in Runs |->
          IF r \in Hear THEN Append(events[r], [trigger |-> t, event |-> i]) ELSE events[r]]
     /\ captured' = [r \in Runs |-> captured[r] \/ r \in Hear]
     /\ snapshots' = [r \in Runs |-> IF r \in First THEN <<-1>> ELSE snapshots[r]]
     /\ timers' = [r \in Runs |-> IF r \in First THEN Append(Delays, Printing) ELSE timers[r]]
     /\ UNCHANGED <<last, listening, errors, printed>>

\* onError and onRejection
Error ==
  /\ \E r \in listening : errors[r] < MaxErrors
  /\ errors' = [r \in Runs |->
       IF r \in listening /\ errors[r] < MaxErrors THEN errors[r] + 1 ELSE errors[r]]
  /\ UNCHANGED <<last, listening, selected, captured, events, snapshots, timers, printed>>

\* The next timer of a run: a snapshot, or the report and the end
Timer(r) ==
  /\ timers[r] # << >>
  /\ IF Head(timers[r]) # Printing
       THEN /\ snapshots' = [snapshots EXCEPT ![r] = Append(@, Head(timers[r]))]
            /\ timers' = [timers EXCEPT ![r] = Tail(@)]
            /\ UNCHANGED <<listening, printed>>
       ELSE /\ printed' = Append(printed,
                 [run |-> r, events |-> events[r], snapshots |-> snapshots[r]])
            /\ listening' = listening \ {r} /\ timers' = [timers EXCEPT ![r] = << >>]
            /\ UNCHANGED snapshots
  /\ UNCHANGED <<last, selected, captured, events, errors>>

Next ==
  \/ StopCalled \/ Error
  \/ \E r \in Runs : Paste(r) \/ Timer(r)
  \/ \E t \in Triggers, i \in Interactions : Interact(t, i)

Spec == Init /\ [][Next]_vars

-----------------------------------------------------------------------------
(* Properties *)

TypeOK ==
  /\ last \in Runs \cup {0} /\ listening \subseteq Runs
  /\ selected \in [Runs -> Triggers \cup {NoTrigger}] /\ captured \in [Runs -> BOOLEAN]
  /\ \A r \in Runs :
       /\ Len(events[r]) <= MaxEvents /\ Range(events[r]) \subseteq [trigger : Triggers, event : Interactions]
       /\ Range(snapshots[r]) \subseteq Range(Delays) \cup {-1}
       /\ Range(timers[r]) \subseteq Range(Delays) \cup {Printing}
  /\ errors \in [Runs -> 0..MaxErrors]
  /\ \A k \in DOMAIN printed : printed[k].run \in Runs

\* However often the file is pasted, one run listens, and the reports are of different runs in
\* the order of their pasting: a run that was replaced or stopped records and prints nothing
\* more.  Each report begins with what opened a menu, is about one Select, and has the five
\* views, from before the menu was drawn to more than a second after it.
WholeReports ==
  /\ listening \subseteq {last} /\ \A r \in Runs : timers[r] # << >> => r \in listening
  /\ \A k \in DOMAIN printed :
       /\ \A j \in 1..k - 1 : printed[j].run < printed[k].run
       /\ printed[k].snapshots = <<-1>> \o Delays
       /\ Opens(Head(printed[k].events).event)
       /\ \A e \in Range(printed[k].events) : e.trigger = Head(printed[k].events).trigger
=============================================================================
