------------------------------- MODULE Editor -------------------------------
(* The editor of a server (web/src/components/ServerEditor.tsx, with         *)
(* KeyValueFields.tsx), and the dashboard that opens and closes it           *)
(* (web/src/App.tsx).  A field is named by its path in the form.  Of its     *)
(* value the model keeps whether it satisfies the field's rule: unfit holds  *)
(* the names of those that do not.  antd keeps the value of a field that is  *)
(* not rendered any more, and validates only those that are.                 *)
EXTENDS Integers, FiniteSets

CONSTANTS
  Editors,      \* bound: editors opened, one after the other
  Stored,       \* the sets of switches that are on in the servers to be edited
  MaxEdits,     \* bound: fields edited in one editor
  MaxUnfit      \* bound: values that are unfit at a time

EditorAssumption == MaxEdits \in Nat /\ MaxUnfit \in Nat /\ 0 \notin Editors /\ Stored # {}

VARIABLES
  signedIn,     \* session.authenticated as the dashboard last rendered it
  editing,      \* the editor edit() is reading the settings for, 0 for none
  editor,       \* the editor that is open, 0 for none
  isNew, draft, unfit, edits,   \* its form: a new server?, the switches, the unfit values
  tab, invalid, \* the tab that is selected, the field to be scrolled to
  saving, error,\* the state of the component
  confirming,   \* the question before a server is deleted
  request       \* the PUT or POST, and the DELETE, of each editor

formVars == <<isNew, draft, unfit, edits>>
viewVars == <<tab, invalid, saving, error, confirming>>
vars == <<signedIn, editing, editor, formVars, viewVars, request>>

NoField == <<>>
Switches == {"auth", "http", "upstream", "upstreamAuth", "bind", "servers", "doh",
                "udp", "fixedPorts"}

-----------------------------------------------------------------------------
(* The fields that are rendered and have a rule, pane by pane *)

Basic(d) == {<<f>> : f \in {"name", "interface", "listen", "max_connections",
                            "connect_timeout", "idle_timeout"}}

\* d is the set of switches that are on; a new server needs the upstream's password
Protocols(d, new) ==
  UNION {IF "auth" \in d THEN {<<"auth_users">>, <<"auth_users", "username">>} ELSE {},
         IF "http" \in d THEN {<<"http_proxy", "listen">>} ELSE {},
         IF "upstream" \in d THEN {<<"upstream", "address">>} ELSE {},
         IF {"upstream", "upstreamAuth"} \subseteq d THEN {<<"upstream", "username">>} ELSE {},
         IF {"upstream", "upstreamAuth"} \subseteq d /\ new THEN {<<"upstream", "password">>}
         ELSE {},
         IF "bind" \in d THEN {<<"bind", "advertise">>, <<"bind_timeout">>} ELSE {}}

Access == {<<"access", f>> : f \in {"max_connections_per_ip", "max_udp_associations_per_ip"}}

\* KeyValueFields: both columns of each row are required
Pairs(list) == {<<list, "key">>, <<list, "value">>}

Dns(d) ==
  CASE "doh" \in d -> {<<"doh_urls">>, <<"dns", "doh", "timeout">>} \cup Pairs("doh_headers")
    [] "servers" \in d /\ "doh" \notin d -> {<<"dns_servers">>}
    [] OTHER -> {}

Udp(d) ==
  IF "udp" \notin d THEN {}
  ELSE {<<"udp", f>> : f \in {"max_associations", "idle_timeout", "bind_ip", "advertise"}}
       \cup {<<"udp_ports">>} \cup Pairs("udp_map") \cup Pairs("udp_source_map")
       \cup (IF "fixedPorts" \in d THEN {} ELSE {<<"udp", "port_min">>, <<"udp", "port_max">>})

Heartbeat == {<<"heartbeat", f>> : f \in {"url", "interval", "timeout"}}

Pane(t, d, new) ==
  CASE t = "basic" -> Basic(d)
    [] t = "protocols" -> Protocols(d, new)
    [] t = "access" -> Access
    [] t = "dns" -> Dns(d)
    [] t = "udp" -> Udp(d)
    [] t = "heartbeat" -> Heartbeat

Tabs == {"basic", "protocols", "access", "dns", "udp", "heartbeat"}
Rendered(d, new) == UNION {Pane(t, d, new) : t \in Tabs}

\* Values no rule looks at, and formToServer does: a name or a key that is there
\* twice, a user without a password
Clashes == {<<"auth_users", "twice">>, <<"auth_users", "password">>, <<"doh_headers", "twice">>,
            <<"udp_map", "twice">>, <<"udp_source_map", "twice">>}

\* formToServer converts these rendered or not
Converted(d) ==
  {<<"auth_users", "username">>, <<"auth_users", "twice">>, <<"udp_ports">>,
   <<"udp_map", "twice">>, <<"udp_source_map", "twice">>}
  \cup Pairs("udp_map") \cup Pairs("udp_source_map")
  \cup (IF "auth" \in d THEN {<<"auth_users", "password">>} ELSE {})
  \cup (IF "doh" \in d THEN Pairs("doh_headers") \cup {<<"doh_headers", "twice">>} ELSE {})

\* Fault: the timeout of BIND is taken for a basic setting, which its name does not contradict
TabOfForgets(f) ==
  CASE f[1] \in {"auth_users", "auth", "http_proxy", "upstream", "bind"} -> "protocols"
    [] f[1] \in {"access", "admission_cidrs", "target_rules"} -> "access"
    [] f[1] \in {"dns", "doh_urls", "dns_servers", "doh_headers"} -> "dns"
    [] f[1] \in {"udp", "udp_ports", "udp_map", "udp_source_map"} -> "udp"
    [] f[1] = "heartbeat" -> "heartbeat"
    [] OTHER -> "basic"

\* onFinishFailed, which goes by the first part of the name
TabOf(f) ==
  CASE f[1] \in {"auth_users", "auth", "http_proxy", "upstream", "bind", "bind_timeout"} ->
         "protocols"
    [] f[1] \in {"access", "admission_cidrs", "target_rules"} -> "access"
    [] f[1] \in {"dns", "doh_urls", "dns_servers", "doh_headers"} -> "dns"
    [] f[1] \in {"udp", "udp_ports", "udp_map", "udp_source_map"} -> "udp"
    [] f[1] = "heartbeat" -> "heartbeat"
    [] OTHER -> "basic"

-----------------------------------------------------------------------------
(* The dashboard *)

Init ==
  /\ signedIn = TRUE /\ editing = 0 /\ editor = 0
  /\ isNew = FALSE /\ draft = {} /\ unfit = {} /\ edits = 0
  /\ tab = "basic" /\ invalid = NoField /\ saving = FALSE /\ error = FALSE /\ confirming = FALSE
  /\ request = [e \in Editors |-> "none"]

\* edit(), until its first await
Edit(e) ==
  /\ signedIn /\ editing = 0 /\ editor = 0
  /\ \A f \in Editors : f < e => request[f] # "none"
  /\ request[e] = "none" /\ editing' = e
  /\ request' = [request EXCEPT ![e] = "opening"]
  /\ UNCHANGED <<signedIn, editor, formVars, viewVars>>

\* edit(), after it: the settings were read, whatever became of the session by then.
\* The form is made from a stored server or from defaultServer, both of which are fit.
EditResolves ==
  /\ editing # 0 /\ editing' = 0 /\ editor' = editing
  /\ request' = [request EXCEPT ![editing] = "open"]
  /\ isNew' \in BOOLEAN /\ draft' \in Stored
  /\ unfit' = (IF isNew' THEN {<<"name">>, <<"interface">>} ELSE {}) /\ edits' = 0
  /\ tab' = "basic" /\ invalid' = NoField
  /\ saving' = FALSE /\ error' = FALSE /\ confirming' = FALSE
  /\ UNCHANGED signedIn

EditFails ==
  /\ editing # 0 /\ editing' = 0
  /\ request' = [request EXCEPT ![editing] = "closed"]
  /\ UNCHANGED <<signedIn, editor, formVars, viewVars>>

\* setEditor(null): the component is unmounted
Unmounts ==
  /\ editor' = 0
  /\ isNew' = FALSE /\ draft' = {} /\ unfit' = {} /\ edits' = 0
  /\ tab' = "basic" /\ invalid' = NoField
  /\ saving' = FALSE /\ error' = FALSE /\ confirming' = FALSE

\* The session ends, and the effect of the dashboard closes the editor
SignedOut ==
  /\ signedIn /\ signedIn' = FALSE /\ Unmounts
  /\ UNCHANGED <<editing, request>>

SignsIn ==
  /\ ~signedIn /\ signedIn' = TRUE
  /\ UNCHANGED <<editing, editor, formVars, viewVars, request>>

-----------------------------------------------------------------------------
(* The form.  It is disabled while it is saved, and lies under the question *)
(* before a deletion.                                                        *)

Open == editor # 0 /\ signedIn
Idle == Open /\ ~saving /\ ~confirming

Switch(s) ==
  /\ Idle /\ edits < MaxEdits /\ edits' = edits + 1
  /\ draft' = IF s \in draft THEN draft \ {s}
              ELSE (draft \cup {s}) \ (CASE s = "doh" -> {"servers"} [] s = "servers" -> {"doh"}
                                         [] OTHER -> {})
  /\ UNCHANGED <<signedIn, editing, editor, isNew, unfit, viewVars, request>>

\* A field in view gets a value that is not fit
Spoil(f) ==
  /\ Idle /\ edits < MaxEdits /\ edits' = edits + 1
  /\ f \notin unfit /\ Cardinality(unfit) < MaxUnfit /\ unfit' = unfit \cup {f}
  /\ UNCHANGED <<signedIn, editing, editor, isNew, draft, viewVars, request>>

\* Correcting is not bounded: it is what is hoped for
Correct(f) ==
  /\ Idle /\ f \in unfit
  /\ unfit' = unfit \ {f}
  /\ UNCHANGED <<signedIn, editing, editor, isNew, draft, edits, viewVars, request>>

ChangeTab(t) ==
  /\ Idle /\ t # tab /\ tab' = t
  /\ UNCHANGED <<signedIn, editing, editor, formVars, invalid, saving, error, confirming, request>>

\* The next frame: form.scrollToField(invalidField)
Scrolls ==
  /\ editor # 0 /\ invalid # NoField /\ invalid' = NoField
  /\ UNCHANGED <<signedIn, editing, editor, formVars, tab, saving, error, confirming, request>>

\* form.submit() finds a field that is not fit.  The first of them is the one
\* that was rendered first, which this leaves open.
FinishFailed ==
  /\ \E f \in unfit \cap Rendered(draft, isNew) : invalid' = f /\ tab' = TabOf(f)
  /\ UNCHANGED <<saving, error, confirming, request>>

\* onSave, up to the answer.  A draft that cannot be converted is an error at once.
OnSave ==
  /\ unfit \cap Rendered(draft, isNew) = {}
  /\ UNCHANGED <<invalid, tab, confirming>>
  /\ IF unfit \cap Converted(draft) # {}
       THEN error' = TRUE /\ saving' = FALSE /\ UNCHANGED request
       ELSE /\ error' = FALSE /\ saving' = TRUE
            /\ request' = [request EXCEPT ![editor] = "save"]

Submit ==
  /\ Idle /\ (FinishFailed \/ OnSave)
  /\ UNCHANGED <<signedIn, editing, editor, formVars>>

\* remove: the question, its answers, and the DELETE that follows
AskDelete ==
  /\ Idle /\ ~isNew /\ confirming' = TRUE
  /\ UNCHANGED <<signedIn, editing, editor, formVars, tab, invalid, saving, error, request>>
Keep ==
  /\ Open /\ confirming /\ request[editor] # "delete" /\ confirming' = FALSE
  /\ UNCHANGED <<signedIn, editing, editor, formVars, tab, invalid, saving, error, request>>
Delete ==
  /\ Open /\ confirming /\ request[editor] # "delete"
  /\ request' = [request EXCEPT ![editor] = "delete"]
  /\ UNCHANGED <<signedIn, editing, editor, formVars, viewVars>>

\* The answer to the request of an editor, which need not be there any more.
\* onClose() closes the editor that is open now, whichever it is.
Accepted(e) ==
  /\ request[e] \in {"save", "delete"}
  /\ request' = [request EXCEPT ![e] = "closed"] /\ Unmounts
  /\ UNCHANGED <<signedIn, editing>>

Refused(e) ==
  /\ request[e] \in {"save", "delete"} /\ request' = [request EXCEPT ![e] = "open"]
  /\ IF editor = e /\ request[e] = "save" THEN saving' = FALSE /\ error' = TRUE
                                          ELSE UNCHANGED <<saving, error>>
  /\ UNCHANGED <<signedIn, editing, editor, formVars, tab, invalid, confirming>>

\* The button and the cross, neither of which works while the form is saved
Cancel ==
  /\ Idle /\ request' = [request EXCEPT ![editor] = "closed"] /\ Unmounts
  /\ UNCHANGED <<signedIn, editing>>

Next ==
  \/ EditResolves \/ EditFails \/ SignedOut \/ SignsIn
  \/ Scrolls \/ Submit \/ AskDelete \/ Keep \/ Delete \/ Cancel
  \/ \E e \in Editors : Edit(e) \/ Accepted(e) \/ Refused(e)
  \/ \E s \in Switches : Switch(s)
  \/ \E f \in Pane(tab, draft, isNew) \cup Clashes : Spoil(f) \/ Correct(f)
  \/ \E t \in Tabs : ChangeTab(t)

Spec == Init /\ [][Next]_vars

-----------------------------------------------------------------------------
(* Properties *)

TypeOK ==
  /\ signedIn \in BOOLEAN /\ editing \in Editors \cup {0} /\ editor \in Editors \cup {0}
  /\ isNew \in BOOLEAN /\ draft \subseteq Switches /\ Cardinality(unfit) <= MaxUnfit + 2
  /\ tab \in Tabs /\ (invalid = NoField \/ TabOf(invalid) \in Tabs)
  /\ saving \in BOOLEAN /\ error \in BOOLEAN /\ confirming \in BOOLEAN
  /\ request \in [Editors -> {"none", "opening", "open", "save", "delete", "closed"}]

\* ServerEditor 537-561 against 135-486: when a form is not accepted, the tab that is
\* selected has the field the user is sent to, whatever switches hide and show
FirstErrorShown ==
  [][invalid' \notin {NoField, invalid} => invalid' \in Pane(tab', draft', isNew')]_vars
=============================================================================
