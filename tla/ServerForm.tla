----------------------------- MODULE ServerForm -----------------------------
(* A server on its way through the editor: the answer of the API without its *)
(* passwords (internal/webui/server.go, redactServerCredential), the form    *)
(* made of it, the request made of the form (web/src/lib/serverForm.ts), and *)
(* what the store makes of that (internal/store/proxy_credentials.go), while *)
(* another administrator, perhaps of an older client, saves the same server. *)
EXTENDS Integers

CONSTANTS
  Users,      \* names of proxy users
  Words,      \* passwords one can think of
  Stars,      \* eight stars, which older clients send for "unchanged"
  Rows,       \* bound: rows of the list of users
  Addrs,      \* DNS servers
  Urls,       \* DoH endpoints
  Ports,      \* UDP relay ports
  MaxEdits    \* bound: edits of one draft

ServerFormAssumption ==
  Stars \in Words /\ "" \notin Words \cup Users \cup Urls /\ 0 \notin Ports /\ MaxEdits \in Nat

VARIABLES
  users,      \* the stored credentials: a password's hash, or Empty for no such user
  method,     \* auth.method is username_password
  dns, udp,   \* the stored dns and udp of the server
  form,       \* the values of the form
  edits,      \* edits of the draft so far; NotOpen without a form
  sent        \* the request under way

formVars == <<users, method, dns, udp, form, edits, sent>>

\* A text of a password: the word it was made of and how often it was hashed.
\* Somebody may well type what he has seen to be a hash.
Texts == Words \X {0, 1}
Empty == <<"", 0>>
Hash(text) == <<text[1], text[2] + 1>>
Redacted == <<Stars, 0>>
Credentials == {Empty} \cup (Words \X {1, 2})

NotOpen == -1
NoRow == [there |-> FALSE, username |-> "", password |-> Empty, original |-> "", unchanged |-> FALSE]
Row(u, p, o, k) == [there |-> TRUE, username |-> u, password |-> p, original |-> o, unchanged |-> k]
NoForm == [rows |-> [r \in Rows |-> NoRow], method |-> FALSE, mode |-> "system",
           servers |-> {}, urls |-> {}, ports |-> {}]
Nothing == [users |-> {}, password |-> [u \in Users |-> Empty], array |-> FALSE, unchanged |-> {},
            method |-> FALSE, dns |-> [servers |-> {}, doh |-> FALSE, url |-> "", urls |-> {}],
            udp |-> [port |-> 0, ports |-> {}]]

\* What runs: DoH.Endpoints and UDP.FixedRelayPorts
Endpoints(d) == IF ~d.doh THEN d.servers ELSE IF d.urls # {} THEN d.urls ELSE {d.url} \ {""}
RelayPorts(p) == IF p.ports # {} THEN p.ports ELSE {p.port} \ {0}

DnsValues ==
  [servers : SUBSET Addrs, doh : {FALSE}, url : {""}, urls : {{}}]
  \cup {d \in [servers : {{}}, doh : {TRUE}, url : Urls \cup {""}, urls : SUBSET Urls] :
          Endpoints(d) # {}}
UdpValues == {p \in [port : Ports \cup {0}, ports : SUBSET Ports] : p.port = 0 \/ p.ports = {}}

FormInit ==
  /\ users \in [Users -> {Empty} \cup (Words \X {1})]
  /\ method \in BOOLEAN /\ (method => \E u \in Users : users[u] # Empty)
  /\ dns \in DnsValues /\ udp \in UdpValues
  /\ form = NoForm /\ edits = NotOpen /\ sent = Nothing

-----------------------------------------------------------------------------
(* serverToForm *)

Named == {u \in Users : users[u] # Empty}

\* Fault: the port of before the pools is forgotten
FormPortsForgets(p) == p.ports
FormPorts(p) == IF p.ports # {} THEN p.ports ELSE IF p.port # 0 THEN {p.port} ELSE {}

FormUrls(d) == IF d.urls # {} THEN d.urls ELSE {d.url} \ {""}

\* The API names each user in password_unchanged and empties the password
Load ==
  /\ edits = NotOpen /\ edits' = 0
  /\ \E row \in [Named -> Rows] :
       /\ \A u, v \in Named : row[u] = row[v] => u = v
       /\ form' = [rows |-> [r \in Rows |->
                     IF \E u \in Named : row[u] = r
                     THEN LET u == CHOOSE u \in Named : row[u] = r IN Row(u, Empty, u, TRUE)
                     ELSE NoRow],
                   method |-> method,
                   mode |-> IF dns.doh THEN "doh" ELSE IF dns.servers # {} THEN "servers"
                            ELSE "system",
                   servers |-> dns.servers, urls |-> FormUrls(dns), ports |-> FormPorts(udp)]
  /\ UNCHANGED <<users, method, dns, udp, sent>>

-----------------------------------------------------------------------------
(* The draft *)

Edits ==
  /\ edits \in 0..MaxEdits - 1 /\ sent = Nothing /\ edits' = edits + 1
  /\ UNCHANGED <<users, method, dns, udp, sent>>

\* The rows are in view while users have to authenticate; antd keeps them otherwise
EditsRows == form.method /\ Edits

Add(r) ==
  /\ EditsRows /\ ~form.rows[r].there
  /\ form' = [form EXCEPT !.rows = [form.rows EXCEPT ![r] = Row("", Empty, "", FALSE)]]
Remove(r) ==
  /\ EditsRows /\ form.rows[r].there
  /\ form' = [form EXCEPT !.rows = [form.rows EXCEPT ![r] = NoRow]]
Rename(r, u) ==
  /\ EditsRows /\ form.rows[r].there
  /\ form' = [form EXCEPT !.rows = [form.rows EXCEPT
                ![r] = Row(u, @.password, @.original, @.unchanged)]]
Type(r, p) ==
  /\ EditsRows /\ form.rows[r].there
  /\ form' = [form EXCEPT !.rows = [form.rows EXCEPT
                ![r] = Row(@.username, p, @.original, @.unchanged)]]
ChangeMethod == Edits /\ form' = [form EXCEPT !.method = ~@]
ChangeMode(m) == Edits /\ form' = [form EXCEPT !.mode = m]
ChangePorts(ps) == Edits /\ form' = [form EXCEPT !.ports = ps]

-----------------------------------------------------------------------------
(* formToServer *)

There == {r \in Rows : form.rows[r].there}

\* Fault: a row that came from the server keeps its password under another name
KeepsUnderAnyName(row) == row.password = Empty /\ row.unchanged
Keeps(row) == row.password = Empty /\ row.unchanged /\ row.username = row.original

\* The exceptions formToServer throws, and the rules of the lists
Convertible ==
  /\ form.mode = "servers" => form.servers # {}
  /\ form.mode = "doh" => form.urls # {}
  /\ \A r \in There : form.rows[r].username # ""
  /\ \A r, q \in There : form.rows[r].username = form.rows[q].username => r = q
  /\ form.method => There # {}
                    /\ \A r \in There : form.rows[r].password # Empty \/ Keeps(form.rows[r])

Sends ==
  [users |-> {form.rows[r].username : r \in There},
   password |-> [u \in Users |->
     IF \E r \in There : form.rows[r].username = u
     THEN form.rows[CHOOSE r \in There : form.rows[r].username = u].password ELSE Empty],
   array |-> TRUE,
   unchanged |-> {form.rows[r].username : r \in {q \in There : Keeps(form.rows[q])}},
   method |-> form.method,
   dns |-> [servers |-> IF form.mode = "servers" THEN form.servers ELSE {},
            doh |-> form.mode = "doh", url |-> "",
            urls |-> IF form.mode = "doh" THEN form.urls ELSE {}],
   udp |-> [port |-> 0, ports |-> form.ports]]

Submit ==
  /\ edits # NotOpen /\ sent = Nothing /\ Convertible /\ sent' = Sends
  /\ UNCHANGED <<users, method, dns, udp, form, edits>>

-----------------------------------------------------------------------------
(* SaveServerInput: Validate, then prepareProxyCredentials *)

IsLegacy(q) == ~q.array

Preserves(q, u) == u \in q.unchanged \/ (IsLegacy(q) /\ q.password[u] = Redacted)

Valid(q) ==
  /\ q.unchanged \subseteq q.users
  /\ \A u \in q.users : q.password[u] # Empty \/ u \in q.unchanged
  /\ q.method => q.users # {}
  /\ q.dns.doh => q.dns.servers = {} /\ (q.dns.urls # {} \/ q.dns.url # "")
  /\ q.udp.port = 0 \/ q.udp.ports = {}
  /\ \A u \in q.users : Preserves(q, u) => users[u] # Empty

\* What an input stores for a user
Prepared(q, u) ==
  IF u \notin q.users THEN Empty
  ELSE IF Preserves(q, u) THEN users[u] ELSE Hash(q.password[u])

Saves(q) ==
  /\ users' = [u \in Users |-> Prepared(q, u)]
  /\ method' = q.method /\ dns' = q.dns /\ udp' = q.udp

\* The answer closes the editor, or leaves the draft to be corrected
Accepted ==
  /\ sent # Nothing /\ Valid(sent) /\ Saves(sent)
  /\ form' = NoForm /\ edits' = NotOpen /\ sent' = Nothing
Rejected ==
  /\ sent # Nothing /\ ~Valid(sent) /\ sent' = Nothing
  /\ UNCHANGED <<users, method, dns, udp, form, edits>>
Cancel ==
  /\ edits # NotOpen /\ sent = Nothing /\ form' = NoForm /\ edits' = NotOpen
  /\ UNCHANGED <<users, method, dns, udp, sent>>

\* Another administrator, whose client knows no array, sets one user's password,
\* removes him, or sends stars for everybody
OtherSaves(u, p) ==
  /\ edits # NotOpen
  /\ LET q == [Nothing EXCEPT
           !.users = IF p = Empty THEN Named \ {u} ELSE Named \cup {u},
           !.password = [v \in Users |-> IF v = u THEN p
                                         ELSE IF v \in Named THEN Redacted ELSE Empty],
           !.method = method, !.dns = dns, !.udp = udp]
     IN Valid(q) /\ Saves(q)
  /\ UNCHANGED <<form, edits, sent>>

FormNext ==
  \/ Load \/ ChangeMethod \/ Submit \/ Accepted \/ Rejected \/ Cancel
  \/ \E r \in Rows :
       \/ Add(r) \/ Remove(r)
       \/ \E u \in Users : Rename(r, u)
       \/ \E p \in Texts : Type(r, p)
  \/ \E m \in {"system", "servers", "doh"} : ChangeMode(m)
  \/ \E ps \in SUBSET Ports : ChangePorts(ps)
  \/ \E u \in Users, p \in (Words \X {0}) \cup {Empty} : OtherSaves(u, p)

FormSpec == FormInit /\ [][FormNext]_formVars

-----------------------------------------------------------------------------
(* Properties *)

FormTypeOK ==
  /\ users \in [Users -> Credentials] /\ method \in BOOLEAN
  /\ dns \in DnsValues /\ udp \in UdpValues
  /\ edits \in NotOpen..MaxEdits /\ sent.users \subseteq Users
  /\ \A r \in Rows : form.rows[r].username \in Users \cup {""}

\* README 459 and the hint of the form: after a save each user of the draft has the
\* password typed for him, eight stars and hashes included, or, where none was, the one
\* the user the row was loaded for has; nobody else is left, and nobody has another's.
CredentialsKept ==
  [][Accepted =>
       \A u \in Users :
         users'[u] =
           IF \E r \in There : form.rows[r].username = u
           THEN LET row == form.rows[CHOOSE r \in There : form.rows[r].username = u]
                IN IF row.password = Empty THEN users[row.original] ELSE Hash(row.password)
           ELSE Empty]_formVars

\* Saving a server nobody edited changes nothing that runs, in whichever of the forms of
\* earlier versions its endpoints and ports are stored
SavedAsLoaded ==
  [][Accepted /\ edits = 0 =>
       Endpoints(dns') = Endpoints(dns) /\ RelayPorts(udp') = RelayPorts(udp)]_formVars
=============================================================================
