SPECIFICATION PagesSpec
CONSTANTS
  MaxSockets = 2
  Asks = {q1}
  MaxCalls = 1
  MaxLogins = 2
  OtherLogins = 1
  MaxChanges = 1
  MaxNames = 1
  MaxFaults = 1
  Editors = {1}
  MaxEditorEdits = 2
  MaxUnfit = 1
  Users = {"alice", "bob"}
  Words = {"stars", "word"}
  Stars = "stars"
  Rows = {1, 2}
  Addrs = {"a"}
  Urls = {"u"}
  Ports = {1024}
  MaxEdits = 2
  Queries = {"points", "summary"}
  Filters = {"day", "week"}
  MaxRevisions = 1
  MaxRequests = 2
  OpenTabs = {t1}
  Instances = {i1}
  Apart = 2
  Window = 3
  MaxPoints = 2
  MaxTime = 9
  MaxBack = 1
  MaxBytes = 2
  MaxRestarts = 1
  Runs = {1, 2}
  Triggers = {m1, m2}
  MaxEvents = 2
  MaxErrors = 1
INVARIANTS
  SocketDiscipline
  FreshAnswer
  ChartedOnce
  WholeReports
PROPERTIES
  FirstErrorShown
  CredentialsKept
  SavedAsLoaded
CONSTRAINT OneSurprise
CHECK_DEADLOCK FALSE
