CONSTANTS
  Openers = {p1, p2}
  Scripts = 2
  Statements = 2
  MaxCrashes = 1
  Workers = {p1, p2}
  Sources = {s1, s2}
  Contents = {c1, c2}
  MaxEdits = 1
  MaxJobs = 3
  BatchSize = 2
  Runners = {p1, p2}
  SymbolSets = {{1, 3}, {2, 3}, {3}}
  MaxChanges = 2
  MaxRuns = 2
  MaxEvents = 2
  MaxBackups = 2
  MaxRestores = 2
  Tools = {"cursor"}
  MaxCommands = 2
  MaxTrouble = 1
  UserHooks = {"a", "b"}
  Lossy = {"b"}
  MaxInstalls = 3
  MaxHookEdits = 2
  Clients = {p1, p2}
  RepoNames = {"x", "y", "z"}
  Missing = {"z"}
  MaxRegistryCommands = 3
  Watched = {r1, r2}
  MaxSaves = 1
  MaxFailures = 1
  CIRuns = {p1, p2}
  PerPage = 2
  MaxPages = 2
  MaxComments = 3
  MaxLost = 1
  Threads = {p1, p2}
  Duplicates = {1, 2, 3}
  Mentions = {m1, m2}
  MaxTasks = 2
  MaxDeaths = 1
  Keys = {1, 2}
  TokenBudgets = {1, 2, 3}
  MaxTurns = 3
  MaxTextEdits = 1
  Connections = {p1, p2}
  PerMinute = 1
  Tokens = {"t1"}
  MaxCalls = 2
  MaxLines = 3
  MaxClock = 3
  MaxRequests = 2
  RequestTimeout = 2
  Polls = 1
  Slack = 1
  MaxConnects = 3
  MaxStarts = 2
  Sites = 3
  MaxAsks = 1
  MaxWikiRuns = 3
  MaxWikiChanges = 2
  MaxWikiDeaths = 1
  MaxWikiEdits = 1
  Admins = {p1, p2}
  Subjects = {"u", "v"}
  MaxRoles = 1
  MaxPrincipals = 2
  MaxDeletes = 1
  MaxBinds = 2
SPECIFICATION Spec
INVARIANTS
  OneOfEach
  CalledCurrentIsCurrent
  SuccessMeansDone
  Kept
  ServedAsAgreed
PROPERTIES
  NothingLost
  EventuallySettled
CHECK_DEADLOCK FALSE
