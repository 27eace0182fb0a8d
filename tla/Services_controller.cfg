CONSTANTS
  Works <- AllWorks
  Transports = {"cli", "api"}
  Ports = {"8080", "9090"}
  Published = {"8080"}
  Files = {"weights", "entry"}
  AgentEnv = {}
  MountPoints = {"weights"}
  ModelPort = "9090"
  MaxChanges = 1
  Procs = {p1, p2, p3}
  NoProc = NoProc
  Threshold = 2
  MaxCrashes = 1
  MaxAgents = 1
  Calls = {k1, k2}
  NoCall = NoCall
  Caps = {fit}
  NoCaps = NoCaps
  TTL = 1
  TestRunIds = {r1, r2}
  Offered = {"full", "local", "gating"}
  Dialects = {"instances"}
  MaxTurns = 2
  rt1 = rt1
  rt2 = rt2
  Listings = {l1}
  Reports = {o1}
  NoNode = NoNode
  Nothing = Nothing
  MaxRequests = 5
  MaxWriteFaults = 2
  MaxFaults = 1
  Parts = {"agents", "tests", "templates"}
SPECIFICATION ServicesSpec
INVARIANTS
  ControllerTypeOK StoredIsKnown OnlineIsRecent ReportKept SuccessIsWhole
  BindingComesBack NoStrayStart ListedIsValid BoundResolves
PROPERTIES
  SeenOnline RunsEnd VerdictFollows
CHECK_DEADLOCK FALSE
