CONSTANTS
  c1 = c1
  c2 = c2
  Loop = Loop
  NoThread = NoThread
  NumInstances = 2
  NodeOf <- OneNode
  KindOf <- OneKind
  PortsOf <- OwnPorts
  Misbound = {}
  Clients = {}
  Kinds = {}
  Asked = {"running"}
  Reports = {}
  Signals <- AgentsUp
  InitStates <- AllWanted
  MaxCalls = 0
SPECIFICATION FairSpec
PROPERTY DeferralsEnd
CHECK_DEADLOCK FALSE
