CONSTANTS
  c1 = c1
  c2 = c2
  Loop = Loop
  NoThread = NoThread
  NumInstances = 2
  NodeOf <- OneNode
  KindOf <- OneKind
  PortsOf <- OwnPorts
  Misbound = {}
  Clients = {c1, c2}
  Kinds = {"poll", "report"}
  Asked = {"running"}
  Reports = {"precheck_failed", "up"}
  Signals <- AgentsUp
  InitStates <- AllStopped
  MaxCalls = 2
SPECIFICATION Spec
PROPERTY SyncKeepsFacts
CHECK_DEADLOCK FALSE
