CONSTANTS
  c1 = c1
  c2 = c2
  Loop = Loop
  NoThread = NoThread
  NumInstances = 2
  NodeOf <- OneNode
  KindOf <- OneKind
  PortsOf <- OwnPorts
  Misbound = {}
  Clients = {c1, c2}
  Kinds = {"start"}
  Asked = {"running"}
  Reports = {}
  Signals <- AgentsUp
  InitStates <- AllStopped
  MaxCalls = 3
SPECIFICATION Spec
INVARIANT AdmissionExcludesRivals
CHECK_DEADLOCK FALSE
