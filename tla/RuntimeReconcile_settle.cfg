CONSTANTS
  c1 = c1
  c2 = c2
  Loop = Loop
  NoThread = NoThread
  NumInstances = 3
  NodeOf <- OneNode
  KindOf <- TwoKinds
  PortsOf <- MixedPorts
  Misbound = {}
  Clients = {c1}
  Kinds = {"action", "start", "report", "refresh", "summary"}
  Asked = {"stopped"}
  Reports = {"up", "precheck_failed"}
  Signals <- AgentsMayFail
  InitStates <- SlotIsContested
  MaxCalls = 1
SPECIFICATION FairSpec
INVARIANT TypeOK
INVARIANT GatedIsExplained
INVARIANT PlanMatchesGating
PROPERTY PlansSettle
CHECK_DEADLOCK FALSE
