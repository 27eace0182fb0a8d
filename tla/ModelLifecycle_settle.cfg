CONSTANTS
  m1 = m1
  m2 = m2
  n1 = n1
  g1 = g1
  c1 = c1
  c2 = c2
  Models = {m1}
  Groups = {g1}
  GroupOf <- OneGroup
  NoGroup = NoGroup
  NoModel = NoModel
  NodeOf <- OneNode
  Clients = {c1}
  Refresher = Refresher
  Reconciler = Reconciler
  Ops = {"start", "view", "report"}
  Background = {"refresh", "project", "scan", "save"}
  InitStates = {"stopped"}
  MaxCalls = 2
  MaxOutside = 1
SPECIFICATION FairSpec
PROPERTY RecordSettles
CHECK_DEADLOCK FALSE
