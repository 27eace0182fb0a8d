CONSTANTS
  m1 = m1
  m2 = m2
  n1 = n1
  g1 = g1
  c1 = c1
  c2 = c2
  Models = {m1, m2}
  Groups = {g1}
  GroupOf <- OneGroup
  NoGroup = NoGroup
  NoModel = NoModel
  NodeOf <- OneNode
  Clients = {c1, c2}
  Refresher = Refresher
  Reconciler = Reconciler
  Ops = {"load", "unload", "start", "stop", "refresh", "project", "report", "view"}
  Background = {}
  InitStates = {"stopped"}
  MaxCalls = 3
  MaxOutside = 1
SPECIFICATION Spec
SYMMETRY ModelAndClientSymmetry
INVARIANT TypeOK
INVARIANT OneActionPerNode
INVARIANT OverlapHasCause
CHECK_DEADLOCK FALSE
