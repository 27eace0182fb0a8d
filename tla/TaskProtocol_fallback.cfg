CONSTANTS
  a1 = a1
  NoAgent = NoAgent
  Agents = {a1}
  RuntimeRequests = {"start"}
  NodeRequests = {}
  MaxTasks = 2
  MaxAgentFaults = 0
  MaxControllerFaults = 0
SPECIFICATION Spec
PROPERTY FallbackExcludesAgent
CHECK_DEADLOCK FALSE
