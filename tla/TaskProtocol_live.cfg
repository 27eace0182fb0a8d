CONSTANTS
  a1 = a1
  NoAgent = NoAgent
  Agents = {a1}
  RuntimeRequests = {"start"}
  NodeRequests = {"docker_inspect"}
  MaxTasks = 3
  MaxAgentFaults = 1
  MaxControllerFaults = 1
SPECIFICATION ExecutorSpec
PROPERTY RuntimeTasksEnd
PROPERTY AgentTasksEnd
CHECK_DEADLOCK FALSE
