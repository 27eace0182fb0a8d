CONSTANTS
  a1 = a1
  a2 = a2
  NoAgent = NoAgent
  Agents = {a1, a2}
  RuntimeRequests = {"restart", "refresh"}
  NodeRequests = {"docker_inspect"}
  MaxTasks = 3
  MaxAgentFaults = 1
  MaxControllerFaults = 1
SPECIFICATION Spec
SYMMETRY AgentSymmetry
INVARIANT TypeOK
INVARIANT AtMostOneRun
INVARIANT SuccessIsEarned
INVARIANT StuckOnlyByFault
PROPERTY TerminalIsFinal
PROPERTY LedgerSpec
CHECK_DEADLOCK FALSE
