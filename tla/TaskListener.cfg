CONSTANTS
  agentA = agentA
  agentB = agentB
  task1 = task1
  task2 = task2
  Agents = {agentA, agentB}
  Tasks = {task1, task2}
  Assignee <- OneTaskEach
  MaxListeners = 2
  MaxDeliveries = 3
  MaxRestarts = 1
SPECIFICATION Spec
INVARIANTS
  TypeOK
  ProcessedWasGiven
  GivenOnceUnlessOverlapping
  OnlyAgentsThatStarted
CHECK_DEADLOCK FALSE
