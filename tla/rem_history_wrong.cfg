SPECIFICATION Spec
CONSTANTS
  prop1 = prop1  dr1 = dr1  agent = agent
  None = None
  Proposals = {prop1}
  Targets = {dr1}
  TargetOf <- OneTarget
  Agents = {agent}
  FaultKinds = {"reportLost"}
  MaxFaults = 1
  MaxVersion = 1
  EscapeHatch = FALSE
INVARIANTS HistoryMatchesCluster
