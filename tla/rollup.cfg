SPECIFICATION FairSpec
CONSTANTS
  inc1 = inc1  inc2 = inc2  prop1 = prop1  prop2 = prop2
  agent = agent  successor = successor
  None = None
  Incidents = {inc1}
  Proposals = {prop1, prop2}
  IncidentOf <- BothForOne
  Agents = {agent}
  MaxChanges = 2
  MaxMishaps = 1
INVARIANTS TypeOK CompleteMeansPerformed
PROPERTIES RollupSettles MirrorSettles CompletionAgrees
