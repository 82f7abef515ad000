SPECIFICATION FairSpec
CONSTANTS
  mesh = mesh  metrics = metrics  endpoint = endpoint
  token1 = token1  token2 = token2
  None = None
  Servers = {1, 2}
  Toolsets = {mesh, metrics}
  Endpoints = {endpoint}
  Tokens = {token1, token2}
  Sessions = {1, 2, 3, 4, 5}
  MaxChanges = 4
  MaxFaults = 1
INVARIANTS OpenMeansServed ClosedOnlyWhenReplaced
PROPERTIES ServesWhatIsRegistered
