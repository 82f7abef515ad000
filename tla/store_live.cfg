SPECIFICATION FairSpec
CONSTANTS
  a = a  d = d  east = east  west = west  g1 = g1  g2 = g2
  None = None
  Clusters = {east}
  Fingerprints = {a}
  ClusterOf <- OneProblem
  Versions = {1, 2}
  Evidence <- OneVersion
  Workers = {g1, g2}
  MaxFindings = 1
  MaxSeq = 3
  MaxCrashes = 0
  PersistMayFail = TRUE
PROPERTIES SlotsReleased OpenedGetExplained
