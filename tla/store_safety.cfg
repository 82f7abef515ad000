SPECIFICATION Spec
CONSTANTS
  a = a  d = d  east = east  west = west  g1 = g1  g2 = g2
  None = None
  Clusters = {east, west}
  Fingerprints = {a, d}
  ClusterOf <- TwoClusters
  Versions = {1, 2}
  Evidence <- OneVersion
  Workers = {g1, g2}
  MaxFindings = 1
  MaxSeq = 3
  MaxCrashes = 1
  PersistMayFail = FALSE
SYMMETRY Symmetry
INVARIANTS TypeOK OneStandingProposal SlotsMatchWorkers IdentifiersPartitioned OneIncidentPerFingerprint OpenAsLastReported
PROPERTIES ProposalsFollowLifecycle ImplementsLifecycle OnlyRestartsForget
