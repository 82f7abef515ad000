SPECIFICATION FairSpec
CONSTANTS
  host = host  subset = subset  dangling = dangling  orphaned = orphaned
  Fingerprints = {host, subset}
  Analyzers = {dangling, orphaned}
  AnalyzerOf <- OnePerAnalyzer
  FaultKinds = {"analyzer", "request", "timeout", "answer", "crash"}
  MaxFaults = 2
  MaxChanges = 2
  MaxBuffer = 2
INVARIANTS BacklogHoldsLastScan UnsentIsHeld
PROPERTIES OpenFollowsProblems FoundReachesServer
