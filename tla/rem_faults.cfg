SPECIFICATION FairSpec
CONSTANTS
  prop1 = prop1  dr1 = dr1  agent = agent
  None = None
  Proposals = {prop1}
  Targets = {dr1}
  TargetOf <- OneTarget
  Agents = {agent}
  FaultKinds = {"crash", "apiError", "patchAckLost", "reportLost", "ackLost"}
  MaxFaults = 2
  MaxVersion = 2
  EscapeHatch = TRUE
INVARIANTS TypeOK EachVersionPatchedOnce AppliedOnlyWhenApproved ServerAppliedMeansApplied
PROPERTIES ImplementsPromise PerformedIsFinal NothingAppliedOncePerformed ApprovedEventuallySettled PerformedEventuallyReported
