SPECIFICATION Spec
CONSTANTS
  Newest = 3
  Build <- MCBuild
  Healthy = {1, 3}
  Required = {3}
  MaxTrouble = 1
  None = None
INVARIANTS RollbackReady BackendIsManifests WholeVersion
PROPERTIES FailedStaysOut LedgerPromise CommitEarned TrialEnds BadBackendLeaves
