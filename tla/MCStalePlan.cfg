SPECIFICATION Spec
CONSTANTS
  Newest = 3
  Build <- MCBuildKept
  Healthy = {1}
  Required = {3}
  MaxTrouble = 0
  None = None
INVARIANTS ManifestDescribes
