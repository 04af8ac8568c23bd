SPECIFICATION Spec
CONSTANTS
  Image = {old, new}
  None = None
  Torn = Torn
  MaxFaults = 3
INVARIANTS NeverTorn CopySurvives ReplaceReports
PROPERTIES ImplementsContract CallEnds
