SPECIFICATION LedgerSpec
\* the last version may have been given up: no trial can begin any more
CHECK_DEADLOCK FALSE
CONSTANTS
  Version = {1, 2, 3, 4, 5}
  Required = {3}
  Limit = 3
INVARIANTS BannedCovered
PROPERTIES NoSecondTrial
