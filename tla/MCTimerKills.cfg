SPECIFICATION Spec
CONSTANTS
  Starter = {a}
  Stopper = {s}
  MaxRuns = 2
PROPERTIES TimerKills
