SPECIFICATION LiveSpec
CONSTANTS
  MaxStages = 2
  Pids = {2, 3}
  Requests = {r1}
  MaxBirths = 4
INVARIANTS PidfdIsExact OnlyInTheWindow RefusalIsFinal
PROPERTY WholePipelineStops
CHECK_DEADLOCK FALSE
