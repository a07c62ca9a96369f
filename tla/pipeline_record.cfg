SPECIFICATION WatchedSpec
CONSTANTS
  MaxStages = 2
  MaxUnread = 1
  Redirections = {{}, {"r"}, {"w"}}
  Faults = {"refused"}
INVARIANT
  OriginalRecordsAreValid
CHECK_DEADLOCK FALSE
