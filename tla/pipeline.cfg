SPECIFICATION LiveWatchedSpec
CONSTANTS
  MaxStages = 3
  MaxUnread = 1
  Redirections = {{}, {"r"}, {"w"}}
  Faults = {"pipe", "redirection", "status", "fork", "refused", "unwired", "signal", "wait"}
INVARIANTS
  ProgramsHoldTheirEnds
  EndsHaveOneHolder
  NothingLeaks
  StagesAreAccounted
  LinesTellTheTruth
  CompletedMeansAllRan
  LossIsNoticed
  
PROPERTY
  PipelineDrains
CHECK_DEADLOCK FALSE
