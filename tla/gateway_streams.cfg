SPECIFICATION Spec
CONSTANTS
  Sessions = {s1}
  MaxConcurrent = 1
  Clients = {c1}
  Dashboards = {}
  Disturbances = {"crash", "delete", "holder", "refuse", "sweep", "terminate", "waitfail"}
  MaxFaults = 0
  MaxBoots = 1
  MaxSeq = 6
INVARIANTS StreamsShowReplay LiveStreamsAreCurrent SamplesInsideProcess
PROPERTIES RecorderSpec
CHECK_DEADLOCK FALSE
