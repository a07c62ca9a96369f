SPECIFICATION LiveSpec
CONSTANTS
  Sessions = {s1}
  MaxConcurrent = 1
  Clients = {c1}
  Dashboards = {}
  Disturbances = {"refuse", "shutdown", "terminate"}
  MaxFaults = 0
  MaxBoots = 0
  MaxSeq = 5
PROPERTIES  ShutdownCompletes
CHECK_DEADLOCK FALSE
