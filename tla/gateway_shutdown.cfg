SPECIFICATION Spec
CONSTANTS
  Sessions = {s1, s2}
  MaxConcurrent = 2
  Clients = {}
  Dashboards = {d1}
  Disturbances = {"shutdown"}
  MaxFaults = 0
  MaxBoots = 0
  MaxSeq = 4
INVARIANTS StreamMatchesRow DenseNumbering 
CHECK_DEADLOCK FALSE
