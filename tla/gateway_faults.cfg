SPECIFICATION Spec
CONSTANTS
  Sessions = {s1}
  MaxConcurrent = 1
  Clients = {}
  Dashboards = {}
  Disturbances = {"crash", "delete", "holder", "refuse", "sweep", "terminate", "waitfail"}
  MaxFaults = 2
  MaxBoots = 2
  MaxSeq = 5
INVARIANTS TerminalAgrees TerminalIsLast NumbersAreFresh VerdictIsHonest
PROPERTIES StatusIsFinal
CHECK_DEADLOCK FALSE
