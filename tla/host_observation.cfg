SPECIFICATION Spec
CONSTANTS
    MaxClock = 4
    MaxWork = 2
    MaxBirths = 3
    MaxCollects = 3
    Pids = {1, 2, 3}
    MaxSampled = 2
    Tolerance = 1
INVARIANTS
    
    SummariesAgree
    
    OnlyTheChild
CHECK_DEADLOCK FALSE
