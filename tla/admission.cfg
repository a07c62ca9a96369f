SPECIFICATION Spec
CONSTANTS
    MaxLine = 14
    MaxToken = 4
    MaxArgs = 5
    MaxStages = 2
    Directories <- MCDirectories
    RefusedPrograms <- MCRefused
    Sensors <- MCSensors
    Seeds <- MCSeeds
    QuietLine <- MCLine
    Pieces <- MCPieces
    Tokens <- MCTokens
    Commands <- MCCommands
    Changing <- MCChanging
    Envs <- MCEnvs
    Heats <- MCHeats
    Workspaces <- MCWorkspaces
    Kinds0 <- MCKinds0
    Targets <- MCTargets
    MaxPieces = 4
    MaxSent = 3
    MaxRequests = 2
    MaxChanges = 1
INVARIANTS
    WhatRunsWasValidated
    
    HottestSensorDecides
CHECK_DEADLOCK FALSE
