CONSTANTS
    Elements = {0, 1, 4, 9}
    Spares = {0, 2}
    Sounds <- MCSounds
    Strikes <- MCStrikes
    Durations = {1}
    Top = 4
    CCs = {1}
    CCValues = {0, 1}
    Delays = {0, 2, 5}
    StartDelays = {0, 2}
    Frames = {1, 4}
    SamplesPerBlock = 4
    MaxCapacity = 2
    MaxEvents = 3
    MaxBlocks = 2
SPECIFICATION Spec
CHECK_DEADLOCK FALSE
INVARIANTS MatchesReference AccessesAreLegal BlockIsMixed LevelsFollowControllers
