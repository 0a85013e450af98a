SPECIFICATION FairSpec
CONSTANTS
    Sounds <- MCSounds
    BlockSizes = {1, 2, 4}
    Delays = {0, 1, 3}
INVARIANTS ReadsInSample HeardIsInSource OnTape EndIsNoticed BeginTogether
INVARIANT BlocksAreValues
PROPERTIES ReleaseMeetsEnd PlaysToTheEnd VoicesAreFreed
