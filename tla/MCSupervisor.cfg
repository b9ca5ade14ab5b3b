SPECIFICATION FairSpec
CONSTANTS
    Children = 2
    Strategies = {"one", "all", "rest"}
    MaxRetries = 2
    Backlog = 0
    MaxPanics <- FewPanics
CHECK_DEADLOCK FALSE
INVARIANT SupervisorInv
INVARIANT RestartBudget
INVARIANT NameResolves
INVARIANT StoppedIsGone
PROPERTY EveryRestartEnds
PROPERTY FailureRestarted
