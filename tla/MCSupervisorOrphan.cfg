SPECIFICATION Spec
CONSTANTS
    Children = 2
    Strategies = {"rest"}
    MaxRetries = 2
    Backlog = 0
    MaxPanics <- TwoPanics
CHECK_DEADLOCK FALSE
INVARIANT Managed
