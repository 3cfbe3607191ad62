CONSTANTS
    Operation <- MCOperation
    Limit = 4
    Mark = 2
    MaxHandled = 7
    None = None
SPECIFICATION Spec
INVARIANTS
    CreditsCountOnce
    LogMatchesState
    ActionAtMostOnce
