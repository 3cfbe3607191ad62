CONSTANTS
    Variant <- MCVariant
    State <- MCState
    VariantName <- MCVariantName
    Event <- MCEvent
    Tables <- MCTables
    MaxInstant = 4
    MaxTime = 2
    None = None
SPECIFICATION Spec
INVARIANTS
    TypeOK
    TimerFollowsState
    TimeoutNotEarly
    FailedCallKeepsMachine
    UncommittedCall
    OutputIsOneTransition
PROPERTIES
    ExecutedInOrder
    ImplementsMealy
