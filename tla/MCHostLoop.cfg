CONSTANTS
    Variant <- MCVariant
    State <- MCState
    VariantName <- MCVariantName
    Event <- MCEvent
    Tables <- MCTables
    FailureEvent = "error"
    MaxInstant = 4
    MaxTime = 2
    MaxEvents = 3
    MaxInbox = 2
    None = None
SPECIFICATION FairHSpec
INVARIANTS
    LoopKeepsTimer
    OneEventBeforeElapsedTimeout
    NoActionSkipped
PROPERTIES
    EventIsReceived
    ElapsedTimeoutIsServed
CHECK_DEADLOCK FALSE
