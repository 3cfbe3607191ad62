CONSTANTS
    Variant <- MCVariant
    State <- MCState
    VariantName <- MCVariantName
    Event <- MCEvent
    Durations <- MCDurations
    StatePath <- MCStatePath
    ByHand <- MCByHand
    EventPath <- MCEventPath
    MaxInstant = 4
    MaxClauses = 5
    MaxCalls = 4
    None = None
SPECIFICATION MSpec
INVARIANTS
    TypeOK
    TablesHoldLastRegistration
    FirstRepeatIsReported
    BuiltMachineCanStart
    TablesMatchSource
    RepeatedRowNeedsTimeout
    RefusalIsJustified
    RowsAreReachable
