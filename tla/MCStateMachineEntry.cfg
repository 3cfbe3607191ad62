CONSTANTS
    Variant <- MCVariant
    State <- MCState
    VariantName <- MCVariantName
    Event <- MCEvent
    Tables <- MCEntryTables
    MaxInstant = 4
    MaxTime = 2
    None = None
SPECIFICATION Spec
INVARIANT EveryEntrySchedulesTimer
