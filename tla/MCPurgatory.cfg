CONSTANTS
    Variant <- MCVariant
    State <- PurgatoryState
    VariantName <- PurgatoryName
    Event <- MCEvent
    Tables <- MCTables
    Batch <- MCBatch
    Item <- MCItem
    Downstream = 2
    MaxStarts = 2
    MaxDrops = 2
    MaxInstant = 5
    MaxTime = 2
    None = None
SPECIFICATION PSpec
INVARIANT LastBatchSafe
