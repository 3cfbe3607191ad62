CONSTANTS
    Variant = {"A", "B"}
    State <- MCState
    VariantName <- MCVariantName
    Event = {"e", "f"}
    Tables <- MCTables
    Initial = "a"
    NextOf <- MCNextOf
    AfterTimeout <- MCAfterTimeout
    MaxLog = 3
    MaxCrashes = 2
    MaxInstant = 9
    MaxTime = 3
    None = None
SPECIFICATION RSpec
INVARIANT LogExplainsState
PROPERTY TimeoutOnlyPostponed
