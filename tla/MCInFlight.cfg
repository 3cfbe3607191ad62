CONSTANTS
    Machine = {m1, m2, m3}
    Coordinator = coordinator
    Grow = 1
    Chaos = 1
    Drain = 2
    Wrap = 256
SPECIFICATION FairRaceSpec
INVARIANTS CountIsTracked DrainsToZero
PROPERTIES CountIsFinal AllJoin
CHECK_DEADLOCK FALSE
