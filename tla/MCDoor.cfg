CONSTANTS
    None = None
    MaxHandled = 6
    MaxTime = 4
    HostAction = {ring, log}
    MaxGiven = 2
    MaxChain = 3
SPECIFICATION FairSpec
INVARIANTS HandlerLinesAreHistory LogTellsStory ChainIsLastList
PROPERTY OpenDoorCloses
