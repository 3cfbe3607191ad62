CONSTANTS
    Stage = {s1, s2, s3, s4, s5}
    Pipeline = pipeline
    Data = 3
SPECIFICATION FairSpec
INVARIANTS
    LockStep
    PipelineHandlesAll
    OnlyQueuedDataFails
    PipelineLast
PROPERTY Finishes
CHECK_DEADLOCK FALSE
