SPECIFICATION FairSpec
CONSTANTS
    MaxRetries = 1
    MaxWorkerStops = 1
    MaxSchedulerStops = 1
    MayCancel = TRUE
INVARIANTS
    TypeOK
    DoneAfterSave
PROPERTY
    StreamEnds
CHECK_DEADLOCK FALSE
