SPECIFICATION Spec
CONSTANTS
    MaxRetries = 1
    MaxWorkerStops = 0
    MaxSchedulerStops = 0
    MayCancel = FALSE
INVARIANT
    QuietJobIsFound
CHECK_DEADLOCK FALSE
