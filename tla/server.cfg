SPECIFICATION ServerSpec
CONSTANTS
    Events = {e1}
    Maps = {m1}
    StopEvent = stop
    NumBackends = 2
    MaxConcurrent = 1
INVARIANT EventsCounted
INVARIANT WaitMeansAllDone
INVARIANT CallersOutlived
PROPERTY ShutdownCompletes
