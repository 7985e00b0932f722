SPECIFICATION Spec
CONSTANTS
    Series = {"gauge"}
    Type <- Gauges
    Hash <- OneHash
    TagNames = FALSE
    MatchingTags <- NoHeaders
    Unit = 2
    Metrics <- TwoValues
    Internal = {}
    Count = 1
    Expiry <- NeverExpire
    Forwarded = {}
    MaxBatch = 2
    MaxMetrics = 3
    MaxTime = 4
CHECK_DEADLOCK FALSE
INVARIANT LastReceivedIsSent
