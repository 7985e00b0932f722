SPECIFICATION DataSpec
CONSTANTS
    Series = {"counter", "gauge", "timer", "set", "remote"}
    Type <- AllTypes
    Hash <- Hashes
    TagNames = TRUE
    MatchingTags <- Headers
    Unit = 2
    Metrics <- SomeMetrics
    Internal <- ServerGauge
    Count = 2
    Expiry <- Mixed
    Forwarded = {"timer", "set", "remote"}
    MaxBatch = 2
    MaxMetrics = 3
    MaxTime = 5
    Unused = Unused
    None = None
    NoSource = NoSource
    NoTag = NoTag
    NotANumber = NotANumber
    NoHistogram = NoHistogram
    Ip = Ip
    r1 = r1
    p1 = p1
    p2 = p2
CHECK_DEADLOCK FALSE
INVARIANT SeriesConserved
INVARIANT SeriesKept
INVARIANT TimersExact
INVARIANT LinesReadExactly
INVARIANT TagsExact
INVARIANT EnabledAreWritten
INVARIANT DatagramsConserved
