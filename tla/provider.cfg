SPECIFICATION ProvidersSpec
CONSTANTS
    IPs = {i1, i2}
    Instances = {inst}
    NoInstance = NoInstance
    Miss = Miss
    None = None
    MaxInstancesBatch = 2
    MaxAsked = 2
    MaxTicks = 2
    Pods = {p1, p2}
    k1 = k1
    Parsers = {l1}
    Run = Run
    MaxChanges = 3
    a1 = a1
    a2 = a2
    a3 = a3
    UnknownSource = UnknownSource
CHECK_DEADLOCK FALSE
INVARIANT StatsExact
INVARIANT AwsAnswers
PROPERTY ImplementsCachedInstances
PROPERTY PositiveUntilIdle
PROPERTY QuestionsAreAnswered
PROPERTY StaleIsCorrected
