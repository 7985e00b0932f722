SPECIFICATION Spec
CONSTANTS
    Values <- TwoValues
    Weights = {1}
    PercentThresholds <- Negative
    Tags <- NoTags
    NoTag = NoTag
    NotANumber = NotANumber
    Infinity = 1000
    HistogramLimit = 2
    None = None
    MaxValues = 4
INVARIANT NegativePercentileDefined
