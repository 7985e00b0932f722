SPECIFICATION Spec
CONSTANTS
    i1 = i1
    i2 = i2
    m1 = m1
    m2 = m2
    e1 = e1
    IPs = {i1}
    Instances = {inst}
    NoInstance = NoInstance
    Miss = Miss
    Metrics = {m1}
    Events = {e1}
    Source <- OneOfEach
    UnknownSource = UnknownSource
    Dispatchers = {d1}
    StatMod = 8
    MaxOwed = 1
    None = None
INVARIANT MetricHostsQueuedExact
