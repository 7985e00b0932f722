SPECIFICATION BackendsSpec
CONSTANTS
    Backends = {"datadog", "newrelic", "influxdb", "cloudwatch"}
    Flushes = {f1, f2}
    Events = {e1}
    Metrics = {"counter", "gauge", "timer"}
    Second = f2
    MetricMap <- MCMetricMap
    Width <- MCWidth
    PerBatch = 2
    Slack = 0
    MetricBuffers = {b1}
    EventBuffers = {b2}
    MaxRetries = 1
    NoBuf = NoBuf
    Streams = {s1, s2}
    Bufs = 2
    BufSize = 1
    SinkSize = 1
    MaxOutstanding = 2
    MaxStreams = 2
    NoStream = NoStream
CHECK_DEADLOCK FALSE
INVARIANT BuffersConserved
INVARIANT PostsItsOwn
INVARIANT LossIsReported
INVARIANT StreamLossIsReported
INVARIANT CalledBackAtMostOnce
PROPERTY EverySendIsCalledBack
