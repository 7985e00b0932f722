SPECIFICATION FairSpec
CONSTANTS
  p1 = p1
  p2 = p2
  p3 = p3
  d1 = d1
  b1 = b1
  Points <- MCPoints
  Bucket <- MCBucket
  Dispatchers = {d1}
  Backends = {b1}
  NumWorkers = 2
  QueueSize = 1
INVARIANT FlushesDoNotOverlap
INVARIANT ExactlyOnce
PROPERTY EventuallyDelivered
PROPERTY ShutdownCompletes
