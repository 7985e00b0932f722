SPECIFICATION FairSpec
CONSTANTS
    b1 = b1
    b2 = b2
    b3 = b3
    Batches = {b1, b3}
    Events = {e1}
    DynHeaders = TRUE
    Key <- TwoKeys
    MaxRequests = 1
    MaxTries = 2
    MaxFlushes = 2
CHECK_DEADLOCK FALSE
INVARIANT GoroutinesCounted
INVARIANT ExactlyOnePlace
INVARIANT CountersAddUp
PROPERTY EverythingIsSettled
