SPECIFICATION FairSpec
CONSTANTS
    s1 = s1  s2 = s2  w1 = w1  w2 = w2
    Schedulers = {s1, s2}
    Workers = {w1, w2}
    Horizon = 1
    MaxAttempts = 2
    Lease = 1
    DeliveryTimeout = 1
    RetryDelay = 1
    ExecutionLimit = 1
    MaxRestarts = 1
INVARIANTS AtMostOneRun ClaimedOnce HonestLedger BoundedPublishing
PROPERTIES LegalTransitions KeepsPromise EveryClaimEnds
