SPECIFICATION FairSpec
CONSTANTS
    d1 = d1  a = a  w1 = w1  w2 = w2
    Docs = {d1}
    Settings = {a}
    Workers = {w1, w2}
    Readers = {}
    MaxJobs = 2
    MaxAttempts = 2
    Lease = 1
    RetryDelay = 1
    DispatchLease = 1
PROPERTIES EveryJobEnds
