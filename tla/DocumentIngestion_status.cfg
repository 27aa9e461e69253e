SPECIFICATION Spec
CONSTANTS
    d1 = d1  a = a  w1 = w1  r1 = r1
    Docs = {d1}
    Settings = {a}
    Workers = {w1}
    Readers = {r1}
    MaxJobs = 2
    MaxAttempts = 1
    Lease = 1
    RetryDelay = 1
    DispatchLease = 1
INVARIANTS ProjectionFollowsJob
