SPECIFICATION Spec
CONSTANTS
    d1 = d1  d2 = d2  a = a  w1 = w1  w2 = w2
    Docs = {d1, d2}
    Settings = {a}
    Workers = {w1, w2}
    Readers = {}
    MaxJobs = 1
    MaxAttempts = 1
    Lease = 1
    RetryDelay = 1
    DispatchLease = 1
SYMMETRY SharedSymmetry
INVARIANTS OneReady
