SPECIFICATION Spec
CONSTANTS
    d1 = d1  a = a  b = b  w1 = w1  w2 = w2
    Docs = {d1}
    Settings = {a, b}
    Workers = {w1, w2}
    Readers = {}
    MaxJobs = 2
    MaxAttempts = 2
    Lease = 1
    RetryDelay = 1
    DispatchLease = 1
SYMMETRY Symmetry
INVARIANTS TypeOK SingleFlight BuiltAsAsked NothingLeaks
PROPERTIES LiveLeaseHolds
