SPECIFICATION Spec
CONSTANTS
    w1 = w1  w2 = w2
    fake = fake
    k1 = k1  k2 = k2
    Workers = {w1, w2}
    Contracts = {fake}
    Supported = {fake}
    Reusable = {fake}
    Keys = {k1, k2}
    NoKey = NoKey
    NoContract = NoContract
    ClaimTTL = 1
    Retention = 1
    MaxRetries = 2
SYMMETRY Symmetry
PROPERTIES NoReopenAfterDeadline
CHECK_DEADLOCK FALSE
