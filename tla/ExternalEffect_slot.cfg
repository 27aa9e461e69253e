SPECIFICATION FairSpec
CONSTANTS
    w1 = w1  w2 = w2
    http = http  slack = slack  fake = fake
    k1 = k1  k2 = k2
    Workers = {w1, w2}
    Contracts = {http, slack, fake}
    Supported = {fake}
    Reusable = {slack, fake}
    Keys = {k1, k2}
    NoKey = NoKey
    NoContract = NoContract
    ClaimTTL = 1
    Retention = 1
    MaxRetries = 1
INVARIANTS RowShape AtMostOneEffect VerdictIsTrue OneKey OneCommittedAnswer
PROPERTIES KeepsPromise EveryDeliveryEnds
CHECK_DEADLOCK FALSE
