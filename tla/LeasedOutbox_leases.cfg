SPECIFICATION FairSpec
CONSTANTS
    a1 = a1  n1 = n1  w1 = w1  w2 = w2
    Audits = {a1}
    Notifications = {n1}
    Correlated = {a1}
    Workers = {w1, w2}
    NoWorker = NoWorker  NoEvent = NoEvent
    MaxAttempts = 3
    Limit = 1
INVARIANTS TypeOK AuditWithItsEvent PublishedPerAttempt
PROPERTIES EveryEventEnds
