SPECIFICATION Spec
CONSTANTS
    a1 = a1  a2 = a2  a3 = a3  a4 = a4  x = x  y = y
    Audits = {a1, a2, a3, a4}
    At <- MCAt
    Target <- MCTarget
    Threshold <- MCThreshold
    Window <- MCWindow
    Cooldown = 2
    t1 = t1  rec = rec
    Tasks = {t1}
    Reconciler = rec
    BatchSize = 2
    MaxAlerts = 2
    NoAlert = NoAlert
INVARIANTS Recovered CountsAgree
PROPERTIES ResolvedIsFinal
