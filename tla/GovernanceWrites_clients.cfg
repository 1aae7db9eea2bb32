\* One write of each of the three clients and one read, one retry; no symmetry,
\* one of the properties is temporal.
CONSTANTS
    t1 = t1
    p1 = p1
    g1 = g1
    r1 = r1
    TsWrites = {t1}
    PyWrites = {p1}
    GatewayWrites = {g1}
    Reads = {r1}
    MaxRetries = 1
SPECIFICATION FairSpec
INVARIANTS RecordedOnce
PROPERTIES KeepsLedger EveryCallEnds
CHECK_DEADLOCK FALSE
