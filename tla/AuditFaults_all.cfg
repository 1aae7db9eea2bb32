\* Two calls in flight, two days with a retention of one day, three entries,
\* one anchor; one restart, two deletions, or one check and one fault.
CONSTANTS
    w1 = w1
    w2 = w2
    sql = sql
    Writers = {w1, w2}
    Anchors = {sql}
    Absent = Absent
    MaxDay = 2
    MaxEvents = 3
    MaxFaults = 1
    RetentionDays = 1
    MaxRestarts = 1
    MaxLosses = 2
    MaxChecks = 1
SPECIFICATION FaultsSpec
SYMMETRY Symmetry
INVARIANTS RestartKeepsDays RefusalShows LossShows AnchorsOutliveRedis FalseIsExplained
PROPERTIES OkIsCurrent
CHECK_DEADLOCK FALSE
