\* One call at a time, the first of two days is deleted.
CONSTANTS
    w1 = w1
    w2 = w2
    sql = sql
    Writers = {w1}
    Anchors = {sql}
    Absent = Absent
    MaxDay = 2
    MaxEvents = 2
    MaxFaults = 0
    RetentionDays = 1
    MaxLosses = 1
SPECIFICATION LossSpec
INVARIANT DayLossBreaksNext
CHECK_DEADLOCK FALSE
