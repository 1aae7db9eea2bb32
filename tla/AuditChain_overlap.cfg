\* Two calls that overlap, nothing fails.
CONSTANTS
    w1 = w1
    w2 = w2
    sql = sql
    s3 = s3
    Writers = {w1, w2}
    Anchors = {sql}
    Absent = Absent
    MaxDay = 1
    MaxEvents = 2
    MaxFaults = 0
    RetentionDays = 1
SPECIFICATION Spec
INVARIANT FalseOnlyIfTampered
CHECK_DEADLOCK FALSE
