\* Two calls in flight, three entries, one midnight with a retention of one
\* day (the first day expires), two anchors, one fault.  No symmetry: one of
\* the properties is temporal.
CONSTANTS
    w1 = w1
    w2 = w2
    sql = sql
    s3 = s3
    Writers = {w1, w2}
    Anchors = {sql, s3}
    Absent = Absent
    MaxDay = 2
    MaxEvents = 3
    MaxFaults = 1
    RetentionDays = 1
SPECIFICATION FairSpec
INVARIANTS OneChain DaysVerify AnchorsVerify NoRowRefused DayHoldsHistory GapShows
PROPERTY LoggedIsMirrored
CHECK_DEADLOCK FALSE
