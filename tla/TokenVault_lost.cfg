\* Two concurrent requests, one message each.
CONSTANTS
    r1 = r1
    r2 = r2
    ann = ann
    bob = bob
    Requests = {r1, r2}
    Values = {ann, bob}
    TTL = 2
    MaxClock = 2
    MaxMessages = 2
    MaxSpans = 1
SPECIFICATION Spec
INVARIANT SentIsRestorable
CHECK_DEADLOCK FALSE
