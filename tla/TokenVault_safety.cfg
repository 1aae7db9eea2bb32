\* Two requests, two values, four messages of up to one span; keys live two
\* ticks.
CONSTANTS
    r1 = r1
    r2 = r2
    ann = ann
    bob = bob
    Requests = {r1, r2}
    Values = {ann, bob}
    TTL = 2
    MaxClock = 2
    MaxMessages = 4
    MaxSpans = 1
SPECIFICATION Spec
SYMMETRY Symmetry
INVARIANTS TokensAreOneToOne NeverSwapped SentIsVaulted
CHECK_DEADLOCK FALSE
