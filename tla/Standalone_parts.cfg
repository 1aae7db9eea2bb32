SPECIFICATION Spec
CONSTANTS
    v1 = v1
    v2 = v2
    None = None
    Visitors = {v1, v2}
    Behind <- BehindMC
    RateLimit = 2
    Window = 2
    MaxTime = 4
    MaxPosts = 4
    MaxInstances = 1
    Words <- WordsMC
    NonNames <- NonNamesMC
    MaxWords = 5
    Letters <- LettersMC
    Tables <- TablesMC
    MaxRows = 1
    MaxPreview = 1
    MaxFiles = 2
    Detectors <- DetectorsMC
    Severity <- SeverityMC
    MaxScanLength = 2
    Texts <- TextsMC
    i1 = i1
    i2 = i2
    t1 = t1
    Characters <- CharactersMC
    Messages <- MessagesMC
    Types <- TypesMC
    TokenMaps <- TokenMapsMC
    Roles <- RolesMC
    MaxScore = 2
    MaxSpans = 3
    Instances = {i1, i2}
    Tokens = {t1}
    TokenTTL = 2
    SessionTTL = 2
    Grace = 2
    MaxSecrets = 4
    MaxClock = 3
    alice = alice
    eve = eve
    s1 = s1
    q1 = q1
    Callers = {alice, eve}
    Sessions = {s1}
    Requests = {q1}
    Nobody = Nobody
    MaxRequests = 1
    MaxMessages = 2
SYMMETRY Symmetry
INVARIANTS NeverInClear OwnSessionOnly GuardedBefore OutcomeOnRecord
INVARIANTS AtMostTwice RoundTrip SameValueSameToken NamesAreTokens DatasetAsWritten NothingMilder
INVARIANTS ReadsAsWritten ClearOnlyIfOutbid
INVARIANTS RefusedOnlyByOlder RevokedStaysOut UnreadableOnlyToOlder
CHECK_DEADLOCK FALSE
