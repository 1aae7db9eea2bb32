\* One identity, one request of one message.
CONSTANTS
    alice = alice
    s1 = s1
    q1 = q1
    Callers = {alice}
    Sessions = {s1}
    Requests = {q1}
    Nobody = Nobody
    MaxRequests = 1
    MaxMessages = 1
SPECIFICATION ChatSpec
INVARIANT EveryRequestAudited
CHECK_DEADLOCK FALSE
