----------------------- MODULE GovernanceWritesProofs -----------------------
(***************************************************************************)
(* What holds of the governance clients for any number of writes, reads    *)
(* and retries: a write is recorded at most once, none ends unrecorded     *)
(* without the drop hook or, in the gateway, unheard, and the clients      *)
(* implement GovernanceLedger.                                             *)
(***************************************************************************)
EXTENDS GovernanceWrites, TLAPS

\* The service has recorded exactly the keyed writes whose key it has seen.
SeenIsRecorded ==
    \A w \in Keyed : recorded[w] = IF <<w, 0>> \in seen THEN 1 ELSE 0

\* What comes back from the service as its own answer follows a record.
AnswersFollow ==
    \A w \in Writes : answer[w] \in {"result", "garbled"} => recorded[w] = 1

\* A write without a key is recorded once because it is sent once: its only
\* request is gone when the service has recorded it.
SentOnce(w) ==
    /\ attempt[w] = 0 /\ pc[w] # "backoff"
    /\ pc[w] = "idle" => recorded[w] = 0
    /\ recorded[w] \in {0, 1}
    /\ \A r \in requests : r.call = w => r.attempt = 0 /\ recorded[w] = 0

GatewaySendsOnce == \A w \in GatewayWrites : SentOnce(w)

\* Nothing is under way for a call that has not been made.
NoneBefore == \A r \in requests : pc[r.call] # "idle"

\* A call that waits for its next attempt has one left.
BackoffHasNext == \A c \in Calls : pc[c] = "backoff" => attempt[c] # MaxRetries

IInv ==
    /\ TypeOK
    /\ SeenIsRecorded
    /\ AnswersFollow
    /\ GatewaySendsOnce
    /\ NoneBefore
    /\ BackoffHasNext
    /\ NothingLost
-----------------------------------------------------------------------------
\* How an attempt ends, by an answer or by the timer.
Moves(c, x) ==
    /\ pc[c] = "sent"
    /\ x \in {"backoff"} \cup Ended
    /\ x = "backoff" => attempt[c] # MaxRetries /\ c \notin GatewayWrites
    /\ x = "dropped" => c \notin GatewayWrites
    /\ x = "unheard" => c \in GatewayWrites
    /\ x \in {"ok", "raised"} => answer[c] \in {"result", "garbled"}
    /\ c \in Writes => x # "failed"
    /\ pc' = [pc EXCEPT ![c] = x]
    /\ answer' = [answer EXCEPT ![c] = "none"]
    /\ UNCHANGED <<attempt, requests, seen, recorded>>

\* What a failure becomes, by the kind of the call.
LEMMA FailureOf ==
    ASSUME NEW c \in Calls
    PROVE  /\ Failure(c) \in {"failed", "dropped", "unheard"}
           /\ c \in Writes => Failure(c) # "failed"
           /\ Failure(c) = "dropped" => c \notin GatewayWrites
           /\ Failure(c) = "unheard" => c \in GatewayWrites
<1>1. CASE c \in Reads
    BY <1>1, KindsAssumption DEF Failure, Writes, Keyed
<1>2. CASE c \in Keyed
    BY <1>2, KindsAssumption DEF Failure, Writes, Keyed
<1>3. CASE c \in GatewayWrites
    BY <1>3, KindsAssumption DEF Failure, Writes, Keyed
<1> QED BY <1>1, <1>2, <1>3 DEF Calls, Writes

\* A timer or an answer moves a call on; only a result or a body that does
\* not parse ends it with its write on record for certain.
LEMMA AttemptEnds ==
    ASSUME NEW c \in Calls, Receive(c) \/ Timeout(c)
    PROVE  \E x : Moves(c, x)
<1>1. ASSUME pc[c] = "sent", Failed(c),
             answer' = [answer EXCEPT ![c] = "none"],
             UNCHANGED <<attempt, requests, seen, recorded>>
      PROVE  \E x : Moves(c, x)
    <2>1. CASE c \in Keyed /\ attempt[c] # MaxRetries
        <3>1. Moves(c, "backoff")
            BY <1>1, <2>1, KindsAssumption DEF Failed, Moves, Keyed
        <3> QED BY <3>1
    <2>2. CASE ~(c \in Keyed /\ attempt[c] # MaxRetries)
        <3>1. Moves(c, Failure(c))
            BY <1>1, <2>2, FailureOf DEF Failed, Moves, Ended
        <3> QED BY <3>1
    <2> QED BY <2>1, <2>2
<1>2. CASE Timeout(c)
    BY <1>1, <1>2 DEF Timeout
<1>3. CASE Receive(c)
    <2>0. /\ pc[c] = "sent"
          /\ answer' = [answer EXCEPT ![c] = "none"]
          /\ UNCHANGED <<attempt, requests, seen, recorded>>
        BY <1>3 DEF Receive
    <2>1. CASE answer[c] = "result" /\ pc' = [pc EXCEPT ![c] = "ok"]
        <3>1. Moves(c, "ok")
            BY <2>0, <2>1 DEF Moves, Ended
        <3> QED BY <3>1
    <2>2. CASE Failed(c)
        BY <1>1, <2>0, <2>2
    <2>3. CASE answer[c] = "garbled" /\ pc' = [pc EXCEPT ![c] = "raised"]
        <3>1. Moves(c, "raised")
            BY <2>0, <2>3 DEF Moves, Ended
        <3> QED BY <3>1
    <2>4. CASE GivenUp(c)
        <3>1. Moves(c, Failure(c))
            BY <2>0, <2>4, FailureOf DEF GivenUp, Moves, Ended
        <3> QED BY <3>1
    <2> QED BY <1>3, <2>1, <2>2, <2>3, <2>4 DEF Receive, Unparsed
<1> QED BY <1>2, <1>3

-----------------------------------------------------------------------------
LEMMA InitIsGood == Init => IInv
<1> SUFFICES ASSUME Init PROVE IInv
    OBVIOUS
<1>1. TypeOK
    BY RetriesAssumption DEF Init, TypeOK, Ended, Answers, Request, Keys
<1>2. SeenIsRecorded /\ AnswersFollow /\ NoneBefore /\ BackoffHasNext /\ NothingLost
    BY DEF Init, SeenIsRecorded, AnswersFollow, NoneBefore, BackoffHasNext,
           NothingLost, Calls, Writes
<1>3. GatewaySendsOnce
    BY DEF Init, GatewaySendsOnce, SentOnce, Calls, Writes
<1> QED BY <1>1, <1>2, <1>3 DEF IInv

LEMMA CallIsGood ==
    ASSUME IInv, NEW c \in Calls, Call(c)
    PROVE  IInv'
<1> USE DEF IInv
<1>1. TypeOK'
    BY RetriesAssumption DEF TypeOK, Call, Request, Ended
<1>2. NoneBefore'
    BY DEF NoneBefore, Call, TypeOK, Request
<1>3. BackoffHasNext'
    BY DEF BackoffHasNext, Call, TypeOK
<1>4. SeenIsRecorded' /\ AnswersFollow'
    BY DEF SeenIsRecorded, AnswersFollow, Call
<1>5. NothingLost'
    BY DEF NothingLost, Call, TypeOK, Calls
<1>6. GatewaySendsOnce'
    BY DEF GatewaySendsOnce, SentOnce, Call, TypeOK, Calls, Writes, Request
<1> QED BY <1>1, <1>2, <1>3, <1>4, <1>5, <1>6

LEMMA RetryIsGood ==
    ASSUME IInv, NEW c \in Calls, Retry(c)
    PROVE  IInv'
<1> USE DEF IInv
<1>1. attempt[c] + 1 \in 0..MaxRetries
    BY RetriesAssumption DEF TypeOK, BackoffHasNext, Retry
<1>2. TypeOK'
    BY <1>1, RetriesAssumption DEF TypeOK, Retry, Request, Ended
<1>3. NoneBefore'
    BY DEF NoneBefore, Retry, TypeOK, Request
<1>4. BackoffHasNext'
    BY DEF BackoffHasNext, Retry, TypeOK
<1>5. SeenIsRecorded' /\ AnswersFollow'
    BY DEF SeenIsRecorded, AnswersFollow, Retry
<1>6. NothingLost'
    BY DEF NothingLost, Retry, TypeOK, Calls
<1>7. GatewaySendsOnce'
    <2>1. c \notin GatewayWrites
        BY DEF Retry, GatewaySendsOnce, SentOnce
    <2> QED BY <2>1 DEF GatewaySendsOnce, SentOnce, Retry, TypeOK, Calls, Writes
<1> QED BY <1>2, <1>3, <1>4, <1>5, <1>6, <1>7

LEMMA EndIsGood ==
    ASSUME IInv, NEW c \in Calls, NEW x, Moves(c, x)
    PROVE  IInv'
<1> USE DEF IInv
<1>1. TypeOK'
    BY DEF TypeOK, Moves, Ended
<1>2. NoneBefore'
    BY DEF NoneBefore, Moves, TypeOK, Request, Ended
<1>3. BackoffHasNext'
    BY DEF BackoffHasNext, Moves, TypeOK
<1>4. SeenIsRecorded' /\ AnswersFollow'
    BY DEF SeenIsRecorded, AnswersFollow, Moves, TypeOK, Calls
<1>5. NothingLost'
    BY DEF NothingLost, Moves, TypeOK, Calls, AnswersFollow
<1>6. GatewaySendsOnce'
    BY DEF GatewaySendsOnce, SentOnce, Moves, TypeOK, Calls, Writes, Ended
<1> QED BY <1>1, <1>2, <1>3, <1>4, <1>5, <1>6

\* What an answer may touch.
LEMMA AnswerTouches ==
    ASSUME TypeOK, NEW r \in requests, NEW status \in Answers, Answer(r, status)
    PROVE  /\ requests' \subseteq requests
           /\ answer' \in [Calls -> Answers \cup {"none"}]
           /\ \A c \in Calls : answer'[c] = answer[c] \/ (c = r.call /\ answer'[c] = status)
<1>1. r.call \in Calls
    BY DEF TypeOK, Request
<1> QED BY <1>1 DEF TypeOK, Answer

LEMMA ServeIsGood ==
    ASSUME IInv, NEW r \in requests, Serve(r)
    PROVE  IInv'
<1> USE DEF IInv
<1>1. PICK status \in {"result", "garbled", "unavailable"} : Answer(r, status)
    BY DEF Serve
<1>2. /\ requests' \subseteq requests
      /\ answer' \in [Calls -> Answers \cup {"none"}]
      /\ \A c \in Calls : answer'[c] = answer[c] \/ c = r.call
    BY <1>1, AnswerTouches DEF Answers
<1>3. UNCHANGED <<pc, attempt>>
    BY DEF Serve
<1>4. r.call \in Calls /\ r.attempt \in 0..MaxRetries
    BY DEF TypeOK, Request
<1>5. /\ TypeOK' /\ SeenIsRecorded' /\ GatewaySendsOnce'
      /\ r.call \in Writes => recorded'[r.call] = 1
      /\ \A w \in Writes : recorded'[w] >= recorded[w] /\ recorded'[w] \in {0, 1}
    <2>0. \A w \in Writes : recorded[w] \in {0, 1}
        BY DEF SeenIsRecorded, GatewaySendsOnce, SentOnce, Writes
    <2>1. CASE /\ r.call \in Keyed /\ <<r.call, 0>> \notin seen
               /\ seen' = seen \cup {<<r.call, 0>>}
               /\ recorded' = [recorded EXCEPT ![r.call] = @ + 1]
        <3>1. <<r.call, 0>> \in Keys /\ recorded[r.call] = 0
            BY <2>1, RetriesAssumption DEF Keys, SeenIsRecorded
        <3>2. r.call \in Writes /\ r.call \notin GatewayWrites
            BY <2>1, KindsAssumption DEF Writes, Keyed
        <3>3. recorded' = [recorded EXCEPT ![r.call] = 1]
            <4>1. recorded[r.call] + 1 = 1
                BY <3>1
            <4> QED BY <2>1, <4>1, Zenon
        <3>4. TypeOK'
            <4>1. recorded' \in [Writes -> Nat]
                BY <3>2, <3>3 DEF TypeOK
            <4>2. seen' \subseteq Keys
                BY <2>1, <3>1 DEF TypeOK
            <4> QED BY <1>2, <1>3, <4>1, <4>2 DEF TypeOK
        <3>5. SeenIsRecorded'
            BY <2>1, <3>2, <3>3 DEF TypeOK, SeenIsRecorded, Writes
        <3>6. GatewaySendsOnce'
            BY <1>2, <1>3, <3>2, <3>3 DEF GatewaySendsOnce, SentOnce, TypeOK, Writes
        <3> QED BY <2>0, <3>1, <3>2, <3>3, <3>4, <3>5, <3>6 DEF TypeOK
    <2>2. CASE /\ r.call \in GatewayWrites
               /\ recorded' = [recorded EXCEPT ![r.call] = @ + 1]
               /\ UNCHANGED seen
        <3>1. recorded[r.call] = 0 /\ r.attempt = 0 /\ pc[r.call] # "idle"
            BY <2>2 DEF GatewaySendsOnce, SentOnce, NoneBefore
        <3>2. r.call \in Writes /\ r.call \notin Keyed
            BY <2>2, KindsAssumption DEF Writes, Keyed
        <3>3. recorded' = [recorded EXCEPT ![r.call] = 1]
            <4>1. recorded[r.call] + 1 = 1
                BY <3>1
            <4> QED BY <2>2, <4>1, Zenon
        <3>4. TypeOK'
            <4>1. recorded' \in [Writes -> Nat]
                BY <3>2, <3>3 DEF TypeOK
            <4>2. seen' \subseteq Keys
                BY <2>2 DEF TypeOK
            <4> QED BY <1>2, <1>3, <4>1, <4>2 DEF TypeOK
        <3>5. SeenIsRecorded'
            BY <2>2, <3>2, <3>3 DEF TypeOK, SeenIsRecorded, Writes
        <3>6. \A q \in requests' : q.call # r.call
            <4> SUFFICES ASSUME NEW q \in requests', q.call = r.call PROVE FALSE
                OBVIOUS
            <4>1. q \in requests /\ q # r
                BY <1>1 DEF Answer
            <4>2. q.attempt = 0
                BY <2>2, <4>1 DEF GatewaySendsOnce, SentOnce
            <4> QED BY <3>1, <4>1, <4>2 DEF TypeOK, Request
        <3>7. GatewaySendsOnce'
            BY <1>2, <1>3, <3>1, <3>2, <3>3, <3>6
               DEF GatewaySendsOnce, SentOnce, TypeOK, Writes
        <3> QED BY <2>0, <3>1, <3>2, <3>3, <3>4, <3>5, <3>7 DEF TypeOK
    <2>3. CASE /\ r.call \in Reads \/ (r.call \in Keyed /\ <<r.call, 0>> \in seen)
               /\ UNCHANGED <<seen, recorded>>
        <3>1. r.call \in Writes => recorded[r.call] = 1
            BY <2>3, KindsAssumption DEF SeenIsRecorded, Writes, Keyed
        <3>2. TypeOK' /\ SeenIsRecorded'
            BY <1>2, <1>3, <2>3 DEF TypeOK, SeenIsRecorded
        <3>3. GatewaySendsOnce'
            BY <1>2, <1>3, <2>3 DEF GatewaySendsOnce, SentOnce
        <3> QED BY <2>0, <2>3, <3>1, <3>2, <3>3
    <2> QED BY <2>1, <2>2, <2>3 DEF Serve, Take, IdempotencyKey
<1>7. AnswersFollow'
    <2> SUFFICES ASSUME NEW w \in Writes, answer'[w] \in {"result", "garbled"}
                 PROVE  recorded'[w] = 1
        BY DEF AnswersFollow
    <2>1. CASE w = r.call
        BY <1>5, <2>1
    <2>2. CASE w # r.call
        <3>1. answer[w] \in {"result", "garbled"}
            BY <1>2, <2>2 DEF Calls
        <3>2. recorded[w] = 1 /\ recorded'[w] >= 1
            BY <1>5, <3>1 DEF AnswersFollow
        <3>3. recorded'[w] \in {0, 1}
            BY <1>5
        <3> QED BY <3>2, <3>3
    <2> QED BY <2>1, <2>2
<1>8. NoneBefore' /\ BackoffHasNext'
    BY <1>2, <1>3 DEF NoneBefore, BackoffHasNext
<1>9. NothingLost'
    <2>1. \A w \in Writes : recorded[w] \in Nat /\ recorded'[w] \in Nat
        BY <1>5 DEF TypeOK
    <2> QED BY <1>3, <1>5, <2>1 DEF NothingLost
<1> QED BY <1>5, <1>7, <1>8, <1>9

LEMMA RefuseIsGood ==
    ASSUME IInv, NEW r \in requests, Refuse(r)
    PROVE  IInv'
<1> USE DEF IInv
<1>1. PICK status \in {"unavailable", "throttled", "refused"} : Answer(r, status)
    BY DEF Refuse
<1>2. /\ requests' \subseteq requests
      /\ answer' \in [Calls -> Answers \cup {"none"}]
      /\ \A c \in Calls : answer'[c] = answer[c] \/ answer'[c] = status
    BY <1>1, AnswerTouches DEF Answers
<1>3. UNCHANGED <<pc, attempt, seen, recorded>>
    BY DEF Refuse
<1>4. TypeOK'
    BY <1>2, <1>3 DEF TypeOK
<1>5. AnswersFollow'
    BY <1>2, <1>3 DEF AnswersFollow, Calls
<1>6. SeenIsRecorded' /\ NoneBefore' /\ BackoffHasNext' /\ NothingLost'
    BY <1>2, <1>3 DEF SeenIsRecorded, NoneBefore, BackoffHasNext, NothingLost
<1>7. GatewaySendsOnce'
    BY <1>2, <1>3 DEF GatewaySendsOnce, SentOnce
<1> QED BY <1>4, <1>5, <1>6, <1>7

LEMMA NextIsGood ==
    ASSUME IInv, [Next]_vars
    PROVE  IInv'
<1>1. CASE UNCHANGED vars
    BY <1>1 DEF vars, IInv, TypeOK, SeenIsRecorded, AnswersFollow, NoneBefore,
                GatewaySendsOnce, SentOnce, BackoffHasNext, NothingLost
<1>2. ASSUME NEW c \in Calls, ClientStep(c) PROVE IInv'
    <2>1. CASE Call(c)
        BY <2>1, CallIsGood
    <2>2. CASE Receive(c) \/ Timeout(c)
        <3>1. PICK x : Moves(c, x)
            BY <2>2, AttemptEnds
        <3> QED BY <3>1, EndIsGood
    <2>3. CASE Retry(c)
        BY <2>3, RetryIsGood
    <2> QED BY <1>2, <2>1, <2>2, <2>3 DEF ClientStep
<1>3. ASSUME NEW r \in requests, Serve(r) \/ Refuse(r) PROVE IInv'
    BY <1>3, ServeIsGood, RefuseIsGood
<1> QED BY <1>1, <1>2, <1>3 DEF Next, ServiceStep

LEMMA AlwaysGood == Spec => []IInv
BY InitIsGood, NextIsGood, PTL DEF Spec
-----------------------------------------------------------------------------
\* Every variable of the clients keeps to its type.
THEOREM TypeCorrect == Spec => []TypeOK
<1>1. IInv => TypeOK
    BY DEF IInv
<1> QED BY <1>1, AlwaysGood, PTL

\* A write is on record at most once, however often it is sent
\* (sdk/typescript/src/index.ts, attempt; clawwarden/governance.py, _post),
\* and so is the gateway's, which has no key (governance_client.py, _post).
THEOREM WritesRecordedOnce == Spec => []RecordedOnce
<1>1. IInv => RecordedOnce
    <2> SUFFICES ASSUME IInv, NEW w \in Writes PROVE recorded[w] <= 1
        BY DEF RecordedOnce
    <2>1. recorded[w] = 1 \/ recorded[w] = 0
        BY DEF IInv, SeenIsRecorded, GatewaySendsOnce, SentOnce, Writes
    <2> QED BY <2>1
<1> QED BY <1>1, AlwaysGood, PTL

\* A write whose caller gets a result, or the exception of an answer that does
\* not parse, is on record.
THEOREM WritesNotLost == Spec => []NothingLost
<1>1. IInv => NothingLost
    BY DEF IInv
<1> QED BY <1>1, AlwaysGood, PTL
-----------------------------------------------------------------------------
\* What the ledger sees of the clients.
Outcomes == [w \in Writes |-> Outcome(w)]

LEMMA OutcomeOf ==
    ASSUME NEW w \in Writes
    PROVE  /\ pc[w] = "idle" => Outcome(w) = "none"
           /\ pc[w] \in {"sent", "backoff"} => Outcome(w) = "pending"
           /\ pc[w] \in Ended => Outcome(w) = pc[w]
BY DEF Outcome, Ended

\* A step that leaves pc alone leaves the outcomes alone.
LEMMA OutcomesStay ==
    ASSUME UNCHANGED pc
    PROVE  UNCHANGED Outcomes
BY DEF Outcomes, Outcome

\* A step of one call changes the outcome of that call only.
LEMMA OutcomesMove ==
    ASSUME TypeOK, NEW c \in Calls, NEW x, pc' = [pc EXCEPT ![c] = x],
           x \in {"sent", "backoff"} \cup Ended
    PROVE  Outcomes' = [Outcomes EXCEPT ![c] =
                           IF x \in {"sent", "backoff"} THEN "pending" ELSE x]
<1>1. \A w \in Writes : pc'[w] = IF w = c THEN x ELSE pc[w]
    BY DEF TypeOK, Calls
<1>2. \A w \in Writes : w # c => Outcome(w)' = Outcome(w)
    BY <1>1 DEF Outcome
<1>3. c \in Writes => Outcome(c)' = IF x \in {"sent", "backoff"} THEN "pending" ELSE x
    BY <1>1 DEF Outcome, Ended
<1> QED BY <1>2, <1>3 DEF Outcomes

\* A call of the clients that ends or waits is a step of the ledger, or none.
LEMMA EndIsLedgerStep ==
    ASSUME IInv, NEW c \in Calls, NEW x, Moves(c, x)
    PROVE  [Ledger!LedgerNext]_(Ledger!ledgerVars)
<1>1. UNCHANGED recorded /\ x \in {"backoff"} \cup Ended /\ pc[c] = "sent"
    BY DEF Moves
<1>2. Outcomes' = [Outcomes EXCEPT ![c] = IF x = "backoff" THEN "pending" ELSE x]
    <2>1. x \in {"sent", "backoff"} <=> x = "backoff"
        BY <1>1 DEF Ended
    <2> QED BY <1>1, <2>1, OutcomesMove DEF Moves, IInv
<1>3. CASE c \notin Writes
    <2>1. UNCHANGED Outcomes
        BY <1>2, <1>3 DEF Outcomes
    <2> QED BY <1>1, <2>1 DEF Ledger!ledgerVars, Outcomes
<1>4. CASE c \in Writes
    <2>1. Outcomes[c] = "pending"
        BY <1>1, <1>4 DEF Outcomes, Outcome
    <2>2. CASE x = "backoff"
        <3>1. UNCHANGED Outcomes
            BY <1>2, <2>1, <2>2 DEF Outcomes
        <3> QED BY <1>1, <3>1 DEF Ledger!ledgerVars, Outcomes
    <2>3. CASE x \in {"ok", "raised"}
        <3>1. recorded[c] = 1
            BY <1>4, <2>3 DEF Moves, IInv, AnswersFollow
        <3>2. Ledger!Settle(c)
            BY <1>1, <1>2, <2>1, <2>3, <3>1 DEF Ledger!Settle, Outcomes
        <3> QED BY <1>4, <3>2 DEF Ledger!LedgerNext
    <2>4. CASE x = "dropped"
        <3>0. c \notin GatewayWrites
            BY <2>4 DEF Moves
        <3>1. Ledger!Drop(c)
            BY <1>1, <1>2, <2>1, <2>4, <3>0 DEF Ledger!Drop, Outcomes
        <3> QED BY <1>4, <3>1 DEF Ledger!LedgerNext
    <2>5. CASE x = "unheard"
        <3>0. c \in GatewayWrites
            BY <2>5 DEF Moves
        <3>1. Ledger!Forget(c)
            BY <1>1, <1>2, <2>1, <2>5, <3>0 DEF Ledger!Forget, Outcomes
        <3> QED BY <1>4, <3>1 DEF Ledger!LedgerNext
    <2> QED BY <1>1, <1>4, <2>2, <2>3, <2>4, <2>5 DEF Moves, Ended
<1> QED BY <1>3, <1>4

LEMMA CallIsLedgerStep ==
    ASSUME IInv, NEW c \in Calls, Call(c)
    PROVE  [Ledger!LedgerNext]_(Ledger!ledgerVars)
<1>1. UNCHANGED recorded /\ pc[c] = "idle"
    BY DEF Call
<1>2. Outcomes' = [Outcomes EXCEPT ![c] = "pending"]
    <2>1. pc' = [pc EXCEPT ![c] = "sent"]
        BY DEF Call
    <2> QED BY <2>1, OutcomesMove DEF IInv
<1>3. CASE c \notin Writes
    <2>1. UNCHANGED Outcomes
        BY <1>2, <1>3 DEF Outcomes
    <2> QED BY <1>1, <2>1 DEF Ledger!ledgerVars, Outcomes
<1>4. CASE c \in Writes
    <2>1. Outcomes[c] = "none"
        BY <1>1, <1>4 DEF Outcomes, Outcome
    <2>2. Ledger!Submit(c)
        BY <1>1, <1>2, <2>1 DEF Ledger!Submit, Outcomes
    <2> QED BY <1>4, <2>2 DEF Ledger!LedgerNext
<1> QED BY <1>3, <1>4

LEMMA RetryIsLedgerStep ==
    ASSUME IInv, NEW c \in Calls, Retry(c)
    PROVE  UNCHANGED Ledger!ledgerVars
<1>1. UNCHANGED recorded /\ pc[c] = "backoff"
    BY DEF Retry
<1>2. Outcomes' = [Outcomes EXCEPT ![c] = "pending"]
    <2>1. pc' = [pc EXCEPT ![c] = "sent"]
        BY DEF Retry
    <2> QED BY <2>1, OutcomesMove DEF IInv
<1>3. c \in Writes => Outcomes[c] = "pending"
    BY <1>1 DEF Outcomes, Outcome
<1>4. UNCHANGED Outcomes
    BY <1>2, <1>3 DEF Outcomes
<1> QED BY <1>1, <1>4 DEF Ledger!ledgerVars, Outcomes

LEMMA ServeIsLedgerStep ==
    ASSUME IInv, NEW r \in requests, Serve(r)
    PROVE  [Ledger!LedgerNext]_(Ledger!ledgerVars)
<1>1. UNCHANGED Outcomes
    BY OutcomesStay DEF Serve
<1>2. CASE /\ r.call \in Writes /\ recorded[r.call] = 0
           /\ recorded' = [recorded EXCEPT ![r.call] = @ + 1]
    <2>1. Outcomes[r.call] # "none"
        <3>1. pc[r.call] # "idle"
            BY DEF IInv, NoneBefore
        <3>2. pc[r.call] \in {"sent", "backoff"} \cup Ended
            BY <1>2, <3>1 DEF IInv, TypeOK, Calls
        <3> QED BY <1>2, <3>2 DEF Outcomes, Outcome, Ended
    <2>2. Ledger!Record(r.call)
        BY <1>1, <1>2, <2>1 DEF Ledger!Record, Outcomes
    <2> QED BY <1>2, <2>2 DEF Ledger!LedgerNext
<1>3. CASE UNCHANGED recorded
    BY <1>1, <1>3 DEF Ledger!ledgerVars, Outcomes
<1>4. \/ UNCHANGED recorded
      \/ /\ r.call \in Writes /\ recorded[r.call] = 0
         /\ recorded' = [recorded EXCEPT ![r.call] = @ + 1]
    <2>1. r.call \in Keyed /\ <<r.call, 0>> \notin seen => recorded[r.call] = 0
        BY DEF IInv, SeenIsRecorded
    <2>2. r.call \in GatewayWrites => recorded[r.call] = 0
        BY DEF IInv, GatewaySendsOnce, SentOnce
    <2>3. Take(r.call, <<r.call, 0>>)
        BY DEF Serve, IdempotencyKey
    <2> QED BY <2>1, <2>2, <2>3 DEF Take, Writes
<1> QED BY <1>2, <1>3, <1>4

LEMMA NextIsLedgerStep ==
    ASSUME IInv, [Next]_vars
    PROVE  [Ledger!LedgerNext]_(Ledger!ledgerVars)
<1>1. CASE UNCHANGED vars
    <2>1. UNCHANGED Outcomes /\ UNCHANGED recorded
        BY <1>1, OutcomesStay DEF vars
    <2> QED BY <2>1 DEF Ledger!ledgerVars, Outcomes
<1>2. ASSUME NEW c \in Calls, ClientStep(c)
      PROVE  [Ledger!LedgerNext]_(Ledger!ledgerVars)
    <2>1. CASE Receive(c) \/ Timeout(c)
        <3>1. PICK x : Moves(c, x)
            BY <2>1, AttemptEnds
        <3> QED BY <3>1, EndIsLedgerStep
    <2> QED BY <1>2, <2>1, CallIsLedgerStep, RetryIsLedgerStep DEF ClientStep
<1>3. ASSUME NEW r \in requests, Refuse(r)
      PROVE  UNCHANGED Ledger!ledgerVars
    <2>1. UNCHANGED Outcomes /\ UNCHANGED recorded
        BY <1>3, OutcomesStay DEF Refuse
    <2> QED BY <2>1 DEF Ledger!ledgerVars, Outcomes
<1> QED BY <1>1, <1>2, <1>3, ServeIsLedgerStep DEF Next, ServiceStep

\* The clients implement the ledger: each of their steps records a write,
\* tells a caller its outcome, or is invisible there; only the gateway's
\* writes are ever forgotten.
THEOREM ClientsKeepLedger == Spec => KeepsLedger
<1>1. Init => Ledger!LedgerInit
    BY DEF Init, Ledger!LedgerInit, Outcome, Calls
<1>2. IInv /\ [Next]_vars => [Ledger!LedgerNext]_(Ledger!ledgerVars)
    BY NextIsLedgerStep
<1> QED BY <1>1, <1>2, AlwaysGood, PTL DEF Spec, KeepsLedger, Ledger!LedgerSpec
=============================================================================
