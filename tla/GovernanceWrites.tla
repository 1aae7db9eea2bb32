-------------------------- MODULE GovernanceWrites --------------------------
(***************************************************************************)
(* The three clients of the governance service: the TypeScript SDK         *)
(* (sdk/typescript/src/index.ts), the Python client                        *)
(* (clawwarden/governance.py) and the gateway's own                        *)
(* (gateway/governance_client.py).  A write of the first two is sent up to *)
(* MaxRetries + 1 times under one idempotency key; a write of the gateway  *)
(* once, without a key, and what goes wrong with it is logged and          *)
(* swallowed.  Each attempt has a timer and may get no answer, an answer   *)
(* too late, an error after the service has recorded it, or a 2xx whose    *)
(* body does not parse.  A read is sent once.  The service itself is not   *)
(* in the repository: it is modelled from what the clients say of it, that *)
(* a write sent again is deduplicated by its key.                          *)
(***************************************************************************)
EXTENDS Naturals, FiniteSets

CONSTANTS
    TsWrites,       \* recordCall and appendAuditEvent of the TypeScript SDK
    PyWrites,       \* the Python client's posts
    GatewayWrites,  \* append_audit_event and collect_evidence of the gateway
    Reads,          \* getAuditEvents, verifyChain, verify_chain
    MaxRetries      \* maxRetries, max_retries

ASSUME RetriesAssumption == MaxRetries \in Nat
ASSUME KindsAssumption ==
    /\ TsWrites \cap PyWrites = {}
    /\ (TsWrites \cup PyWrites) \cap GatewayWrites = {}
    /\ (TsWrites \cup PyWrites \cup GatewayWrites) \cap Reads = {}

\* The writes that carry an idempotency key.
Keyed == TsWrites \cup PyWrites

Writes == Keyed \cup GatewayWrites
Calls == Writes \cup Reads

VARIABLES
    pc,             \* pc[c]: where the call stands
    attempt,        \* attempt[c]: its current attempt, from 0
    requests,       \* attempts on their way to the service
    answer,         \* answer[c]: what has come back for the current attempt
    seen,           \* the keys the service has recorded a write under
    recorded        \* recorded[w]: how often it has recorded the write

vars == <<pc, attempt, requests, answer, seen, recorded>>

\* "failed" is a read without a result, "unheard" a write whose failure its
\* caller is not told of.
Ended == {"ok", "raised", "dropped", "failed", "unheard"}

\* Mutant of IdempotencyKey: a key of its own for every attempt.
KeyPerAttempt(w, n) == <<w, n>>

\* One key per write, the same for all of its attempts.
IdempotencyKey(w, n) == <<w, 0>>

Keys == Keyed \X (0..MaxRetries)

Request == [call : Calls, attempt : 0..MaxRetries]

\* What comes back: a result, a 2xx that does not parse, a status worth a
\* retry (a 5xx), one the clients disagree on (408, 429), any other 4xx.
Answers == {"result", "garbled", "unavailable", "throttled", "refused"}

Init ==
    /\ pc = [c \in Calls |-> "idle"]
    /\ attempt = [c \in Calls |-> 0]
    /\ requests = {}
    /\ answer = [c \in Calls |-> "none"]
    /\ seen = {}
    /\ recorded = [w \in Writes |-> 0]

\* recordCall, appendAuditEvent, both _post, getAuditEvents, verifyChain,
\* verify_chain.
Call(c) ==
    /\ pc[c] = "idle"
    /\ pc' = [pc EXCEPT ![c] = "sent"]
    /\ requests' = requests \cup {[call |-> c, attempt |-> 0]}
    /\ UNCHANGED <<attempt, answer, seen, recorded>>

\* An answer to an attempt that has been given up reaches nobody.  A request
\* that is lost is one the service never gets to, a lost answer one that
\* comes too late.
Answer(r, status) ==
    LET c == r.call IN
    /\ requests' = requests \ {r}
    /\ answer' = IF pc[c] = "sent" /\ attempt[c] = r.attempt
                 THEN [answer EXCEPT ![c] = status] ELSE answer

\* What a request changes at the service: a write is recorded, unless it has
\* a key and the key has been seen.
Take(c, key) ==
    \/ /\ c \in Keyed /\ key \notin seen
       /\ seen' = seen \cup {key}
       /\ recorded' = [recorded EXCEPT ![c] = @ + 1]
    \/ /\ c \in GatewayWrites
       /\ recorded' = [recorded EXCEPT ![c] = @ + 1]
       /\ UNCHANGED seen
    \/ /\ c \in Reads \/ (c \in Keyed /\ key \in seen)
       /\ UNCHANGED <<seen, recorded>>

\* The service takes a request.  An error may still be what the caller gets
\* to hear.
Serve(r) ==
    /\ \E status \in {"result", "garbled", "unavailable"} : Answer(r, status)
    /\ Take(r.call, IdempotencyKey(r.call, r.attempt))
    /\ UNCHANGED <<pc, attempt>>

\* The service, or something in front of it, turns a request away.
Refuse(r) ==
    /\ \E status \in {"unavailable", "throttled", "refused"} : Answer(r, status)
    /\ UNCHANGED <<pc, attempt, seen, recorded>>
-----------------------------------------------------------------------------
Retryable(c, status) ==
    \/ status = "unavailable"
    \/ status = "throttled" /\ c \in TsWrites

\* Mutant of Failure: what the gateway's client swallows is taken for a result.
FailureAsResult(c) ==
    IF c \in Reads THEN "failed"
    ELSE IF c \in Keyed THEN "dropped" ELSE "ok"

\* What a failure becomes that is not tried again: a read without a result,
\* the drop hook's payload, or a line in the gateway's log.
Failure(c) ==
    IF c \in Reads THEN "failed"
    ELSE IF c \in Keyed THEN "dropped" ELSE "unheard"

\* An attempt that failed in a way worth a retry: a write with a key is sent
\* again after a pause, unless this was its last attempt.
Failed(c) ==
    pc' = [pc EXCEPT ![c] =
              IF c \in Keyed /\ attempt[c] # MaxRetries
              THEN "backoff" ELSE Failure(c)]

\* An error no retry can mend.
GivenUp(c) == pc' = [pc EXCEPT ![c] = Failure(c)]

\* A body that does not parse is not an API error: the SDK sends the write
\* again; the Python client and the gateway's let the exception out.
Unparsed(c) ==
    IF c \in PyWrites \cup GatewayWrites
    THEN pc' = [pc EXCEPT ![c] = "raised"] ELSE Failed(c)

\* The attempt that is waited for is answered.
Receive(c) ==
    /\ pc[c] = "sent"
    /\ \/ answer[c] = "result" /\ pc' = [pc EXCEPT ![c] = "ok"]
       \/ answer[c] = "garbled" /\ Unparsed(c)
       \/ Retryable(c, answer[c]) /\ Failed(c)
       \/ /\ answer[c] \in {"throttled", "refused"}
          /\ ~Retryable(c, answer[c])
          /\ GivenUp(c)
    /\ answer' = [answer EXCEPT ![c] = "none"]
    /\ UNCHANGED <<attempt, requests, seen, recorded>>

\* The timer aborts the attempt; the request may still be on its way.
Timeout(c) ==
    /\ pc[c] = "sent"
    /\ Failed(c)
    /\ answer' = [answer EXCEPT ![c] = "none"]
    /\ UNCHANGED <<attempt, requests, seen, recorded>>

\* Mutant of Retry: the attempt is not counted.
RetryUncounted(c) ==
    /\ pc[c] = "backoff"
    /\ pc' = [pc EXCEPT ![c] = "sent"]
    /\ requests' = requests \cup {[call |-> c, attempt |-> attempt[c]]}
    /\ UNCHANGED <<attempt, answer, seen, recorded>>

\* The pause is over: the next attempt, under the same key.
Retry(c) ==
    /\ pc[c] = "backoff"
    /\ pc' = [pc EXCEPT ![c] = "sent"]
    /\ attempt' = [attempt EXCEPT ![c] = @ + 1]
    /\ requests' = requests \cup {[call |-> c, attempt |-> attempt[c] + 1]}
    /\ UNCHANGED <<answer, seen, recorded>>

ClientStep(c) == Call(c) \/ Receive(c) \/ Timeout(c) \/ Retry(c)

ServiceStep == \E r \in requests : Serve(r) \/ Refuse(r)

Next == (\E c \in Calls : ClientStep(c)) \/ ServiceStep

Spec == Init /\ [][Next]_vars

\* Timers fire; the network and the service owe nothing.
FairSpec ==
    Spec /\ \A c \in Calls : WF_vars(Receive(c) \/ Timeout(c)) /\ WF_vars(Retry(c))
-----------------------------------------------------------------------------
TypeOK ==
    /\ pc \in [Calls -> {"idle", "sent", "backoff"} \cup Ended]
    /\ attempt \in [Calls -> 0..MaxRetries]
    /\ requests \subseteq Request
    /\ answer \in [Calls -> Answers \cup {"none"}]
    /\ seen \subseteq Keys
    /\ recorded \in [Writes -> Nat]

\* However attempts are lost, late, repeated or answered with an error, the
\* service holds a write at most once (index.ts:140-142: "a re-send is
\* deduped server-side").
RecordedOnce == \A w \in Writes : recorded[w] <= 1

\* A caller that gets its result, or the exception of an unparsed answer, has
\* its write on record: a write may only be missing when the drop hook has
\* its payload, or when the gateway's client swallowed the failure.
NothingLost ==
    \A w \in Writes : pc[w] \in {"ok", "raised"} => recorded[w] >= 1

\* Every call ends, whatever the network and the service do.
EveryCallEnds == \A c \in Calls : pc[c] = "sent" ~> pc[c] \in Ended

Outcome(w) ==
    CASE pc[w] = "idle" -> "none"
      [] pc[w] \in {"sent", "backoff"} -> "pending"
      [] OTHER -> pc[w]

\* The clients implement the ledger, where only the gateway's are best-effort.
Ledger == INSTANCE GovernanceLedger WITH
    Writes <- Writes, BestEffort <- GatewayWrites, recorded <- recorded,
    outcome <- [w \in Writes |-> Outcome(w)]

KeepsLedger == Ledger!LedgerSpec
=============================================================================
