----------------------------- MODULE ChatGateway ----------------------------
(***************************************************************************)
(* POST /v1/chat/completions of gateway/main.py, from the token check to   *)
(* the answer, with the session set-up and the revocations that run beside *)
(* it.  One action per await that reads or writes something another        *)
(* request can change, and each of them can fail: Redis, the detector and  *)
(* the model provider are out of the gateway's hands.                      *)
(*                                                                         *)
(* A caller is an identity with one signed token; what is in a message is  *)
(* told apart only as far as the handler's branches do.  The audit log     *)
(* (AuditChain) and the token vault (TokenVault) are seen from outside: an *)
(* event is recorded or the call raises, the tokens are stored or it       *)
(* raises.                                                                 *)
(***************************************************************************)
EXTENDS Integers, Sequences, FiniteSets

CONSTANTS
    Callers,        \* authenticated identities (sub, tenant, jti)
    Sessions,
    Requests,       \* chat requests in flight
    Nobody,         \* no owner record
    MaxRequests,    \* bound: chat requests
    MaxMessages     \* bound: messages of a request

ASSUME ChatAssumption ==
    /\ Nobody \notin Callers
    /\ MaxRequests \in Nat
    /\ MaxMessages \in Nat

VARIABLES
    config,         \* sessions with a live session:{id}:provider
    owner,          \* session:{id}:owner
    creator,        \* who configured the session (ghost)
    setup,          \* the next write of configure_session
    revoked,        \* callers whose jti is on the denylist
    req,            \* the locals of each request
    forwarded,      \* prompts that reached a provider (ghost)
    arrived         \* requests so far

sessions == <<config, owner, creator, setup>>
chatVars == <<sessions, revoked, req, forwarded, arrived>>

-----------------------------------------------------------------------------
\* The role of a message, what scan_for_injection makes of it and whether it
\* has identifiers.  Only user messages are scanned.
Message == [user : BOOLEAN, risk : {"none", "flag", "block"}, pii : BOOLEAN]
Prompts == UNION {[1..n -> Message] : n \in 0..MaxMessages}

Events == {"auth_failure", "injection_detected", "pii_detected",
           "output_flagged", "chat_request"}

\* pc is the next await; status the HTTP code once the request has ended.
NoRequest == [pc |-> "idle", token |-> "none", caller |-> Nobody,
              session |-> Nobody, msgs |-> <<>>, masked |-> 0, hasConfig |-> FALSE,
              owner |-> Nobody, audit |-> {}, deny |-> 0, status |-> 0,
              late |-> FALSE]

Found(msgs) == \E i \in DOMAIN msgs : msgs[i].pii
GuardVerdicts(msgs) == {msgs[i].risk : i \in {j \in DOMAIN msgs : msgs[j].user}}
Risky(msgs) == GuardVerdicts(msgs) \cap {"flag", "block"} # {}

ChatInit ==
    /\ config = {}
    /\ owner = [s \in Sessions |-> Nobody]
    /\ creator = [s \in Sessions |-> Nobody]
    /\ setup = [s \in Sessions |-> "none"]
    /\ revoked = {}
    /\ req = [r \in Requests |-> NoRequest]
    /\ forwarded = {}
    /\ arrived = 0

-----------------------------------------------------------------------------
(* Sessions and tokens.                                                    *)

\* configure_session of a caller whose token passes: a fresh session id ...
ConfigureSession(c, s) ==
    /\ creator[s] = Nobody
    /\ c \notin revoked
    /\ creator' = [creator EXCEPT ![s] = c]
    /\ setup' = [setup EXCEPT ![s] = "config"]
    /\ UNCHANGED <<config, owner, revoked, req, forwarded, arrived>>

\* ... the provider config ...
SetConfig(s, ok) ==
    /\ setup[s] = "config"
    /\ setup' = [setup EXCEPT ![s] = IF ok THEN "owner" ELSE "done"]
    /\ config' = IF ok THEN config \cup {s} ELSE config
    /\ UNCHANGED <<owner, creator, revoked, req, forwarded, arrived>>

\* ... and the owner; if Redis fails in between there is none.
SetOwner(s, ok) ==
    /\ setup[s] = "owner"
    /\ setup' = [setup EXCEPT ![s] = "done"]
    /\ owner' = IF ok THEN [owner EXCEPT ![s] = creator[s]] ELSE owner
    /\ UNCHANGED <<config, creator, revoked, req, forwarded, arrived>>

\* The two keys expire one after the other.
ExpireConfig(s) ==
    /\ s \in config
    /\ setup[s] = "done"
    /\ config' = config \ {s}
    /\ UNCHANGED <<owner, creator, setup, revoked, req, forwarded, arrived>>

ExpireOwner(s) ==
    /\ s \notin config
    /\ owner[s] # Nobody
    /\ owner' = [owner EXCEPT ![s] = Nobody]
    /\ UNCHANGED <<config, creator, setup, revoked, req, forwarded, arrived>>

RevokeCaller(c) ==
    /\ c \notin revoked
    /\ revoked' = revoked \cup {c}
    /\ UNCHANGED <<sessions, req, forwarded, arrived>>

-----------------------------------------------------------------------------
(* The chat handler.                                                       *)

\* A request is read as far as the signature and the expiry of its token.
Enters(r, q) ==
    /\ req[r].pc \in {"idle", "ended"}
    /\ arrived < MaxRequests
    /\ arrived' = arrived + 1
    /\ req' = [req EXCEPT ![r] = q]
    /\ UNCHANGED <<sessions, revoked, forwarded>>

\* A request with a valid token; late if that is revoked already.
Arrive(r, c, s, msgs) ==
    Enters(r, [NoRequest EXCEPT
        !.pc = "revoked", !.token = "valid", !.caller = c, !.session = s,
        !.msgs = msgs, !.late = c \in revoked])

\* The request takes a step that changes only its own locals.
Becomes(r, q) ==
    /\ req' = [req EXCEPT ![r] = q]
    /\ UNCHANGED <<sessions, revoked, forwarded, arrived>>

Ended(q, status) == [q EXCEPT !.pc = "ended", !.status = status]

\* Goes on to audit a refusal with the given status.
Denied(q, status) == [q EXCEPT !.pc = "deny", !.deny = status]

\* No token: answered at once, without an event.  An expired token or a bad
\* one is refused on record.
ArriveUnauthenticated(r) ==
    \/ Enters(r, Ended(NoRequest, 401))
    \/ Enters(r, Denied([NoRequest EXCEPT !.token = "bad"], 401))

CheckRevoked(r) ==
    LET q == req[r] IN
    /\ q.pc = "revoked"
    /\ Becomes(r, IF q.caller \in revoked THEN Denied(q, 401)
                  ELSE [q EXCEPT !.pc = "config"])

ReadConfig(r) ==
    LET q == req[r] IN
    /\ q.pc = "config"
    /\ Becomes(r, [q EXCEPT !.hasConfig = q.session \in config,
                            !.pc = "owner"])

\* Mutant of ReadOwner: a session without an owner record is anyone's.
ReadOwnerLax(r) ==
    LET q == req[r]
        found == owner[q.session]
    IN
    /\ q.pc = "owner"
    /\ Becomes(r, CASE ~q.hasConfig -> Ended(q, 404)
                    [] q.hasConfig /\ found \notin {q.caller, Nobody} ->
                          Denied(q, 403)
                    [] OTHER -> [q EXCEPT !.owner = found, !.pc = "scan"])

\* get_session_owner, the 404 and the ownership check.
ReadOwner(r) ==
    LET q == req[r]
        found == owner[q.session]
    IN
    /\ q.pc = "owner"
    /\ Becomes(r, CASE ~q.hasConfig -> Ended(q, 404)
                    [] q.hasConfig /\ found # q.caller -> Denied(q, 403)
                    [] OTHER -> [q EXCEPT !.owner = found, !.pc = "scan"])

\* A prompt without messages has nothing to tokenize and is forwarded as it is.
AfterGuard(q) == IF q.msgs = <<>> THEN "llm" ELSE "tokenize"

\* Mutant of Scan: only the last message is inspected.
ScanLast(r) ==
    LET q == req[r]
        n == Len(q.msgs)
        risk == IF n > 0 /\ q.msgs[n].user THEN q.msgs[n].risk ELSE "none"
    IN
    /\ q.pc = "scan"
    /\ Becomes(r, CASE risk = "block" -> Denied(q, 422)
                    [] risk = "flag" -> [q EXCEPT !.pc = "flag"]
                    [] OTHER -> [q EXCEPT !.pc = AfterGuard(q)])

\* The injection guard over the user messages, before anything is stored.
Scan(r) ==
    LET q == req[r]
        risks == GuardVerdicts(q.msgs)
    IN
    /\ q.pc = "scan"
    /\ Becomes(r, CASE "block" \in risks -> Denied(q, 422)
                    [] "flag" \in risks /\ "block" \notin risks ->
                          [q EXCEPT !.pc = "flag"]
                    [] OTHER -> [q EXCEPT !.pc = AfterGuard(q)])

Logged(q, event) == [q EXCEPT !.audit = @ \cup {event}]

\* Mutant of AuditDenial: the answer is sent and the event forgotten.
AuditDenialLost(r) ==
    LET q == req[r] IN
    /\ q.pc = "deny"
    /\ Becomes(r, Ended(q, q.deny))

\* The refusal is audited, then raised.
AuditDenial(r) ==
    LET q == req[r]
        event == IF q.deny = 422 THEN "injection_detected" ELSE "auth_failure"
    IN
    /\ q.pc = "deny"
    /\ Becomes(r, Ended(Logged(q, event), q.deny))

AuditFlag(r) ==
    LET q == req[r] IN
    /\ q.pc = "flag"
    /\ Becomes(r, [Logged(q, "injection_detected") EXCEPT !.pc = "tokenize"])

\* run_tokenize and update_token_map of one message; after the last one the
\* detection is audited if anything was found.
TokenizeMessage(r) ==
    LET q == req[r]
        n == q.masked + 1
    IN
    /\ q.pc = "tokenize"
    /\ Becomes(r, [q EXCEPT !.masked = n,
                            !.pc = CASE n < Len(q.msgs) -> "tokenize"
                                     [] n = Len(q.msgs) /\ Found(q.msgs) -> "pii"
                                     [] OTHER -> "llm"])

AuditPii(r) ==
    LET q == req[r] IN
    /\ q.pc = "pii"
    /\ Becomes(r, [Logged(q, "pii_detected") EXCEPT !.pc = "llm"])

\* route_to_llm with the messages that have been tokenized.  The provider
\* has the prompt whether or not it answers.
CallLlm(r, answers) ==
    LET q == req[r] IN
    /\ q.pc = "llm"
    /\ forwarded' = forwarded \cup
          {[caller |-> q.caller, session |-> q.session, msgs |-> q.msgs,
            masked |-> q.masked, audit |-> q.audit, late |-> q.late]}
    /\ req' = [req EXCEPT ![r] = IF answers THEN [q EXCEPT !.pc = "vault"]
                                 ELSE Ended(q, 502)]
    /\ UNCHANGED <<sessions, revoked, arrived>>

\* The vault is read and the answer restored and sanitised; what the
\* sanitiser changed is audited.
ReadVault(r, flagged) ==
    LET q == req[r] IN
    /\ q.pc = "vault"
    /\ Becomes(r, [q EXCEPT !.pc = IF flagged THEN "output" ELSE "log"])

AuditOutput(r) ==
    LET q == req[r] IN
    /\ q.pc = "output"
    /\ Becomes(r, [Logged(q, "output_flagged") EXCEPT !.pc = "log"])

AuditChat(r) ==
    LET q == req[r] IN
    /\ q.pc = "log"
    /\ Becomes(r, Ended(Logged(q, "chat_request"), 200))

\* Mutant of Fail: a tokenization error lets the message through.
FailOpen(r) ==
    LET q == req[r] IN
    /\ q.pc = "tokenize"
    /\ Becomes(r, [q EXCEPT !.pc = "llm"])

\* The await raises.  The vault and the tokenizer are wrapped and answer 503
\* and 422; an exception of the denylist, of the audit log or of the second
\* read of the vault is nobody's, and FastAPI answers 500.
Fail(r) ==
    LET q == req[r] IN
    /\ q.pc \notin {"idle", "ended", "scan", "llm"}
    /\ Becomes(r, Ended(q, CASE q.pc \in {"config", "owner"} -> 503
                             [] q.pc = "tokenize" -> 422
                             [] OTHER -> 500))

-----------------------------------------------------------------------------
Handle(r) ==
    \/ CheckRevoked(r)
    \/ ReadConfig(r)
    \/ ReadOwner(r)
    \/ Scan(r)
    \/ AuditDenial(r)
    \/ AuditFlag(r)
    \/ TokenizeMessage(r)
    \/ AuditPii(r)
    \/ \E answers \in BOOLEAN : CallLlm(r, answers)
    \/ \E flagged \in BOOLEAN : ReadVault(r, flagged)
    \/ AuditOutput(r)
    \/ AuditChat(r)
    \/ Fail(r)

ChatNext ==
    \/ \E c \in Callers, s \in Sessions : ConfigureSession(c, s)
    \/ \E s \in Sessions :
          \/ \E ok \in BOOLEAN : SetConfig(s, ok) \/ SetOwner(s, ok)
          \/ ExpireConfig(s)
          \/ ExpireOwner(s)
    \/ \E c \in Callers : RevokeCaller(c)
    \/ \E r \in Requests :
          \/ \E c \in Callers, s \in Sessions, msgs \in Prompts :
                Arrive(r, c, s, msgs)
          \/ ArriveUnauthenticated(r)
          \/ Handle(r)

ChatSpec == ChatInit /\ [][ChatNext]_chatVars

-----------------------------------------------------------------------------
ChatTypeOK ==
    /\ config \subseteq Sessions
    /\ setup \in [Sessions -> {"none", "config", "owner", "done"}]
    /\ owner \in [Sessions -> Callers \cup {Nobody}]
    /\ creator \in [Sessions -> Callers \cup {Nobody}]
    /\ revoked \subseteq Callers
    /\ \A r \in Requests :
          /\ req[r].pc \in {"idle", "revoked", "config", "owner", "scan", "deny",
                            "flag", "tokenize", "pii", "llm", "vault",
                            "output", "log", "ended"}
          /\ req[r].token \in {"none", "bad", "valid"}
          /\ req[r].masked \in 0..Len(req[r].msgs)
          /\ req[r].audit \subseteq Events
          /\ req[r].status \in {0, 200, 401, 403, 404, 422, 500, 502, 503}

\* No prompt leaves before every one of its messages has been tokenized,
\* system messages included, whatever fails on the way (ha-dr-runbook.md:8).
NeverInClear == \A p \in forwarded : p.masked = Len(p.msgs)

\* A prompt leaves only for the identity that configured the session, also
\* while the session is half set up, set up without an owner, or half
\* expired (main.py:544-546), and only if its token was not revoked when the
\* request came, although the denylist is read once and early.
OwnSessionOnly ==
    \A p \in forwarded : creator[p.session] = p.caller /\ ~p.late

\* A request with a blocking user message reaches no provider, wherever in
\* the conversation the message is; one with a flagged message, or with
\* identifiers in any message, leaves only once that is in the audit log.
GuardedBefore ==
    \A p \in forwarded :
        LET risks == GuardVerdicts(p.msgs) IN
        /\ "block" \notin risks
        /\ "flag" \in risks => "injection_detected" \in p.audit
        /\ Found(p.msgs) => "pii_detected" \in p.audit

\* What the answer to a caller implies for the log, once the request is over: a
\* refused token or session, an answer, a prompt the injection guard objected
\* to and one with identifiers are on record, whichever step failed after it.
\* Not so a session that is not found (404), a vault that is down (503), a
\* message that could not be tokenized (422) or a provider that failed (502)
\* when nothing was detected before (main.py:534-542, 619-625, 649): the
\* handler writes no event there.
OutcomeOnRecord ==
    \A r \in Requests :
        LET q == req[r] IN
        /\ q.status \in {401, 403} /\ q.token # "none" => "auth_failure" \in q.audit
        /\ q.status = 200 => "chat_request" \in q.audit
        /\ q.status \in {200, 422, 502} /\ Risky(q.msgs) =>
              "injection_detected" \in q.audit
        /\ q.status \in {200, 502} /\ Found(q.msgs) => "pii_detected" \in q.audit

\* README.md:45 "Every request is in the audit log": a prompt that has left,
\* with at least one message, has an event once the request is over.
EveryRequestAudited ==
    \A r \in Requests :
        req[r].status \in {200, 502} /\ req[r].msgs # <<>> => req[r].audit # {}
=============================================================================
