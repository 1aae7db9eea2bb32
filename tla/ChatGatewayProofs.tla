-------------------------- MODULE ChatGatewayProofs --------------------------
(***************************************************************************)
(* What is true of every prompt that leaves, and of every refusal, for any *)
(* number of callers, sessions and requests, prompts of any length, and    *)
(* whatever fails.  One inductive invariant says of a request what has     *)
(* been established when it stands at an await.                            *)
(***************************************************************************)
EXTENDS ChatGateway, TLAPS

Awaits ==
    {"idle", "revoked", "config", "owner", "scan", "deny", "flag", "tokenize",
     "pii", "llm", "vault", "output", "log", "ended"}

RequestType ==
    [pc : Awaits, token : {"none", "bad", "valid"}, caller : Callers \cup {Nobody},
     session : Sessions \cup {Nobody}, msgs : Seq(Message), masked : Nat,
     hasConfig : BOOLEAN, owner : Callers \cup {Nobody}, audit : SUBSET Events,
     deny : {0, 401, 403, 422}, status : {0, 200, 401, 403, 404, 422, 500, 502, 503},
     late : BOOLEAN]

\* Awaits of a request with a valid token that is not refused, from each check
\* on.
Sent == {"llm", "vault", "output", "log"}
Entered == {"revoked", "config", "owner", "scan", "flag", "tokenize", "pii"} \cup Sent
PastRevoked == Entered \ {"revoked"}
PastOwner == PastRevoked \ {"config", "owner"}
PastScan == PastOwner \ {"scan"}
PastFlag == PastScan \ {"flag"}

\* Who asks, and that the session is theirs.
Owned(q) ==
    /\ q.pc \in Entered => q.caller \in Callers /\ q.session \in Sessions
    /\ q.pc \in PastOwner => creator[q.session] = q.caller

Current(q) ==
    /\ q.pc = "revoked" /\ q.late => q.caller \in revoked
    /\ q.pc \in PastRevoked => ~q.late

Guarded(q) ==
    /\ q.pc \in PastScan => "block" \notin GuardVerdicts(q.msgs)
    /\ q.pc \in PastFlag /\ "flag" \in GuardVerdicts(q.msgs) => "injection_detected" \in q.audit

Masked(q) ==
    /\ q.masked <= Len(q.msgs)
    /\ q.pc \in Entered \ ({"tokenize", "pii"} \cup Sent) => q.masked = 0
    /\ q.pc \in {"flag", "tokenize"} => q.masked < Len(q.msgs)
    /\ q.pc \in {"pii"} \cup Sent => q.masked = Len(q.msgs)
    /\ q.pc \in Sent /\ Found(q.msgs) => "pii_detected" \in q.audit

OnRecord(q) ==
    /\ q.pc # "ended" => q.status = 0
    /\ q.pc = "deny" => q.deny # 0
    /\ q.status \in {401, 403} /\ q.token # "none" => "auth_failure" \in q.audit
    /\ q.status = 200 => "chat_request" \in q.audit
    /\ q.status \in {200, 422, 502} /\ Risky(q.msgs) => "injection_detected" \in q.audit
    /\ q.status \in {200, 502} /\ Found(q.msgs) => "pii_detected" \in q.audit

Sound(q) ==
    q \in RequestType /\ Owned(q) /\ Current(q) /\ Guarded(q) /\ Masked(q) /\ OnRecord(q)

\* A session that has an owner has its creator for one.
SessionsSound ==
    /\ config \subseteq Sessions
    /\ revoked \subseteq Callers
    /\ setup \in [Sessions -> {"none", "config", "owner", "done"}]
    /\ owner \in [Sessions -> Callers \cup {Nobody}]
    /\ creator \in [Sessions -> Callers \cup {Nobody}]
    /\ \A s \in Sessions : owner[s] # Nobody => owner[s] = creator[s]

PromptSound(p) ==
    /\ p.masked = Len(p.msgs)
    /\ p.session \in Sessions /\ p.caller \in Callers /\ creator[p.session] = p.caller
    /\ ~p.late
    /\ "block" \notin GuardVerdicts(p.msgs)
    /\ "flag" \in GuardVerdicts(p.msgs) => "injection_detected" \in p.audit
    /\ Found(p.msgs) => "pii_detected" \in p.audit

GatewayInv ==
    /\ SessionsSound
    /\ DOMAIN req = Requests
    /\ \A r \in Requests : Sound(req[r])
    /\ \A p \in forwarded : PromptSound(p)
-----------------------------------------------------------------------------
LEMMA PromptLength ==
    ASSUME NEW msgs \in Prompts
    PROVE  msgs \in Seq(Message)
<1>1. PICK n \in 0..MaxMessages : msgs \in [1..n -> Message]
  BY DEF Prompts
<1> QED BY <1>1, ChatAssumption

\* A prompt without messages has nothing the guard objects to, and nothing to
\* find.
LEMMA EmptyPrompt ==
    ASSUME NEW msgs \in Seq(Message)
    PROVE  /\ Len(msgs) \in Nat
           /\ GuardVerdicts(msgs) # {} => Len(msgs) > 0
           /\ msgs = <<>> => Len(msgs) = 0 /\ ~Found(msgs)
           /\ msgs # <<>> => Len(msgs) > 0
BY DEF GuardVerdicts, Found

\* Fresh requests.
LEMMA FreshSound == Sound(NoRequest)
<1>1. NoRequest \in RequestType
  BY DEF NoRequest, RequestType, Awaits, Events
<1>2. NoRequest.pc = "idle" /\ NoRequest.status = 0 /\ NoRequest.masked <= Len(NoRequest.msgs)
  BY DEF NoRequest
<1> QED
  BY <1>1, <1>2 DEF Sound, Owned, Current, Guarded, Masked, OnRecord, Entered, Sent,
     PastRevoked, PastOwner, PastScan, PastFlag

\* Steps that change one request, and perhaps send a prompt.
LEMMA OneRequestChanges ==
    ASSUME GatewayInv, NEW r \in Requests, NEW q, Sound(q),
           req' = [req EXCEPT ![r] = q], UNCHANGED <<sessions, revoked>>,
           \A p \in forwarded' : PromptSound(p)
    PROVE  GatewayInv'
<1>1. \A x \in Requests : req'[x] \in {q, req[x]}
  BY DEF GatewayInv
<1>2. \A x \in Requests : Sound(req[x])'
  <2>1. ASSUME NEW x \in Requests, Sound(req'[x]) PROVE Sound(req[x])'
    BY <2>1 DEF Sound, Owned, Current, Guarded, Masked, OnRecord, sessions
  <2> QED BY <1>1, <2>1 DEF GatewayInv
<1>3. \A p \in forwarded' : PromptSound(p)'
  BY DEF PromptSound, sessions
<1> QED
  BY <1>2, <1>3 DEF GatewayInv, sessions, SessionsSound

LEMMA BecomesSound ==
    ASSUME GatewayInv, NEW r \in Requests, NEW q, Sound(q), Becomes(r, q)
    PROVE  GatewayInv'
BY OneRequestChanges DEF Becomes, GatewayInv

LEMMA EntersSound ==
    ASSUME GatewayInv, NEW r \in Requests, NEW q, Sound(q), Enters(r, q)
    PROVE  GatewayInv'
BY OneRequestChanges DEF Enters, GatewayInv

\* Steps of the sessions and of the denylist: who configured a session is
\* never rewritten, and a revocation never undone.
LEMMA OthersChange ==
    ASSUME GatewayInv, SessionsSound', UNCHANGED <<req, forwarded>>,
           revoked \subseteq revoked',
           \A s \in Sessions : creator[s] # Nobody => creator'[s] = creator[s]
    PROVE  GatewayInv'
<1>1. ASSUME NEW r \in Requests PROVE Sound(req[r])'
  <2>1. Sound(req[r])
    BY DEF GatewayInv
  <2>2. Owned(req[r])'
    BY <2>1, ChatAssumption DEF Sound, Owned, PastOwner, PastRevoked
  <2>3. Current(req[r])'
    BY <2>1 DEF Sound, Current
  <2>4. Guarded(req[r])' /\ Masked(req[r])' /\ OnRecord(req[r])' /\ req'[r] \in RequestType
    BY <2>1 DEF Sound, Guarded, Masked, OnRecord
  <2> QED BY <2>2, <2>3, <2>4 DEF Sound
<1>2. ASSUME NEW p \in forwarded' PROVE PromptSound(p)'
  BY ChatAssumption DEF GatewayInv, PromptSound
<1> QED BY <1>1, <1>2 DEF GatewayInv

\* A request that goes on to its next await and changes nothing else.
Moved(q, pc) == [q EXCEPT !.pc = pc]

\* What the invariant reads of a request, but where it stands, and the part
\* of it that no step changes before the request ends.
Asks(p, q) ==
    /\ p.token = q.token /\ p.caller = q.caller /\ p.session = q.session
    /\ p.msgs = q.msgs /\ p.late = q.late /\ p.deny = q.deny /\ p.status = q.status

Carries(p, q) == Asks(p, q) /\ p.masked = q.masked /\ p.audit = q.audit

LEMMA MovedType ==
    ASSUME NEW q \in RequestType, NEW pc \in Awaits
    PROVE  Moved(q, pc) \in RequestType /\ Moved(q, pc).pc = pc /\ Carries(Moved(q, pc), q)
BY DEF Moved, RequestType, Carries, Asks

\* The end of a request, with a status that needs no event or has one.
LEMMA EndedSound ==
    ASSUME NEW q, q \in RequestType, q.masked <= Len(q.msgs),
           NEW status \in {0, 200, 401, 403, 404, 422, 500, 502, 503},
           status \in {401, 403} => "auth_failure" \in q.audit \/ q.token = "none",
           status = 200 => "chat_request" \in q.audit,
           status \in {200, 422, 502} /\ Risky(q.msgs) => "injection_detected" \in q.audit,
           status \in {200, 502} /\ Found(q.msgs) => "pii_detected" \in q.audit
    PROVE  Sound(Ended(q, status))
<1> DEFINE e == Ended(q, status)
<1>1. e \in RequestType /\ e.pc = "ended" /\ e.status = status /\ e.audit = q.audit
      /\ e.token = q.token /\ e.msgs = q.msgs /\ e.masked <= Len(e.msgs)
  <2> DEFINE m == Moved(q, "ended")
  <2>1. e = [m EXCEPT !.status = status]
    BY DEF Ended, Moved
  <2>2. m \in RequestType /\ m.pc = "ended" /\ Carries(m, q)
    BY MovedType DEF Awaits
  <2> HIDE DEF m, e
  <2> QED BY <2>1, <2>2 DEF RequestType, Carries, Asks
<1> HIDE DEF e
<1>2. Sound(e)
  BY <1>1 DEF Sound, Owned, Current, Guarded, Masked, OnRecord, Entered, Sent,
     PastRevoked, PastOwner, PastScan, PastFlag
<1> QED BY <1>2 DEF e

\* A refusal that is going to be audited.
LEMMA DeniedSound ==
    ASSUME NEW q, q \in RequestType, q.masked <= Len(q.msgs), q.status = 0,
           NEW status \in {401, 403, 422}
    PROVE  Sound(Denied(q, status))
<1> DEFINE d == Denied(q, status)
<1>1. d \in RequestType /\ d.pc = "deny" /\ d.deny = status /\ d.status = 0
      /\ d.masked <= Len(d.msgs)
  <2> DEFINE m == Moved(q, "deny")
  <2>1. d = [m EXCEPT !.deny = status]
    BY DEF Denied, Moved
  <2>2. m \in RequestType /\ m.pc = "deny" /\ Carries(m, q)
    BY MovedType DEF Awaits
  <2> HIDE DEF m, d
  <2> QED BY <2>1, <2>2 DEF RequestType, Carries, Asks
<1> HIDE DEF d
<1>2. Sound(d)
  BY <1>1 DEF Sound, Owned, Current, Guarded, Masked, OnRecord, Entered, Sent,
     PastRevoked, PastOwner, PastScan, PastFlag
<1> QED BY <1>2 DEF d

\* Events only add to what is on record.
LEMMA LoggedType ==
    ASSUME NEW q \in RequestType, NEW event \in Events
    PROVE  /\ Logged(q, event) \in RequestType
           /\ Logged(q, event).audit = q.audit \cup {event}
           /\ Logged(q, event).pc = q.pc
           /\ Asks(Logged(q, event), q) /\ Logged(q, event).masked = q.masked
BY DEF Logged, RequestType, Carries, Asks

-----------------------------------------------------------------------------
(* The steps, one lemma per action that has something to show.             *)

LEMMA InitSound == ChatInit => GatewayInv
BY FreshSound, ChatAssumption DEF ChatInit, GatewayInv, SessionsSound

LEMMA ConfigureSound ==
    ASSUME GatewayInv, NEW c \in Callers, NEW s \in Sessions, ConfigureSession(c, s)
    PROVE  GatewayInv'
<1>1. SessionsSound'
  BY DEF GatewayInv, SessionsSound, ConfigureSession
<1> QED BY <1>1, OthersChange DEF ConfigureSession, GatewayInv, SessionsSound

LEMMA SessionStepSound ==
    ASSUME GatewayInv, NEW s \in Sessions, NEW ok \in BOOLEAN,
           SetConfig(s, ok) \/ SetOwner(s, ok) \/ ExpireConfig(s) \/ ExpireOwner(s)
    PROVE  GatewayInv'
<1>1. CASE SetConfig(s, ok)
  <2>1. SessionsSound' BY <1>1 DEF GatewayInv, SessionsSound, SetConfig
  <2> QED BY <1>1, <2>1, OthersChange DEF SetConfig
<1>2. CASE SetOwner(s, ok)
  <2>1. SessionsSound' BY <1>2 DEF GatewayInv, SessionsSound, SetOwner
  <2> QED BY <1>2, <2>1, OthersChange DEF SetOwner
<1>3. CASE ExpireConfig(s)
  <2>1. SessionsSound' BY <1>3 DEF GatewayInv, SessionsSound, ExpireConfig
  <2> QED BY <1>3, <2>1, OthersChange DEF ExpireConfig
<1>4. CASE ExpireOwner(s)
  <2>1. SessionsSound' BY <1>4 DEF GatewayInv, SessionsSound, ExpireOwner
  <2> QED BY <1>4, <2>1, OthersChange DEF ExpireOwner
<1> QED BY <1>1, <1>2, <1>3, <1>4

LEMMA RevokeSound ==
    ASSUME GatewayInv, NEW c \in Callers, RevokeCaller(c)
    PROVE  GatewayInv'
<1>1. SessionsSound'
  BY DEF GatewayInv, SessionsSound, RevokeCaller, sessions
<1> QED BY <1>1, OthersChange DEF RevokeCaller, sessions

LEMMA ArriveSound ==
    ASSUME GatewayInv, NEW r \in Requests, NEW c \in Callers, NEW s \in Sessions,
           NEW msgs \in Prompts, Arrive(r, c, s, msgs)
    PROVE  GatewayInv'
<1> DEFINE late == c \in revoked
           q1 == [NoRequest EXCEPT !.pc = "revoked"]
           q2 == [q1 EXCEPT !.token = "valid"]
           q3 == [q2 EXCEPT !.caller = c]
           q4 == [q3 EXCEPT !.session = s]
           q5 == [q4 EXCEPT !.msgs = msgs]
           q == [q5 EXCEPT !.late = late]
           New(x) == x \in RequestType /\ x.masked = 0 /\ x.status = 0 /\ x.pc = "revoked"
<1>1. msgs \in Seq(Message) /\ Len(msgs) >= 0
  BY PromptLength
<1>2. Enters(r, q)
  BY DEF Arrive
<1>3. late \in BOOLEAN /\ (late => c \in revoked)
  OBVIOUS
<1> HIDE DEF late
<1>4. New(q) /\ q.caller = c /\ q.session = s /\ q.msgs = msgs /\ (q.late => c \in revoked)
  <2>0. NoRequest \in RequestType /\ NoRequest.masked = 0 /\ NoRequest.status = 0
    BY DEF NoRequest, RequestType, Awaits, Events
  <2>1. New(q1)
    <3>1. q1 = Moved(NoRequest, "revoked")
      BY DEF Moved
    <3> HIDE DEF q1
    <3> QED BY <2>0, <3>1, MovedType DEF Carries, Asks, Awaits
  <2> HIDE DEF q1
  <2>2. New(q2)
    BY <2>1 DEF RequestType
  <2> HIDE DEF q2
  <2>3. New(q3) /\ q3.caller = c
    BY <2>2 DEF RequestType
  <2> HIDE DEF q3
  <2>4. New(q4) /\ q4.caller = c /\ q4.session = s
    BY <2>3 DEF RequestType
  <2> HIDE DEF q4
  <2>5. New(q5) /\ q5.caller = c /\ q5.session = s /\ q5.msgs = msgs
    BY <1>1, <2>4 DEF RequestType
  <2> HIDE DEF q5
  <2>6. q \in RequestType /\ q.late = late
    BY <2>5, <1>3 DEF RequestType
  <2> QED BY <2>5, <2>6, <1>3 DEF RequestType
<1> HIDE DEF q
<1>5. Sound(q)
  BY <1>1, <1>4 DEF Sound, Owned, Current, Guarded, Masked, OnRecord, Entered, Sent,
     PastRevoked, PastOwner, PastScan, PastFlag
<1> QED BY <1>2, <1>5, EntersSound

LEMMA ArriveUnauthenticatedSound ==
    ASSUME GatewayInv, NEW r \in Requests, ArriveUnauthenticated(r)
    PROVE  GatewayInv'
<1> DEFINE bad == [NoRequest EXCEPT !.token = "bad"]
<1>1. /\ NoRequest \in RequestType /\ NoRequest.token = "none"
      /\ NoRequest.masked <= Len(NoRequest.msgs)
  BY DEF NoRequest, RequestType, Awaits, Events
<1>2. bad \in RequestType /\ bad.status = 0 /\ bad.masked <= Len(bad.msgs)
  <2>1. NoRequest.status = 0
    BY DEF NoRequest
  <2> QED BY <1>1, <2>1 DEF RequestType
<1>3. Sound(Ended(NoRequest, 401))
  BY <1>1, EndedSound
<1>4. Sound(Denied(bad, 401))
  <2> HIDE DEF bad
  <2> QED BY <1>2, DeniedSound
<1>5. CASE Enters(r, Ended(NoRequest, 401))
  BY <1>3, <1>5, EntersSound
<1>6. CASE Enters(r, Denied(bad, 401))
  <2> HIDE DEF bad
  <2> QED BY <1>4, <1>6, EntersSound
<1> QED BY <1>5, <1>6 DEF ArriveUnauthenticated

LEMMA CheckRevokedSound ==
    ASSUME GatewayInv, NEW r \in Requests, CheckRevoked(r)
    PROVE  GatewayInv'
<1> DEFINE q == req[r]
           m == Moved(q, "config")
<1>1. Sound(q) /\ q.pc = "revoked"
  BY DEF GatewayInv, CheckRevoked
<1>2. Becomes(r, IF q.caller \in revoked THEN Denied(q, 401) ELSE m)
  BY DEF CheckRevoked, Moved
<1> HIDE DEF q
<1>3. q \in RequestType /\ q.status = 0 /\ q.masked <= Len(q.msgs)
  BY <1>1 DEF Sound, OnRecord, Masked
<1>4. CASE q.caller \in revoked
  BY <1>2, <1>3, <1>4, DeniedSound, BecomesSound
<1>5. CASE q.caller \notin revoked
  <2>1. m \in RequestType /\ m.pc = "config" /\ Carries(m, q)
    BY <1>3, MovedType DEF Awaits
  <2> HIDE DEF m
  <2>2. Sound(m)
    BY <1>1, <1>5, <2>1 DEF Sound, Owned, Current, Guarded, Masked, OnRecord, Entered, Sent,
       PastRevoked, PastOwner, PastScan, PastFlag, Carries, Asks
  <2> QED BY <1>2, <1>5, <2>2, BecomesSound
<1> QED BY <1>4, <1>5

LEMMA ReadConfigSound ==
    ASSUME GatewayInv, NEW r \in Requests, ReadConfig(r)
    PROVE  GatewayInv'
<1> DEFINE q == req[r]
           has == q.session \in config
           h == [q EXCEPT !.hasConfig = has]
           m == Moved(h, "owner")
<1>1. Sound(q) /\ q.pc = "config"
  BY DEF GatewayInv, ReadConfig
<1>2. Becomes(r, m)
  BY DEF ReadConfig, Moved
<1>3. has \in BOOLEAN
  OBVIOUS
<1> HIDE DEF q, has
<1>4. h \in RequestType /\ h.pc = "config" /\ Carries(h, q)
  BY <1>1, <1>3 DEF Sound, RequestType, Carries, Asks
<1> HIDE DEF h
<1>5. m \in RequestType /\ m.pc = "owner" /\ Carries(m, h)
  BY <1>4, MovedType DEF Awaits
<1> HIDE DEF m
<1>6. Sound(m)
  BY <1>1, <1>4, <1>5 DEF Sound, Owned, Current, Guarded, Masked, OnRecord, Entered, Sent,
     PastRevoked, PastOwner, PastScan, PastFlag, Carries, Asks
<1> QED BY <1>2, <1>6, BecomesSound

LEMMA ReadOwnerSound ==
    ASSUME GatewayInv, NEW r \in Requests, ReadOwner(r)
    PROVE  GatewayInv'
<1> DEFINE q == req[r]
           found == owner[q.session]
           o == [q EXCEPT !.owner = found]
           m == Moved(o, "scan")
<1>1. Sound(q) /\ q.pc = "owner"
  BY DEF GatewayInv, ReadOwner
<1>2. \/ Becomes(r, Ended(q, 404))
      \/ Becomes(r, Denied(q, 403))
      \/ found = q.caller /\ Becomes(r, m)
  BY DEF ReadOwner, Moved
<1> HIDE DEF q
<1>3. /\ q \in RequestType /\ q.status = 0 /\ q.masked <= Len(q.msgs)
      /\ q.caller \in Callers /\ q.session \in Sessions
  BY <1>1 DEF Sound, OnRecord, Owned, Masked, Entered
<1>4. CASE Becomes(r, Ended(q, 404))
  BY <1>3, <1>4, EndedSound, BecomesSound
<1>5. CASE Becomes(r, Denied(q, 403))
  BY <1>3, <1>5, DeniedSound, BecomesSound
<1>6. CASE found = q.caller /\ Becomes(r, m)
  <2>1. creator[q.session] = q.caller
    BY <1>3, <1>6, ChatAssumption DEF GatewayInv, SessionsSound
  <2>2. found \in Callers \cup {Nobody}
    BY <1>3, <1>6
  <2> HIDE DEF found
  <2>3. o \in RequestType /\ o.pc = "owner" /\ Carries(o, q)
    BY <1>1, <1>3, <2>2 DEF RequestType, Carries, Asks
  <2> HIDE DEF o
  <2>4. m \in RequestType /\ m.pc = "scan" /\ Carries(m, o)
    BY <2>3, MovedType DEF Awaits
  <2> HIDE DEF m
  <2>5. Sound(m)
    BY <1>1, <2>1, <2>3, <2>4 DEF Sound, Owned, Current, Guarded, Masked, OnRecord,
       Entered, Sent, PastRevoked, PastOwner, PastScan, PastFlag, Carries, Asks
  <2> QED BY <1>6, <2>5, BecomesSound
<1> QED BY <1>2, <1>4, <1>5, <1>6

LEMMA ScanSound ==
    ASSUME GatewayInv, NEW r \in Requests, Scan(r)
    PROVE  GatewayInv'
<1> DEFINE q == req[r]
           risks == GuardVerdicts(q.msgs)
<1>1. Sound(q) /\ q.pc = "scan"
  BY DEF GatewayInv, Scan
<1>2. \/ Becomes(r, Denied(q, 422))
      \/ "block" \notin risks /\ "flag" \in risks /\ Becomes(r, Moved(q, "flag"))
      \/ "block" \notin risks /\ "flag" \notin risks /\ Becomes(r, Moved(q, AfterGuard(q)))
  BY DEF Scan, Moved
<1> HIDE DEF q
<1>3. q \in RequestType /\ q.status = 0 /\ q.masked <= Len(q.msgs)
  BY <1>1 DEF Sound, OnRecord, Masked
<1>4. CASE Becomes(r, Denied(q, 422))
  BY <1>3, <1>4, DeniedSound, BecomesSound
<1>5. ASSUME NEW pc \in {"flag", "tokenize", "llm"}, Becomes(r, Moved(q, pc)),
             "block" \notin risks, pc # "flag" => "flag" \notin risks,
             pc = "flag" => risks # {}, pc = "tokenize" => q.msgs # <<>>,
             pc = "llm" => q.msgs = <<>>
      PROVE  GatewayInv'
  <2> DEFINE m == Moved(q, pc)
  <2>1. m \in RequestType /\ m.pc = pc /\ Carries(m, q)
    BY <1>3, MovedType DEF Awaits
  <2> HIDE DEF m
  <2>2. /\ pc \in {"flag", "tokenize"} => Len(q.msgs) > 0
        /\ pc = "llm" => Len(q.msgs) = 0 /\ ~Found(q.msgs)
        /\ q.masked = 0
    <3>1. q.msgs \in Seq(Message) /\ q.masked = 0
      BY <1>1, <1>3 DEF RequestType, Sound, Masked, Entered, Sent
    <3> QED BY <1>5, <3>1, EmptyPrompt
  <2>3. Sound(m)
    BY <1>1, <1>5, <2>1, <2>2 DEF Sound, Owned, Current, Guarded, Masked, OnRecord,
       Entered, Sent, PastRevoked, PastOwner, PastScan, PastFlag, Carries, Asks
  <2>4. Becomes(r, m)
    BY <1>5 DEF m
  <2> QED BY <2>3, <2>4, BecomesSound
<1>6. AfterGuard(q) \in {"tokenize", "llm"} /\ (AfterGuard(q) = "llm" <=> q.msgs = <<>>)
  BY DEF AfterGuard
<1> QED BY <1>2, <1>4, <1>5, <1>6

LEMMA AuditDenialSound ==
    ASSUME GatewayInv, NEW r \in Requests, AuditDenial(r)
    PROVE  GatewayInv'
<1> DEFINE q == req[r]
           event == IF q.deny = 422 THEN "injection_detected" ELSE "auth_failure"
           e == Logged(q, event)
<1>1. Sound(q) /\ q.pc = "deny"
  BY DEF GatewayInv, AuditDenial
<1>2. Becomes(r, Ended(e, q.deny))
  BY DEF AuditDenial
<1> HIDE DEF q
<1>3. q \in RequestType /\ q.deny \in {401, 403, 422} /\ q.masked <= Len(q.msgs)
  BY <1>1 DEF Sound, OnRecord, Masked, RequestType
<1>4. /\ event \in Events
      /\ event = IF q.deny = 422 THEN "injection_detected" ELSE "auth_failure"
  BY DEF Events
<1> HIDE DEF event
<1>5. e \in RequestType /\ e.audit = q.audit \cup {event} /\ e.masked <= Len(e.msgs)
  BY <1>3, <1>4, LoggedType DEF Asks
<1> HIDE DEF e
<1>6. Sound(Ended(e, q.deny))
  BY <1>3, <1>4, <1>5, EndedSound
<1> QED BY <1>2, <1>6, BecomesSound

\* An event is recorded and the request goes on.
LEMMA LogAndMove ==
    ASSUME NEW q \in RequestType, NEW event \in Events, NEW pc \in Awaits
    PROVE  LET m == Moved(Logged(q, event), pc) IN
           /\ m \in RequestType /\ m.pc = pc
           /\ Asks(m, q) /\ m.masked = q.masked /\ m.audit = q.audit \cup {event}
<1> DEFINE l == Logged(q, event)
           m == Moved(l, pc)
<1>1. l \in RequestType /\ Asks(l, q) /\ l.masked = q.masked /\ l.audit = q.audit \cup {event}
  BY LoggedType
<1> HIDE DEF l
<1>2. m \in RequestType /\ m.pc = pc /\ Carries(m, l)
  BY <1>1, MovedType
<1> HIDE DEF m
<1>3. Asks(m, q) /\ m.masked = q.masked /\ m.audit = q.audit \cup {event}
  BY <1>1, <1>2 DEF Carries, Asks
<1> QED BY <1>2, <1>3 DEF m, l

LEMMA AuditFlagSound ==
    ASSUME GatewayInv, NEW r \in Requests, AuditFlag(r)
    PROVE  GatewayInv'
<1> DEFINE q == req[r]
           m == Moved(Logged(q, "injection_detected"), "tokenize")
<1>1. Sound(q) /\ q.pc = "flag"
  BY DEF GatewayInv, AuditFlag
<1>2. Becomes(r, m)
  BY DEF AuditFlag, Moved
<1> HIDE DEF q
<1>3. /\ m \in RequestType /\ m.pc = "tokenize"
      /\ Asks(m, q) /\ m.masked = q.masked /\ m.audit = q.audit \cup {"injection_detected"}
  BY <1>1, LogAndMove DEF Sound, Events, Awaits
<1> HIDE DEF m
<1>4. Sound(m)
  BY <1>1, <1>3 DEF Sound, Owned, Current, Guarded, Masked, OnRecord, Entered, Sent,
     PastRevoked, PastOwner, PastScan, PastFlag, Asks
<1> QED BY <1>2, <1>4, BecomesSound

LEMMA TokenizeSound ==
    ASSUME GatewayInv, NEW r \in Requests, TokenizeMessage(r)
    PROVE  GatewayInv'
<1> DEFINE q == req[r]
           n == q.masked + 1
           pc == CASE n < Len(q.msgs) -> "tokenize"
                   [] n = Len(q.msgs) /\ Found(q.msgs) -> "pii"
                   [] OTHER -> "llm"
           t == [q EXCEPT !.masked = n]
           m == Moved(t, pc)
<1>1. Sound(q) /\ q.pc = "tokenize"
  BY DEF GatewayInv, TokenizeMessage
<1>2. Becomes(r, m)
  BY DEF TokenizeMessage, Moved
<1> HIDE DEF q
<1>3. q \in RequestType /\ q.masked \in Nat /\ Len(q.msgs) \in Nat /\ q.masked < Len(q.msgs)
  BY <1>1 DEF Sound, Masked, Entered, RequestType
<1>4. /\ n \in Nat /\ n <= Len(q.msgs) /\ pc \in {"tokenize", "pii", "llm"}
      /\ pc = "tokenize" => n < Len(q.msgs)
      /\ pc \in {"pii", "llm"} => n = Len(q.msgs)
      /\ pc = "llm" => ~Found(q.msgs)
  BY <1>3
<1> HIDE DEF n, pc
<1>5. t \in RequestType /\ Asks(t, q) /\ t.masked = n /\ t.audit = q.audit
  <2>1. t \in RequestType
    BY <1>3, <1>4 DEF RequestType
  <2>2. Asks(t, q) /\ t.masked = n /\ t.audit = q.audit
    BY <1>3, SMTT(30) DEF RequestType, Asks
  <2> QED
    BY <2>1, <2>2
<1> HIDE DEF t
<1>6. m \in RequestType /\ m.pc = pc /\ Carries(m, t)
  BY <1>4, <1>5, MovedType DEF Awaits
<1> HIDE DEF m
<1>7. Asks(m, q) /\ m.masked = n /\ m.audit = q.audit
  BY <1>5, <1>6 DEF Carries, Asks
<1>8. Owned(m) /\ Current(m) /\ Guarded(m) /\ OnRecord(m)
  BY <1>1, <1>4, <1>6, <1>7 DEF Sound, Owned, Current, Guarded, OnRecord, Entered, Sent,
     PastRevoked, PastOwner, PastScan, PastFlag, Asks
<1>9. Masked(m)
  BY <1>4, <1>6, <1>7 DEF Masked, Entered, Sent, Asks
<1> QED BY <1>2, <1>6, <1>8, <1>9, BecomesSound DEF Sound

LEMMA AuditPiiSound ==
    ASSUME GatewayInv, NEW r \in Requests, AuditPii(r)
    PROVE  GatewayInv'
<1> DEFINE q == req[r]
           m == Moved(Logged(q, "pii_detected"), "llm")
<1>1. Sound(q) /\ q.pc = "pii"
  BY DEF GatewayInv, AuditPii
<1>2. Becomes(r, m)
  BY DEF AuditPii, Moved
<1> HIDE DEF q
<1>3. /\ m \in RequestType /\ m.pc = "llm"
      /\ Asks(m, q) /\ m.masked = q.masked /\ m.audit = q.audit \cup {"pii_detected"}
  BY <1>1, LogAndMove DEF Sound, Events, Awaits
<1> HIDE DEF m
<1>4. Sound(m)
  BY <1>1, <1>3 DEF Sound, Owned, Current, Guarded, Masked, OnRecord, Entered, Sent,
     PastRevoked, PastOwner, PastScan, PastFlag, Asks
<1> QED BY <1>2, <1>4, BecomesSound

\* What a request has established stays established past the provider.
LEMMA PastLlm ==
    ASSUME NEW q, Sound(q), q.pc \in Sent, NEW m \in RequestType, m.pc \in Sent,
           Asks(m, q), m.masked = q.masked, q.audit \subseteq m.audit
    PROVE  Sound(m)
BY DEF Sound, Owned, Current, Guarded, Masked, OnRecord, Entered, Sent, PastRevoked,
   PastOwner, PastScan, PastFlag, Asks

\* What is on record of a request whose prompt has left.
LEMMA SentRecord ==
    ASSUME NEW q, Sound(q), q.pc \in Sent
    PROVE  /\ q \in RequestType /\ q.status = 0 /\ q.masked <= Len(q.msgs)
           /\ Risky(q.msgs) => "injection_detected" \in q.audit
           /\ Found(q.msgs) => "pii_detected" \in q.audit
BY DEF Sound, Guarded, Masked, OnRecord, Entered, Sent, PastRevoked, PastOwner,
   PastScan, PastFlag, Risky

LEMMA CallLlmSound ==
    ASSUME GatewayInv, NEW r \in Requests, NEW answers \in BOOLEAN, CallLlm(r, answers)
    PROVE  GatewayInv'
<1> DEFINE q == req[r]
           m == Moved(q, "vault")
           p == [caller |-> q.caller, session |-> q.session, msgs |-> q.msgs,
                 masked |-> q.masked, audit |-> q.audit, late |-> q.late]
           next == IF answers THEN m ELSE Ended(q, 502)
<1>1. Sound(q) /\ q.pc = "llm"
  BY DEF GatewayInv, CallLlm
<1>2. /\ forwarded' = forwarded \cup {p}
      /\ req' = [req EXCEPT ![r] = next]
      /\ UNCHANGED <<sessions, revoked>>
  BY DEF CallLlm, Moved
<1> HIDE DEF q
<1>3. /\ q \in RequestType /\ q.status = 0 /\ q.masked <= Len(q.msgs)
      /\ Risky(q.msgs) => "injection_detected" \in q.audit
      /\ Found(q.msgs) => "pii_detected" \in q.audit
  BY <1>1, SentRecord DEF Sent
<1>4. PromptSound(p)
  <2>1. /\ p.caller = q.caller /\ p.session = q.session /\ p.msgs = q.msgs
        /\ p.masked = q.masked /\ p.audit = q.audit /\ p.late = q.late
    OBVIOUS
  <2> HIDE DEF p
  <2> QED
    BY <1>1, <2>1 DEF PromptSound, Sound, Owned, Current, Guarded, Masked, Entered,
       Sent, PastRevoked, PastOwner, PastScan, PastFlag
<1>5. Sound(next)
  <2>1. Sound(m)
    <3>1. m \in RequestType /\ m.pc = "vault" /\ Carries(m, q)
      BY <1>3, MovedType DEF Awaits
    <3> HIDE DEF m
    <3> QED BY <1>1, <3>1, PastLlm DEF Carries, Sent
  <2>2. Sound(Ended(q, 502))
    BY <1>3, EndedSound
  <2> QED BY <2>1, <2>2
<1> HIDE DEF p, next
<1>6. \A x \in forwarded' : PromptSound(x)
  BY <1>2, <1>4 DEF GatewayInv
<1> QED BY <1>2, <1>5, <1>6, OneRequestChanges

LEMMA AnswerSound ==
    ASSUME GatewayInv, NEW r \in Requests, NEW flagged \in BOOLEAN,
           ReadVault(r, flagged) \/ AuditOutput(r) \/ AuditChat(r)
    PROVE  GatewayInv'
<1> DEFINE q == req[r]
<1>1. Sound(q)
  BY DEF GatewayInv
<1>2. CASE ReadVault(r, flagged)
  <2>1. PICK pc \in {"output", "log"} : Becomes(r, Moved(q, pc))
    BY <1>2 DEF ReadVault, Moved
  <2>2. q.pc = "vault"
    BY <1>2 DEF ReadVault
  <2> DEFINE m == Moved(q, pc)
  <2> HIDE DEF q
  <2>3. m \in RequestType /\ m.pc = pc /\ Carries(m, q)
    BY <1>1, MovedType DEF Awaits, Sound
  <2> HIDE DEF m
  <2>4. Sound(m)
    BY <1>1, <2>2, <2>3, PastLlm DEF Carries, Sent
  <2> QED BY <2>1, <2>4, BecomesSound DEF m
<1>3. CASE AuditOutput(r)
  <2> DEFINE m == Moved(Logged(q, "output_flagged"), "log")
  <2>1. Becomes(r, m) /\ q.pc = "output"
    BY <1>3 DEF AuditOutput, Moved
  <2> HIDE DEF q
  <2>2. /\ m \in RequestType /\ m.pc = "log" /\ Asks(m, q) /\ m.masked = q.masked
        /\ q.audit \subseteq m.audit
    BY <1>1, LogAndMove DEF Events, Awaits, Sound
  <2> HIDE DEF m
  <2>3. Sound(m)
    BY <1>1, <2>1, <2>2, PastLlm DEF Sent
  <2> QED BY <2>1, <2>3, BecomesSound
<1>4. CASE AuditChat(r)
  <2> DEFINE e == Logged(q, "chat_request")
  <2>1. Becomes(r, Ended(e, 200)) /\ q.pc = "log"
    BY <1>4 DEF AuditChat
  <2> HIDE DEF q
  <2>2. /\ q \in RequestType /\ q.masked <= Len(q.msgs)
        /\ Risky(q.msgs) => "injection_detected" \in q.audit
        /\ Found(q.msgs) => "pii_detected" \in q.audit
    BY <1>1, <2>1, SentRecord DEF Sent
  <2>3. /\ e \in RequestType /\ e.audit = q.audit \cup {"chat_request"}
        /\ e.msgs = q.msgs /\ e.masked <= Len(e.msgs)
    BY <2>2, LoggedType DEF Events, Asks
  <2> HIDE DEF e
  <2>4. Sound(Ended(e, 200))
    BY <2>2, <2>3, EndedSound
  <2> QED BY <2>1, <2>4, BecomesSound
<1> QED BY <1>2, <1>3, <1>4

LEMMA FailSound ==
    ASSUME GatewayInv, NEW r \in Requests, Fail(r)
    PROVE  GatewayInv'
<1> DEFINE q == req[r]
<1>1. PICK status \in {500, 503, 422} :
          Becomes(r, Ended(q, status)) /\ (status = 422 => q.pc = "tokenize")
  BY DEF Fail
<1>2. /\ q \in RequestType /\ q.masked <= Len(q.msgs)
      /\ q.pc = "tokenize" /\ Risky(q.msgs) => "injection_detected" \in q.audit
  BY DEF GatewayInv, Sound, Masked, Guarded, Risky, PastScan, PastFlag, PastOwner,
     PastRevoked, Entered
<1> HIDE DEF q
<1> QED BY <1>1, <1>2, EndedSound, BecomesSound

-----------------------------------------------------------------------------
LEMMA NextSound == GatewayInv /\ [ChatNext]_chatVars => GatewayInv'
<1> SUFFICES ASSUME GatewayInv, [ChatNext]_chatVars
             PROVE  GatewayInv'
  OBVIOUS
<1>1. ASSUME NEW c \in Callers, NEW s \in Sessions, ConfigureSession(c, s)
      PROVE  GatewayInv'
  BY <1>1, ConfigureSound
<1>2. ASSUME NEW s \in Sessions,
             \/ \E ok \in BOOLEAN : SetConfig(s, ok) \/ SetOwner(s, ok)
             \/ ExpireConfig(s)
             \/ ExpireOwner(s)
      PROVE  GatewayInv'
  <2>1. PICK ok \in BOOLEAN :
            SetConfig(s, ok) \/ SetOwner(s, ok) \/ ExpireConfig(s) \/ ExpireOwner(s)
    BY <1>2
  <2> QED BY <2>1, SessionStepSound
<1>3. ASSUME NEW c \in Callers, RevokeCaller(c)
      PROVE  GatewayInv'
  BY <1>3, RevokeSound
<1>4. ASSUME NEW r \in Requests, NEW c \in Callers, NEW s \in Sessions,
             NEW msgs \in Prompts, Arrive(r, c, s, msgs)
      PROVE  GatewayInv'
  BY <1>4, ArriveSound
<1>5. ASSUME NEW r \in Requests, ArriveUnauthenticated(r)
      PROVE  GatewayInv'
  BY <1>5, ArriveUnauthenticatedSound
<1>6. ASSUME NEW r \in Requests, Handle(r)
      PROVE  GatewayInv'
  <2>1. CASE CheckRevoked(r)
    BY <2>1, CheckRevokedSound
  <2>2. CASE ReadConfig(r)
    BY <2>2, ReadConfigSound
  <2>3. CASE ReadOwner(r)
    BY <2>3, ReadOwnerSound
  <2>4. CASE Scan(r)
    BY <2>4, ScanSound
  <2>5. CASE AuditDenial(r)
    BY <2>5, AuditDenialSound
  <2>6. CASE AuditFlag(r)
    BY <2>6, AuditFlagSound
  <2>7. CASE TokenizeMessage(r)
    BY <2>7, TokenizeSound
  <2>8. CASE AuditPii(r)
    BY <2>8, AuditPiiSound
  <2>9. CASE \E answers \in BOOLEAN : CallLlm(r, answers)
    BY <2>9, CallLlmSound
  <2>10. CASE \E flagged \in BOOLEAN : ReadVault(r, flagged)
    BY <2>10, AnswerSound
  <2>11. CASE AuditOutput(r) \/ AuditChat(r)
    BY <2>11, AnswerSound
  <2>12. CASE Fail(r)
    BY <2>12, FailSound
  <2> QED BY <1>6, <2>1, <2>2, <2>3, <2>4, <2>5, <2>6, <2>7, <2>8, <2>9, <2>10,
             <2>11, <2>12 DEF Handle
<1>7. CASE UNCHANGED chatVars
  <2>1. SessionsSound' /\ UNCHANGED <<req, forwarded, revoked, creator>>
    BY <1>7 DEF chatVars, sessions, GatewayInv, SessionsSound
  <2> QED BY <2>1, OthersChange
<1> QED BY <1>1, <1>2, <1>3, <1>4, <1>5, <1>6, <1>7 DEF ChatNext

LEMMA GatewayInvariant == ChatSpec => []GatewayInv
BY InitSound, NextSound, PTL DEF ChatSpec

\* Type correctness, for any callers, sessions, requests and prompts.
THEOREM TypeCorrect == ChatSpec => []ChatTypeOK
<1>1. ASSUME GatewayInv, NEW r \in Requests
      PROVE  /\ req[r].pc \in Awaits /\ req[r].token \in {"none", "bad", "valid"}
             /\ req[r].masked \in 0..Len(req[r].msgs)
             /\ req[r].audit \subseteq Events
             /\ req[r].status \in {0, 200, 401, 403, 404, 422, 500, 502, 503}
  BY <1>1 DEF GatewayInv, Sound, Masked, RequestType
<1>2. GatewayInv => ChatTypeOK
  BY <1>1 DEF GatewayInv, SessionsSound, ChatTypeOK, Awaits
<1> QED BY <1>2, GatewayInvariant, PTL

\* No prompt reaches a provider before each of its messages has been
\* tokenized, for prompts of any length and whatever fails on the way.
THEOREM PromptsAreTokenized == ChatSpec => []NeverInClear
<1>1. GatewayInv => NeverInClear
  BY DEF GatewayInv, PromptSound, NeverInClear
<1> QED BY <1>1, GatewayInvariant, PTL

\* A prompt leaves only for whoever configured its session, and never on a
\* token that was revoked when the request came, in any interleaving with
\* set-ups, expiries and revocations.
THEOREM PromptsAreTheOwners == ChatSpec => []OwnSessionOnly
<1>1. GatewayInv => OwnSessionOnly
  BY DEF GatewayInv, PromptSound, OwnSessionOnly
<1> QED BY <1>1, GatewayInvariant, PTL

\* The injection guard and the audit of what was detected come before the
\* provider, for every message of every prompt.
THEOREM PromptsAreGuarded == ChatSpec => []GuardedBefore
<1>1. GatewayInv => GuardedBefore
  BY DEF GatewayInv, PromptSound, GuardedBefore
<1> QED BY <1>1, GatewayInvariant, PTL

\* A refused token or session, an answer and what was detected in a prompt are
\* on record when the request ends with a status that tells of them.
THEOREM OutcomesAreOnRecord == ChatSpec => []OutcomeOnRecord
<1>1. GatewayInv => OutcomeOnRecord
  BY DEF GatewayInv, Sound, OnRecord, OutcomeOnRecord
<1> QED BY <1>1, GatewayInvariant, PTL
=============================================================================
