--------------------------- MODULE TokenVaultProofs ---------------------------
(***************************************************************************)
(* One value has one token and one token one value, for any number of      *)
(* requests, identifiers and messages of one session and any TTL, however  *)
(* the requests' round trips to Redis interleave.  What a request holds    *)
(* and what Redis keeps are related by one inductive invariant: numbers    *)
(* taken from the counter are held by one request each until the first     *)
(* claim of a value makes one of them that value's token.                  *)
(***************************************************************************)
EXTENDS TokenVault, TLAPS

Steps ==
    {"idle", "find", "incr", "expire", "claim", "winner", "readMap", "writeMap",
     "merged", "sent"}
Spans == {"find", "incr", "expire", "claim", "winner"}     \* a span is in hand
Holding == {"expire", "claim", "winner"}                   \* and a number for it

TokenMap == UNION {[D -> Values] : D \in SUBSET Tokens}

RequestType ==
    [pc : Steps, todo : Seq(Values), tok : Nat, new : TokenMap, snap : TokenMap,
     sent : TokenMap]

\* Every token of a map is one of S, where it stands for the same value.
Handed(m, S) == \A t \in DOMAIN m : [tok |-> t, value |-> m[t]] \in S

RequestSound(q, S) ==
    /\ q \in RequestType
    /\ q.pc \in Spans => q.todo # <<>>
    /\ q.pc \in Holding => q.tok # 0
    /\ Handed(q.new, S) /\ Handed(q.snap, S) /\ Handed(q.sent, S)

StoreSound ==
    /\ clock \in Nat /\ clock <= MaxClock
    /\ hash \in [Values -> [tok : Nat, exp : Nat]]
    /\ \A v \in Values : hash[v].exp # Never => hash[v].tok # 0
    /\ counter \in [n : Nat, exp : Nat]
    /\ vault \in [map : TokenMap, exp : Nat]
    /\ Handed(vault.map, issued)
    /\ vault.exp = Never => vault.map = Empty
    /\ issued \in SUBSET [tok : Tokens, value : Values]
    /\ overran \in BOOLEAN /\ clobbered \in BOOLEAN

\* A value that has a token.
Claimed(v) == hash[v].exp # Never

\* A key that was ever written lives as long as anyone tokenizes.
Lasting ==
    /\ clock < TTL \/ \A r \in Requests : ~Tokenizing(r)
    /\ \A v \in Values : Claimed(v) => hash[v].exp >= TTL
    /\ counter.n # 0 => counter.exp # Never
    /\ counter.exp # Never => counter.exp >= TTL \/ counter.exp > MaxClock
    /\ vault.exp # Never => vault.exp >= TTL

\* A number taken from the counter is held by one request, or is the token of
\* one value, or is lost.
Numbered ==
    /\ \A v \in Values : Claimed(v) => hash[v].tok \in 1..counter.n
    /\ \A v, w \in Values : Claimed(v) /\ Claimed(w) /\ hash[v].tok = hash[w].tok => v = w
    /\ \A r \in Requests : req[r].pc \in Holding =>
          /\ req[r].tok <= counter.n
          /\ \A s \in Requests \ {r} : req[s].pc \in Holding => req[s].tok # req[r].tok
          /\ \A v \in Values : Claimed(v) => hash[v].tok # req[r].tok

\* Who lost the claim of a value finds its token; what was returned for a
\* value is its token.
Returned ==
    /\ \A r \in Requests : req[r].pc = "winner" => Claimed(Head(req[r].todo))
    /\ \A p \in issued : Claimed(p.value) /\ hash[p.value].tok = p.tok

Kept ==
    ~clobbered => \A r \in Requests : DOMAIN req[r].sent \subseteq DOMAIN vault.map

VaultInv ==
    /\ StoreSound
    /\ DOMAIN req = Requests
    /\ \A r \in Requests : RequestSound(req[r], issued)
    /\ ~overran => Lasting /\ Numbered /\ Returned /\ Kept
-----------------------------------------------------------------------------
(* Maps, and what a step may do to a request.                              *)

LEMMA EmptyIsMap == Empty \in TokenMap /\ \A S : Handed(Empty, S)
<1>1. Empty \in [{} -> Values]
  BY DEF Empty
<1>2. {} \in SUBSET Tokens /\ DOMAIN Empty = {}
  BY DEF Empty
<1> QED BY <1>1, <1>2 DEF TokenMap, Handed

LEMMA MapIsMap ==
    ASSUME NEW m \in TokenMap
    PROVE  DOMAIN m \subseteq Tokens /\ \A t \in DOMAIN m : m[t] \in Values
BY DEF TokenMap

\* What a merge of two maps is.
LEMMA MergeIsMap ==
    ASSUME NEW old \in TokenMap, NEW new \in TokenMap, NEW S
    PROVE  /\ Merge(old, new) \in TokenMap
           /\ DOMAIN Merge(old, new) = DOMAIN old \cup DOMAIN new
           /\ Handed(old, S) /\ Handed(new, S) => Handed(Merge(old, new), S)
<1> DEFINE m == Merge(old, new)
<1>1. DOMAIN m = DOMAIN old \cup DOMAIN new
  BY DEF Merge
<1>2. \A t \in DOMAIN m : m[t] = IF t \in DOMAIN new THEN new[t] ELSE old[t]
  BY DEF Merge
<1>3. \A t \in DOMAIN m : m[t] \in Values
  BY <1>1, <1>2, MapIsMap
<1>4. m \in [DOMAIN m -> Values]
  <2>1. m = [t \in DOMAIN m |-> m[t]]
    BY DEF Merge
  <2> HIDE DEF m
  <2> QED BY <1>3, <2>1
<1>5. DOMAIN m \subseteq Tokens
  BY <1>1, MapIsMap
<1>6. Handed(old, S) /\ Handed(new, S) => Handed(m, S)
  <2> HIDE DEF m
  <2> QED BY <1>1, <1>2 DEF Handed
<1>7. m \in TokenMap
  <2> HIDE DEF m
  <2> QED BY <1>4, <1>5 DEF TokenMap
<1> QED BY <1>1, <1>6, <1>7

LEMMA OneTokenMap ==
    ASSUME NEW t \in Tokens, NEW v \in Values, NEW S
    PROVE  /\ [x \in {t} |-> v] \in TokenMap
           /\ [tok |-> t, value |-> v] \in S => Handed([x \in {t} |-> v], S)
<1> DEFINE m == [x \in {t} |-> v]
<1>1. m \in [{t} -> Values] /\ {t} \in SUBSET Tokens /\ DOMAIN m = {t} /\ m[t] = v
  OBVIOUS
<1> HIDE DEF m
<1> QED BY <1>1 DEF TokenMap, Handed, m

\* The map read from Redis.
LEMMA MapSound ==
    ASSUME StoreSound
    PROVE  Map \in TokenMap /\ Handed(Map, issued)
BY EmptyIsMap DEF StoreSound, Map

\* What the invariant reads of a request's maps.
SameMaps(p, q) == p.new = q.new /\ p.snap = q.snap /\ p.sent = q.sent

LEMMA PcChanges ==
    ASSUME NEW q \in RequestType, NEW pc \in Steps
    PROVE  LET p == [q EXCEPT !.pc = pc] IN
           p \in RequestType /\ p.pc = pc /\ p.todo = q.todo /\ p.tok = q.tok /\ SameMaps(p, q)
BY DEF RequestType, SameMaps

LEMMA TodoChanges ==
    ASSUME NEW q \in RequestType, NEW todo \in Seq(Values)
    PROVE  LET p == [q EXCEPT !.todo = todo] IN
           p \in RequestType /\ p.pc = q.pc /\ p.todo = todo /\ p.tok = q.tok /\ SameMaps(p, q)
BY DEF RequestType, SameMaps

LEMMA TokChanges ==
    ASSUME NEW q \in RequestType, NEW tok \in Nat
    PROVE  LET p == [q EXCEPT !.tok = tok] IN
           p \in RequestType /\ p.pc = q.pc /\ p.todo = q.todo /\ p.tok = tok /\ SameMaps(p, q)
BY DEF RequestType, SameMaps

LEMMA NewChanges ==
    ASSUME NEW q \in RequestType, NEW m \in TokenMap
    PROVE  LET p == [q EXCEPT !.new = m] IN
           /\ p \in RequestType /\ p.pc = q.pc /\ p.todo = q.todo /\ p.tok = q.tok
           /\ p.new = m /\ p.snap = q.snap /\ p.sent = q.sent
BY DEF RequestType

LEMMA SnapChanges ==
    ASSUME NEW q \in RequestType, NEW m \in TokenMap
    PROVE  LET p == [q EXCEPT !.snap = m] IN
           /\ p \in RequestType /\ p.pc = q.pc /\ p.todo = q.todo /\ p.tok = q.tok
           /\ p.new = q.new /\ p.snap = m /\ p.sent = q.sent
BY DEF RequestType

LEMMA SentChanges ==
    ASSUME NEW q \in RequestType, NEW m \in TokenMap
    PROVE  LET p == [q EXCEPT !.sent = m] IN
           /\ p \in RequestType /\ p.pc = q.pc /\ p.todo = q.todo /\ p.tok = q.tok
           /\ p.new = q.new /\ p.snap = q.snap /\ p.sent = m
BY DEF RequestType

LEMMA FreshSound ==
    /\ \A S : RequestSound(NoRequest, S)
    /\ NoRequest.pc = "idle"
    /\ NoRequest.sent = Empty
BY EmptyIsMap DEF NoRequest, RequestSound, RequestType, Steps, Spans, Holding

\* A step of one request leaves the others alone.
LEMMA RequestsStaySound ==
    ASSUME VaultInv, NEW r \in Requests, NEW q, RequestSound(q, issued'),
           req' = [req EXCEPT ![r] = q], issued \subseteq issued'
    PROVE  /\ DOMAIN req' = Requests
           /\ req'[r] = q
           /\ \A x \in Requests \ {r} : req'[x] = req[x]
           /\ \A x \in Requests : RequestSound(req'[x], issued')
<1>1. DOMAIN req' = Requests /\ req'[r] = q /\ \A x \in Requests \ {r} : req'[x] = req[x]
  BY DEF VaultInv
<1>2. ASSUME NEW x \in Requests \ {r} PROVE RequestSound(req[x], issued')
  BY DEF VaultInv, RequestSound, Handed
<1> QED BY <1>1, <1>2

\* Steps that change one request and nothing else: no number is taken, no
\* value is claimed, nothing is returned.
LEMMA QuietSound ==
    ASSUME VaultInv, NEW r \in Requests, NEW q, RequestSound(q, issued),
           req' = [req EXCEPT ![r] = q],
           UNCHANGED <<clock, hash, counter, vault, ghosts>>,
           q.pc \in {"idle", "sent"} \/ Tokenizing(r) \/ clock < TTL,
           q.pc \in Holding => req[r].pc \in Holding /\ q.tok = req[r].tok,
           q.pc = "winner" => Claimed(Head(q.todo)),
           DOMAIN q.sent \subseteq DOMAIN req[r].sent
    PROVE  VaultInv'
<1>1. /\ DOMAIN req' = Requests /\ req'[r] = q
      /\ \A x \in Requests \ {r} : req'[x] = req[x]
      /\ \A x \in Requests : RequestSound(req'[x], issued')
  BY RequestsStaySound DEF ghosts
<1>2. StoreSound'
  BY DEF VaultInv, StoreSound, ghosts
<1>3. ASSUME ~overran PROVE (Lasting /\ Numbered /\ Returned /\ Kept)'
  <2>1. Lasting /\ Numbered /\ Returned /\ Kept
    BY <1>3 DEF VaultInv
  <2>2. Lasting'
    BY <1>1, <2>1 DEF Lasting, Claimed, Tokenizing, ghosts
  <2>3. Numbered'
    <3>1. \A x \in Requests : req'[x].pc \in Holding =>
             req[x].pc \in Holding /\ req'[x].tok = req[x].tok
      BY <1>1
    <3> QED BY <2>1, <3>1 DEF Numbered, Claimed, ghosts
  <2>4. Returned'
    BY <1>1, <2>1 DEF Returned, Claimed, ghosts
  <2>5. Kept'
    BY <1>1, <2>1 DEF Kept, ghosts
  <2> QED BY <2>2, <2>3, <2>4, <2>5
<1> QED BY <1>1, <1>2, <1>3 DEF VaultInv, ghosts

-----------------------------------------------------------------------------
(* The steps, one lemma per action.                                        *)

LEMMA InitSound == Init => VaultInv
<1> SUFFICES ASSUME Init PROVE VaultInv
  OBVIOUS
<1>1. StoreSound
  <2>1. hash \in [Values -> [tok : Nat, exp : Nat]] /\ \A v \in Values : hash[v].exp = Never
    BY DEF Init, Never
  <2>2. counter \in [n : Nat, exp : Nat]
    BY DEF Init, Never
  <2>3. vault \in [map : TokenMap, exp : Nat] /\ Handed(vault.map, issued) /\ vault.map = Empty
    BY EmptyIsMap DEF Init, Never
  <2>4. clock \in Nat /\ clock <= MaxClock
    BY VaultAssumption DEF Init
  <2>5. issued \in SUBSET [tok : Tokens, value : Values]
    BY DEF Init
  <2>6. overran \in BOOLEAN /\ clobbered \in BOOLEAN
    BY DEF Init
  <2> QED BY <2>1, <2>2, <2>3, <2>4, <2>5, <2>6 DEF StoreSound
<1>2. \A r \in Requests : RequestSound(req[r], issued) /\ req[r].pc = "idle" /\ req[r].sent = Empty
  BY FreshSound DEF Init
<1>3. \A v \in Values : ~Claimed(v)
  BY DEF Init, Claimed
<1>4. Lasting
  BY <1>2, <1>3 DEF Lasting, Init, Tokenizing
<1>5. Numbered /\ Returned
  BY <1>2, <1>3 DEF Numbered, Returned, Init, Holding
<1>6. Kept
  BY <1>2 DEF Kept, Init
<1> QED BY <1>1, <1>2, <1>4, <1>5, <1>6 DEF VaultInv, Init

LEMMA MessageType ==
    ASSUME NEW msg \in Messages
    PROVE  msg \in Seq(Values)
<1>1. PICK n \in 0..MaxSpans : msg \in [1..n -> Values]
  BY DEF Messages
<1> QED BY <1>1, VaultAssumption

\* A message is analysed: nothing of it is done, and nothing sent is forgotten.
LEMMA DetectedSound ==
    ASSUME NEW S, NEW q, RequestSound(q, S), NEW msg \in Messages
    PROVE  /\ RequestSound(Detected(q, msg), S)
           /\ Detected(q, msg).pc \in {"readMap", "find"}
           /\ Detected(q, msg).sent = q.sent
<1> DEFINE pc == IF msg = <<>> THEN "readMap" ELSE "find"
           q1 == [q EXCEPT !.pc = pc]
           q2 == [q1 EXCEPT !.todo = msg]
           q3 == [q2 EXCEPT !.new = Empty]
           d == [q3 EXCEPT !.snap = Empty]
<1>1. d = Detected(q, msg)
  BY DEF Detected
<1>2. msg \in Seq(Values) /\ pc \in {"readMap", "find"} /\ (pc = "find" => msg # <<>>)
  BY MessageType
<1> HIDE DEF pc
<1>3. q1 \in RequestType /\ q1.pc = pc /\ q1.sent = q.sent
  <2>1. q \in RequestType /\ pc \in Steps
    BY <1>2 DEF RequestSound, Steps
  <2> QED BY <2>1, PcChanges DEF SameMaps
<1> HIDE DEF q1
<1>4. q2 \in RequestType /\ q2.pc = pc /\ q2.todo = msg /\ q2.sent = q.sent
  BY <1>2, <1>3, TodoChanges DEF SameMaps
<1> HIDE DEF q2
<1>5. q3 \in RequestType /\ q3.pc = pc /\ q3.todo = msg /\ q3.sent = q.sent /\ q3.new = Empty
  BY <1>4, EmptyIsMap, NewChanges
<1> HIDE DEF q3
<1>6. /\ d \in RequestType /\ d.pc = pc /\ d.todo = msg /\ d.sent = q.sent
      /\ d.new = Empty /\ d.snap = Empty
  BY <1>5, EmptyIsMap, SnapChanges
<1> HIDE DEF d
<1>7. RequestSound(d, S)
  BY <1>2, <1>6, EmptyIsMap DEF RequestSound, Spans, Holding
<1> QED BY <1>1, <1>2, <1>6, <1>7

LEMMA BeginSound ==
    ASSUME VaultInv, NEW r \in Requests, NEW msg \in Messages, Begin(r, msg)
    PROVE  VaultInv'
<1> DEFINE q == Detected(NoRequest, msg)
<1>1. req' = [req EXCEPT ![r] = q] /\ clock < TTL /\ UNCHANGED <<clock, hash, counter, vault, ghosts>>
  BY DEF Begin
<1>2. RequestSound(q, issued) /\ q.pc \in {"readMap", "find"} /\ q.sent = Empty
  BY DetectedSound, FreshSound
<1> HIDE DEF q
<1>3. q.pc \notin Holding /\ q.pc # "winner" /\ DOMAIN q.sent = {}
  BY <1>2 DEF Holding, Empty
<1> QED BY <1>1, <1>2, <1>3, QuietSound

LEMMA AnotherSound ==
    ASSUME VaultInv, NEW r \in Requests, NEW msg \in Messages, Another(r, msg)
    PROVE  VaultInv'
<1> DEFINE q == Detected(req[r], msg)
<1>1. /\ req' = [req EXCEPT ![r] = q] /\ Tokenizing(r)
      /\ UNCHANGED <<clock, hash, counter, vault, ghosts>>
  BY DEF Another, Tokenizing
<1>2. RequestSound(q, issued) /\ q.pc \in {"readMap", "find"} /\ q.sent = req[r].sent
  BY DetectedSound DEF VaultInv
<1> HIDE DEF q
<1>3. q.pc \notin Holding /\ q.pc # "winner"
  BY <1>2 DEF Holding
<1> QED BY <1>1, <1>2, <1>3, QuietSound

\* A request that only goes on.
LEMMA MovedSound ==
    ASSUME VaultInv, NEW r \in Requests, NEW pc \in Steps,
           req' = [req EXCEPT ![r].pc = pc],
           UNCHANGED <<clock, hash, counter, vault, ghosts>>,
           Tokenizing(r), pc \in Spans => req[r].pc \in Spans,
           pc \in Holding => req[r].pc \in Holding,
           pc = "winner" => Claimed(Head(req[r].todo))
    PROVE  VaultInv'
<1> DEFINE q == [req[r] EXCEPT !.pc = pc]
<1>1. RequestSound(req[r], issued)
  BY DEF VaultInv
<1>2. q \in RequestType /\ q.pc = pc /\ q.todo = req[r].todo /\ q.tok = req[r].tok /\ SameMaps(q, req[r])
  BY <1>1, PcChanges DEF RequestSound
<1>3. req' = [req EXCEPT ![r] = q]
  OBVIOUS
<1> HIDE DEF q
<1>4. RequestSound(q, issued)
  BY <1>1, <1>2 DEF RequestSound, SameMaps
<1> QED BY <1>2, <1>3, <1>4, QuietSound DEF SameMaps

LEMMA FinishSound ==
    ASSUME VaultInv, NEW r \in Requests, Finish(r)
    PROVE  VaultInv'
<1>1. /\ req' = [req EXCEPT ![r] = NoRequest]
      /\ UNCHANGED <<clock, hash, counter, vault, ghosts>>
  BY DEF Finish
<1>2. /\ RequestSound(NoRequest, issued) /\ NoRequest.pc = "idle" /\ NoRequest.sent = Empty
      /\ DOMAIN Empty = {} /\ "idle" \notin Holding
  BY FreshSound DEF Empty, Holding
<1> QED BY <1>1, <1>2, QuietSound

LEMMA ReadMapSound ==
    ASSUME VaultInv, NEW r \in Requests, ReadMap(r)
    PROVE  VaultInv'
<1> DEFINE p == [req[r] EXCEPT !.snap = Map]
           q == [p EXCEPT !.pc = "writeMap"]
<1>1. /\ req' = [req EXCEPT ![r] = q] /\ Tokenizing(r)
      /\ UNCHANGED <<clock, hash, counter, vault, ghosts>>
  BY DEF ReadMap, Tokenizing, VaultInv
<1>2. RequestSound(req[r], issued) /\ StoreSound
  BY DEF VaultInv
<1>3. Map \in TokenMap /\ Handed(Map, issued)
  BY <1>2, MapSound
<1>4. /\ p \in RequestType
      /\ p.new = req[r].new /\ p.snap = Map /\ p.sent = req[r].sent
  <2>1. req[r] \in RequestType
    BY <1>2 DEF RequestSound
  <2> QED BY <1>3, <2>1, SnapChanges
<1> HIDE DEF p
<1>5. q \in RequestType /\ q.pc = "writeMap" /\ SameMaps(q, p)
  <2>1. "writeMap" \in Steps
    BY DEF Steps
  <2> QED BY <1>4, <2>1, PcChanges
<1> HIDE DEF q
<1>6. q.pc \notin Spans /\ q.pc \notin Holding /\ q.pc # "winner"
  BY <1>5 DEF Spans, Holding
<1>7. RequestSound(q, issued) /\ DOMAIN q.sent \subseteq DOMAIN req[r].sent
  BY <1>2, <1>3, <1>4, <1>5, <1>6 DEF RequestSound, SameMaps
<1> QED BY <1>1, <1>6, <1>7, QuietSound

LEMMA SendSound ==
    ASSUME VaultInv, NEW r \in Requests, Send(r)
    PROVE  VaultInv'
BY MovedSound DEF Send, Tokenizing, Steps, Spans, Holding

-----------------------------------------------------------------------------
\* What get_or_create_token_for_hash returns for a span goes to the request's
\* new tokens, and on record.
LEMMA ReturnsFacts ==
    ASSUME VaultInv, NEW r \in Requests, req[r].pc \in Spans, NEW tok \in Tokens,
           Returns(r, tok)
    PROVE  LET v == Head(req[r].todo) IN
           /\ v \in Values
           /\ issued' = issued \cup {[tok |-> tok, value |-> v]}
           /\ DOMAIN req' = Requests
           /\ req'[r].pc \in {"readMap", "find"} /\ req'[r].sent = req[r].sent
           /\ \A x \in Requests \ {r} : req'[x] = req[x]
           /\ \A x \in Requests : RequestSound(req'[x], issued')
<1> DEFINE q == req[r]
           v == Head(q.todo)
           pc == IF Len(q.todo) = 1 THEN "readMap" ELSE "find"
           new == Merge(q.new, [t \in {tok} |-> v])
           q1 == [q EXCEPT !.pc = pc]
           q2 == [q1 EXCEPT !.todo = Tail(q.todo)]
           q3 == [q2 EXCEPT !.tok = 0]
           p == [q3 EXCEPT !.new = new]
<1>1. /\ issued' = issued \cup {[tok |-> tok, value |-> v]}
      /\ req' = [req EXCEPT ![r] = p]
  BY DEF Returns
<1>2. RequestSound(q, issued)
  BY DEF VaultInv
<1> HIDE DEF q
<1>3. /\ q \in RequestType /\ q.todo \in Seq(Values) /\ q.todo # <<>>
      /\ q.new \in TokenMap /\ Handed(q.new, issued)
  BY <1>2 DEF RequestSound, RequestType, q
<1>4. /\ v \in Values /\ Tail(q.todo) \in Seq(Values)
      /\ pc \in {"readMap", "find"} /\ (pc = "find" => Tail(q.todo) # <<>>)
  <2> DEFINE t == q.todo
  <2>1. t \in Seq(Values) /\ t # <<>>
    BY <1>3
  <2> HIDE DEF t
  <2>2. Head(t) \in Values /\ Tail(t) \in Seq(Values)
    BY <2>1
  <2>3. ASSUME Tail(t) = <<>> PROVE Len(t) = 1
    <3> DEFINE u == Tail(t)
    <3>1. Len(u) = Len(t) - 1 /\ Len(t) \in Nat
      BY <2>1
    <3>2. u = <<>>
      BY <2>3
    <3> HIDE DEF u
    <3> QED BY <3>1, <3>2
  <2> QED BY <2>2, <2>3 DEF t
<1>5. new \in TokenMap /\ Handed(new, issued')
  <2>1. [t \in {tok} |-> v] \in TokenMap /\ Handed([t \in {tok} |-> v], issued')
    BY <1>1, <1>4, OneTokenMap
  <2>2. Handed(q.new, issued')
    BY <1>1, <1>3 DEF Handed
  <2> QED BY <1>3, <2>1, <2>2, MergeIsMap
<1> HIDE DEF pc, new, v
<1>6. q1 \in RequestType /\ q1.pc = pc /\ SameMaps(q1, q)
  <2>1. pc \in Steps
    BY <1>4 DEF Steps
  <2> QED BY <1>3, <2>1, PcChanges
<1> HIDE DEF q1
<1>7. q2 \in RequestType /\ q2.pc = pc /\ q2.todo = Tail(q.todo) /\ SameMaps(q2, q1)
  BY <1>4, <1>6, TodoChanges
<1> HIDE DEF q2
<1>8. q3 \in RequestType /\ q3.pc = pc /\ q3.todo = Tail(q.todo) /\ SameMaps(q3, q2)
  BY <1>7, TokChanges
<1> HIDE DEF q3
<1>9. /\ p \in RequestType /\ p.pc = pc /\ p.todo = Tail(q.todo)
      /\ p.new = new /\ p.snap = q3.snap /\ p.sent = q3.sent
  BY <1>5, <1>8, NewChanges
<1> HIDE DEF p
<1>10. p.snap = q.snap /\ p.sent = q.sent
  BY <1>6, <1>7, <1>8, <1>9 DEF SameMaps
<1>11. RequestSound(p, issued')
  <2>1. Handed(p.snap, issued') /\ Handed(p.sent, issued')
    BY <1>1, <1>2, <1>10 DEF RequestSound, Handed
  <2> QED BY <1>4, <1>5, <1>9, <2>1 DEF RequestSound, Spans, Holding
<1>12. /\ DOMAIN req' = Requests /\ req'[r] = p
       /\ \A x \in Requests \ {r} : req'[x] = req[x]
       /\ \A x \in Requests : RequestSound(req'[x], issued')
  BY <1>1, <1>11, RequestsStaySound
<1> QED BY <1>1, <1>4, <1>9, <1>10, <1>12 DEF v, q

\* Keys of a session in which nobody overran do not expire under a request.
LEMMA LivesWhileTokenizing ==
    ASSUME VaultInv, ~overran, NEW r \in Requests, Tokenizing(r)
    PROVE  /\ clock < TTL
           /\ \A v \in Values : Claimed(v) <=> Live(hash[v])
           /\ counter.n # 0 => Live(counter)
           /\ vault.exp # Never => Live(vault)
<1>1. clock < TTL
  BY DEF VaultInv, Lasting
<1>2. clock \in Nat /\ TTL \in Nat /\ MaxClock \in Nat /\ clock <= MaxClock
  BY VaultAssumption DEF VaultInv, StoreSound
<1>3. \A v \in Values : hash[v].exp \in Nat /\ (Claimed(v) => hash[v].exp >= TTL)
  BY DEF VaultInv, StoreSound, Lasting
<1>4. counter.exp \in Nat /\ (counter.n # 0 => counter.exp >= TTL \/ counter.exp > MaxClock)
  BY DEF VaultInv, StoreSound, Lasting
<1>5. vault.exp \in Nat /\ (vault.exp # Never => vault.exp >= TTL)
  BY DEF VaultInv, StoreSound, Lasting
<1> QED BY <1>1, <1>2, <1>3, <1>4, <1>5 DEF Live, Claimed, Never

\* A value's own token is returned once more.
LEMMA KnownSound ==
    ASSUME VaultInv, NEW r \in Requests, req[r].pc \in Spans, NEW tok \in Tokens,
           Returns(r, tok),
           ~overran => LET v == Head(req[r].todo) IN Claimed(v) /\ hash[v].tok = tok,
           UNCHANGED <<clock, hash, counter, vault, messages, overran, clobbered>>
    PROVE  VaultInv'
<1> DEFINE v == Head(req[r].todo)
           pair == [tok |-> tok, value |-> v]
<1>1. /\ v \in Values
      /\ issued' = issued \cup {pair}
      /\ DOMAIN req' = Requests
      /\ req'[r].pc \in {"readMap", "find"} /\ req'[r].sent = req[r].sent
      /\ \A x \in Requests \ {r} : req'[x] = req[x]
      /\ \A x \in Requests : RequestSound(req'[x], issued')
  BY ReturnsFacts
<1>2. ~overran => Claimed(v) /\ hash[v].tok = tok
  OBVIOUS
<1>3. Tokenizing(r)
  BY DEF Tokenizing, Spans
<1>4. pair \in [tok : Tokens, value : Values] /\ pair.value = v /\ pair.tok = tok
  BY <1>1
<1> HIDE DEF v, pair
<1>5. StoreSound'
  <2>1. Handed(vault.map, issued')
    BY <1>1 DEF VaultInv, StoreSound, Handed
  <2> QED BY <1>1, <1>4, <2>1 DEF VaultInv, StoreSound
<1>6. ASSUME ~overran PROVE (Lasting /\ Numbered /\ Returned /\ Kept)'
  <2>1. Lasting /\ Numbered /\ Returned /\ Kept
    BY <1>6 DEF VaultInv
  <2>2. Lasting'
    BY <1>1, <1>3, <2>1 DEF Lasting, Claimed, Tokenizing
  <2>3. Numbered'
    <3>1. \A x \in Requests : req'[x].pc \in Holding => req'[x] = req[x]
      BY <1>1 DEF Holding
    <3> QED BY <2>1, <3>1 DEF Numbered, Claimed
  <2>4. Returned'
    <3>1. \A x \in Requests : req'[x].pc = "winner" => req'[x] = req[x]
      BY <1>1
    <3> QED BY <1>1, <1>2, <1>4, <1>6, <2>1, <3>1 DEF Returned, Claimed
  <2>5. Kept'
    BY <1>1, <2>1 DEF Kept
  <2> QED BY <2>2, <2>3, <2>4, <2>5
<1> QED BY <1>1, <1>5, <1>6 DEF VaultInv

LEMMA FindSound ==
    ASSUME VaultInv, NEW r \in Requests, Find(r)
    PROVE  VaultInv'
<1> DEFINE v == Head(req[r].todo)
<1>1. Tokenizing(r) /\ req[r].pc = "find" /\ "find" \in Spans
  BY DEF Find, Tokenizing, Spans
<1>2. v \in Values
  <2>1. req[r].todo \in Seq(Values) /\ req[r].todo # <<>>
    BY <1>1 DEF VaultInv, RequestSound, RequestType
  <2> QED BY <2>1
<1>3. CASE Live(hash[v])
  <2>1. Returns(r, hash[v].tok) /\ UNCHANGED <<clock, hash, counter, vault, messages, overran, clobbered>>
    BY <1>3 DEF Find
  <2>2. Claimed(v) /\ hash[v].tok \in Tokens
    BY <1>2, <1>3 DEF VaultInv, StoreSound, Live, Claimed, Never, Tokens
  <2> QED BY <1>1, <2>1, <2>2, KnownSound
<1>4. CASE ~Live(hash[v])
  <2>1. req' = [req EXCEPT ![r].pc = "incr"] /\ UNCHANGED <<clock, hash, counter, vault, ghosts>>
    BY <1>4 DEF Find, ghosts
  <2> QED BY <1>1, <2>1, MovedSound DEF Steps, Holding
<1> QED BY <1>3, <1>4

LEMMA ReadWinnerSound ==
    ASSUME VaultInv, NEW r \in Requests, ReadWinner(r)
    PROVE  VaultInv'
<1> DEFINE v == Head(req[r].todo)
           tok == IF Live(hash[v]) THEN hash[v].tok ELSE req[r].tok
<1>1. /\ Tokenizing(r) /\ req[r].pc = "winner" /\ req[r].pc \in Spans /\ req[r].pc \in Holding
      /\ Returns(r, tok) /\ UNCHANGED <<clock, hash, counter, vault, messages, overran, clobbered>>
  BY DEF ReadWinner, Tokenizing, Spans, Holding
<1>2. v \in Values /\ req[r].tok \in Tokens
  <2>1. req[r].todo \in Seq(Values) /\ req[r].todo # <<>> /\ req[r].tok \in Nat /\ req[r].tok # 0
    BY <1>1 DEF VaultInv, RequestSound, RequestType
  <2> QED BY <2>1 DEF Tokens
<1>3. tok \in Tokens
  BY <1>2 DEF VaultInv, StoreSound, Live, Never, Tokens
<1>4. ASSUME ~overran PROVE Claimed(v) /\ hash[v].tok = tok
  BY <1>1, <1>2, <1>4, LivesWhileTokenizing DEF VaultInv, Returned
<1> HIDE DEF tok
<1> QED BY <1>1, <1>3, <1>4, KnownSound

\* The first claim of a value turns the number held into its token.
LEMMA ClaimSound ==
    ASSUME VaultInv, NEW r \in Requests, Claim(r)
    PROVE  VaultInv'
<1> DEFINE v == Head(req[r].todo)
           tok == req[r].tok
           pair == [tok |-> tok, value |-> v]
           key == [tok |-> tok, exp |-> clock + TTL]
<1>1. /\ Tokenizing(r) /\ req[r].pc = "claim" /\ req[r].pc \in Spans /\ req[r].pc \in Holding
      /\ UNCHANGED <<clock, counter, vault, messages, overran, clobbered>>
  BY DEF Claim, Tokenizing, Spans, Holding
<1>2. v \in Values /\ tok \in Tokens
  <2>1. req[r].todo \in Seq(Values) /\ req[r].todo # <<>> /\ req[r].tok \in Nat /\ req[r].tok # 0
    BY <1>1 DEF VaultInv, RequestSound, RequestType
  <2> QED BY <2>1 DEF Tokens
<1>3. CASE Live(hash[v])
  <2>1. req' = [req EXCEPT ![r].pc = "winner"] /\ UNCHANGED <<clock, hash, counter, vault, ghosts>>
    BY <1>1, <1>3 DEF Claim, ghosts
  <2>2. Claimed(v)
    BY <1>2, <1>3 DEF VaultInv, StoreSound, Live, Claimed, Never
  <2> QED BY <1>1, <2>1, <2>2, MovedSound DEF Steps
<1>4. CASE ~Live(hash[v])
  <2>1. Returns(r, tok) /\ hash' = [hash EXCEPT ![v] = key]
    BY <1>4 DEF Claim
  <2>2. /\ issued' = issued \cup {pair}
        /\ DOMAIN req' = Requests
        /\ req'[r].pc \in {"readMap", "find"} /\ req'[r].sent = req[r].sent
        /\ \A x \in Requests \ {r} : req'[x] = req[x]
        /\ \A x \in Requests : RequestSound(req'[x], issued')
    BY <1>1, <1>2, <2>1, ReturnsFacts
  <2>3. pair \in [tok : Tokens, value : Values] /\ pair.value = v /\ pair.tok = tok
    BY <1>2
  <2>4. key \in [tok : Nat, exp : Nat] /\ key.tok = tok /\ key.exp >= TTL /\ key.exp # Never
    BY <1>2, VaultAssumption DEF VaultInv, StoreSound, Tokens, Never
  <2>5. tok # 0
    BY <1>2 DEF Tokens
  <2>6. \A x \in Requests : req'[x].pc \in Holding \cup {"winner"} => x # r /\ req'[x] = req[x]
    BY <2>2 DEF Holding
  <2>7. ~overran => ~Claimed(v)
    BY <1>1, <1>2, <1>4, LivesWhileTokenizing
  <2>8. ~overran => tok <= counter.n
    BY <1>1 DEF VaultInv, Numbered
  <2> HIDE DEF v, tok, pair, key
  <2>9. \A w \in Values : hash'[w] = IF w = v THEN key ELSE hash[w]
    BY <2>1 DEF VaultInv, StoreSound
  <2>10. StoreSound'
    <3>1. Handed(vault.map, issued')
      BY <2>2 DEF VaultInv, StoreSound, Handed
    <3>2. hash' \in [Values -> [tok : Nat, exp : Nat]]
      BY <2>1, <2>4 DEF VaultInv, StoreSound
    <3>3. \A w \in Values : hash'[w].exp # Never => hash'[w].tok # 0
      BY <2>4, <2>5, <2>9 DEF VaultInv, StoreSound
    <3> QED BY <1>1, <2>2, <2>3, <3>1, <3>2, <3>3 DEF VaultInv, StoreSound
  <2>11. ASSUME ~overran PROVE (Lasting /\ Numbered /\ Returned /\ Kept)'
    <3>1. Lasting /\ Numbered /\ Returned /\ Kept /\ counter.n \in Nat /\ ~Claimed(v)
      BY <2>7, <2>11 DEF VaultInv, StoreSound
    <3>2. Lasting'
      <4>1. clock < TTL
        BY <1>1, <2>11, LivesWhileTokenizing
      <4>2. \A w \in Values : hash'[w].exp # Never => hash'[w].exp >= TTL
        BY <2>4, <2>9, <3>1 DEF Lasting, Claimed
      <4> QED BY <1>1, <3>1, <4>1, <4>2 DEF Lasting, Claimed
    <3>3. Numbered'
      <4>1. \A w \in Values : hash'[w].exp # Never => hash'[w].tok \in 1..counter.n
        BY <1>2, <2>4, <2>5, <2>8, <2>9, <2>11, <3>1 DEF Numbered, Claimed, Tokens, tok
      <4>2. \A w, x \in Values :
               hash'[w].exp # Never /\ hash'[x].exp # Never /\ hash'[w].tok = hash'[x].tok => w = x
        <5>1. \A w \in Values : Claimed(w) => hash[w].tok # tok
          BY <1>1, <3>1 DEF Numbered, tok
        <5> QED BY <2>4, <2>9, <3>1, <5>1 DEF Numbered, Claimed
      <4>3. ASSUME NEW x \in Requests, req'[x].pc \in Holding, NEW w \in Values, hash'[w].exp # Never
            PROVE  hash'[w].tok # req'[x].tok
        <5>1. x # r /\ req'[x] = req[x]
          BY <2>6, <4>3
        <5>2. req[x].tok # tok
          BY <1>1, <3>1, <4>3, <5>1 DEF Numbered, tok
        <5> QED BY <2>4, <2>9, <3>1, <4>3, <5>1, <5>2 DEF Numbered, Claimed
      <4>4. \A x \in Requests : req'[x].pc \in Holding =>
               /\ req'[x].tok <= counter.n
               /\ \A s \in Requests \ {x} : req'[s].pc \in Holding => req'[s].tok # req'[x].tok
        BY <2>6, <3>1 DEF Numbered
      <4> QED BY <1>1, <4>1, <4>2, <4>3, <4>4 DEF Numbered, Claimed
    <3>4. Returned'
      <4>1. ASSUME NEW x \in Requests, req'[x].pc = "winner"
            PROVE  hash'[Head(req'[x].todo)].exp # Never
        <5>1. req'[x] = req[x]
          BY <2>6, <4>1
        <5>2. req[x].todo \in Seq(Values) /\ req[x].todo # <<>>
          BY <4>1, <5>1 DEF VaultInv, RequestSound, RequestType, Spans
        <5>3. Head(req[x].todo) \in Values
          BY <5>2
        <5> QED BY <2>4, <2>9, <3>1, <4>1, <5>1, <5>3 DEF Returned, Claimed
      <4>2. ASSUME NEW p \in issued'
            PROVE  hash'[p.value].exp # Never /\ hash'[p.value].tok = p.tok
        <5>1. CASE p = pair
          BY <1>2, <2>3, <2>4, <2>9, <5>1 DEF v
        <5>2. CASE p \in issued
          <6>1. p.value \in Values
            BY <5>2 DEF VaultInv, StoreSound
          <6>2. Claimed(p.value) /\ hash[p.value].tok = p.tok
            BY <3>1, <5>2 DEF Returned
          <6> QED BY <2>9, <3>1, <6>1, <6>2 DEF Claimed
        <5> QED BY <2>2, <4>2, <5>1, <5>2
      <4> QED BY <4>1, <4>2 DEF Returned, Claimed
    <3>5. Kept'
      BY <1>1, <2>2, <3>1 DEF Kept
    <3> QED BY <3>2, <3>3, <3>4, <3>5
  <2> QED BY <1>1, <2>2, <2>10, <2>11 DEF VaultInv
<1> QED BY <1>3, <1>4

-----------------------------------------------------------------------------
\* A step that changes no map and takes no token: what Redis keeps is the
\* only other thing that changes.
LEMMA NumbersChange ==
    ASSUME VaultInv, NEW r \in Requests, NEW q, RequestSound(q, issued),
           req' = [req EXCEPT ![r] = q],
           counter' \in [n : Nat, exp : Nat],
           UNCHANGED <<clock, hash, vault, messages, ghosts>>,
           Tokenizing(r), q.pc # "winner", q.sent = req[r].sent,
           ~overran => /\ counter'.n >= counter.n
                       /\ counter'.n # 0 => counter'.exp # Never
                       /\ counter'.exp # Never => counter'.exp >= TTL \/ counter'.exp > MaxClock
                       /\ q.pc \in Holding => q.tok <= counter'.n
                       /\ \/ req[r].pc \in Holding /\ q.tok = req[r].tok
                          \/ q.tok > counter.n
    PROVE  VaultInv'
<1>1. /\ DOMAIN req' = Requests /\ req'[r] = q
      /\ \A x \in Requests \ {r} : req'[x] = req[x]
      /\ \A x \in Requests : RequestSound(req'[x], issued')
  BY RequestsStaySound DEF ghosts
<1>2. StoreSound'
  BY DEF VaultInv, StoreSound, ghosts
<1>3. ASSUME ~overran PROVE (Lasting /\ Numbered /\ Returned /\ Kept)'
  <2>1. /\ Lasting /\ Numbered /\ Returned /\ Kept
        /\ counter.n \in Nat /\ counter'.n \in Nat /\ counter'.n >= counter.n /\ q.tok \in Nat
        /\ \A x \in Requests : req[x].tok \in Nat
        /\ \A v \in Values : hash[v].tok \in Nat
    BY <1>3 DEF VaultInv, StoreSound, RequestSound, RequestType
  <2>2. Lasting'
    <3>1. clock' < TTL
      BY <1>3, LivesWhileTokenizing DEF ghosts
    <3> QED BY <1>3, <2>1, <3>1 DEF Lasting, Claimed, ghosts
  <2>3. Numbered'
    <3>1. \A v \in Values : Claimed(v) => hash[v].tok \in 1..counter'.n
      BY <2>1 DEF Numbered
    <3>2. ASSUME NEW x \in Requests, req'[x].pc \in Holding
          PROVE  /\ req'[x].tok <= counter'.n
                 /\ \A v \in Values : Claimed(v) => hash[v].tok # req'[x].tok
                 /\ \/ req[x].pc \in Holding /\ req'[x].tok = req[x].tok
                    \/ x = r /\ q.tok > counter.n
      <4>1. CASE x = r
        <5>1. req'[x].tok = q.tok /\ q.pc \in Holding
          BY <1>1, <3>2, <4>1
        <5>2. \A v \in Values : Claimed(v) => hash[v].tok # q.tok
          BY <1>3, <2>1 DEF Numbered
        <5>3. /\ q.tok <= counter'.n
              /\ \/ req[r].pc \in Holding /\ q.tok = req[r].tok
                 \/ q.tok > counter.n
          BY <1>3, <5>1
        <5> QED BY <4>1, <5>1, <5>2, <5>3
      <4>2. CASE x # r
        <5>1. req'[x] = req[x]
          BY <1>1, <4>2
        <5>2. req[x].tok <= counter.n /\ \A v \in Values : Claimed(v) => hash[v].tok # req[x].tok
          BY <2>1, <3>2, <5>1 DEF Numbered
        <5>3. req[x].tok <= counter'.n
          BY <2>1, <5>2
        <5> QED BY <3>2, <5>1, <5>2, <5>3
      <4> QED BY <4>1, <4>2
    <3>3. ASSUME NEW x \in Requests, req'[x].pc \in Holding,
                 NEW s \in Requests \ {x}, req'[s].pc \in Holding
          PROVE  req'[s].tok # req'[x].tok
      <4>1. CASE req[x].pc \in Holding /\ req'[x].tok = req[x].tok
        <5>1. CASE req[s].pc \in Holding /\ req'[s].tok = req[s].tok
          BY <2>1, <4>1, <5>1 DEF Numbered
        <5>2. CASE s = r /\ q.tok > counter.n
          BY <1>1, <2>1, <4>1, <5>2 DEF Numbered
        <5> QED BY <3>2, <3>3, <5>1, <5>2
      <4>2. CASE x = r /\ q.tok > counter.n
        <5>1. req'[s] = req[s] /\ req[s].tok <= counter.n
          BY <1>1, <2>1, <3>3, <4>2 DEF Numbered
        <5> QED BY <1>1, <2>1, <4>2, <5>1
      <4> QED BY <3>2, <3>3, <4>1, <4>2
    <3> QED BY <2>1, <3>1, <3>2, <3>3 DEF Numbered, Claimed, ghosts
  <2>4. Returned'
    BY <1>1, <2>1 DEF Returned, Claimed, ghosts
  <2>5. Kept'
    BY <1>1, <2>1 DEF Kept, ghosts
  <2> QED BY <2>2, <2>3, <2>4, <2>5
<1> QED BY <1>1, <1>2, <1>3 DEF VaultInv, ghosts

\* The number taken is new to everybody.
LEMMA IncrSound ==
    ASSUME VaultInv, NEW r \in Requests, Incr(r)
    PROVE  VaultInv'
<1> DEFINE n == IF Live(counter) THEN counter.n + 1 ELSE 1
           exp == IF Live(counter) THEN counter.exp ELSE MaxClock + 1
           p == [req[r] EXCEPT !.tok = n]
           q == [p EXCEPT !.pc = "expire"]
<1>1. /\ req' = [req EXCEPT ![r] = q] /\ counter' = [n |-> n, exp |-> exp]
      /\ Tokenizing(r) /\ req[r].pc = "incr" /\ req[r].pc \in Spans
      /\ UNCHANGED <<clock, hash, vault, messages, ghosts>>
  BY DEF Incr, Tokenizing, Spans, VaultInv
<1>2. /\ RequestSound(req[r], issued) /\ counter \in [n : Nat, exp : Nat]
      /\ counter.n \in Nat /\ counter.exp \in Nat
  BY DEF VaultInv, StoreSound
<1>3. n \in Nat /\ n # 0 /\ exp \in Nat
  BY <1>2, VaultAssumption
<1>4. ASSUME ~overran PROVE n = counter.n + 1 /\ exp # Never /\ (exp >= TTL \/ exp > MaxClock)
  <2>1. counter.n # 0 => Live(counter)
    BY <1>1, <1>4, LivesWhileTokenizing
  <2>2. counter.exp # Never => counter.exp >= TTL \/ counter.exp > MaxClock
    BY <1>4 DEF VaultInv, Lasting
  <2>3. Live(counter) => counter.exp # Never
    BY <1>2 DEF Live, VaultInv, StoreSound, Never
  <2> QED BY <1>2, <2>1, <2>2, <2>3, VaultAssumption DEF Never
<1> HIDE DEF n, exp
<1>5. p \in RequestType /\ p.tok = n /\ p.todo = req[r].todo /\ SameMaps(p, req[r])
  <2>1. req[r] \in RequestType
    BY <1>2 DEF RequestSound
  <2> QED BY <1>3, <2>1, TokChanges
<1> HIDE DEF p
<1>6. q \in RequestType /\ q.pc = "expire" /\ q.tok = n /\ q.todo = req[r].todo /\ SameMaps(q, p)
  <2>1. "expire" \in Steps
    BY DEF Steps
  <2> QED BY <1>5, <2>1, PcChanges
<1> HIDE DEF q
<1>7. RequestSound(q, issued) /\ q.sent = req[r].sent
  BY <1>1, <1>2, <1>3, <1>5, <1>6 DEF RequestSound, SameMaps, Holding, Spans
<1>8. counter' \in [n : Nat, exp : Nat] /\ counter'.n = n /\ counter'.exp = exp
  BY <1>1, <1>3
<1>9. q.pc # "winner" /\ q.pc \in Holding /\ q.tok = n
  BY <1>6 DEF Holding
<1>10. ~overran => /\ counter'.n >= counter.n
                   /\ counter'.exp # Never
                   /\ counter'.exp >= TTL \/ counter'.exp > MaxClock
                   /\ q.tok <= counter'.n
                   /\ q.tok > counter.n
  BY <1>2, <1>4, <1>8, <1>9
<1> QED BY <1>1, <1>7, <1>8, <1>9, <1>10, NumbersChange

LEMMA ExpireCounterSound ==
    ASSUME VaultInv, NEW r \in Requests, ExpireCounter(r)
    PROVE  VaultInv'
<1> DEFINE q == [req[r] EXCEPT !.pc = "claim"]
<1>1. /\ req' = [req EXCEPT ![r] = q]
      /\ counter' = IF Live(counter) THEN [counter EXCEPT !.exp = clock + TTL] ELSE counter
      /\ Tokenizing(r) /\ req[r].pc \in Holding /\ req[r].pc \in Spans
      /\ UNCHANGED <<clock, hash, vault, messages, ghosts>>
  BY DEF ExpireCounter, Tokenizing, Holding, Spans
<1>2. RequestSound(req[r], issued) /\ counter \in [n : Nat, exp : Nat] /\ clock \in Nat
  BY DEF VaultInv, StoreSound
<1>3. q \in RequestType /\ q.pc = "claim" /\ q.todo = req[r].todo /\ q.tok = req[r].tok
      /\ SameMaps(q, req[r])
  <2>1. req[r] \in RequestType /\ "claim" \in Steps
    BY <1>2 DEF RequestSound, Steps
  <2> QED BY <2>1, PcChanges
<1> HIDE DEF q
<1>4. RequestSound(q, issued) /\ q.sent = req[r].sent /\ q.pc # "winner"
  BY <1>1, <1>2, <1>3 DEF RequestSound, SameMaps
<1>5. /\ counter' \in [n : Nat, exp : Nat] /\ counter'.n = counter.n
      /\ counter'.exp = counter.exp \/ counter'.exp = clock + TTL
  BY <1>1, <1>2, VaultAssumption
<1>6. ASSUME ~overran
      PROVE  /\ counter'.n >= counter.n
             /\ counter'.n # 0 => counter'.exp # Never
             /\ counter'.exp # Never => counter'.exp >= TTL \/ counter'.exp > MaxClock
             /\ q.tok <= counter'.n
  <2>1. /\ counter.n # 0 => counter.exp # Never
        /\ counter.exp # Never => counter.exp >= TTL \/ counter.exp > MaxClock
        /\ req[r].tok <= counter.n
    BY <1>1, <1>6 DEF VaultInv, Lasting, Numbered
  <2> QED BY <1>2, <1>3, <1>5, <2>1, VaultAssumption DEF Never
<1> QED BY <1>1, <1>3, <1>4, <1>5, <1>6, NumbersChange

\* The map written holds what was read and the new tokens; if it was the map,
\* all that was ever sent.
LEMMA WriteMapSound ==
    ASSUME VaultInv, NEW r \in Requests, WriteMap(r)
    PROVE  VaultInv'
<1> DEFINE sent == Merge(req[r].sent, req[r].new)
           map == Merge(req[r].snap, req[r].new)
           p == [req[r] EXCEPT !.sent = sent]
           q == [p EXCEPT !.pc = "merged"]
<1>1. /\ req' = [req EXCEPT ![r] = q] /\ Tokenizing(r)
      /\ vault' = [map |-> map, exp |-> clock + TTL]
      /\ clobbered' = (clobbered \/ req[r].snap # Map)
      /\ UNCHANGED <<clock, hash, counter, issued, overran>>
  BY DEF WriteMap, Tokenizing, VaultInv
<1>2. RequestSound(req[r], issued) /\ StoreSound
  BY DEF VaultInv
<1>3. /\ req[r] \in RequestType /\ req[r].new \in TokenMap /\ req[r].snap \in TokenMap
      /\ req[r].sent \in TokenMap
      /\ Handed(req[r].new, issued) /\ Handed(req[r].snap, issued) /\ Handed(req[r].sent, issued)
  BY <1>2 DEF RequestSound, RequestType
<1>4. sent \in TokenMap /\ Handed(sent, issued) /\ DOMAIN sent = DOMAIN req[r].sent \cup DOMAIN req[r].new
  BY <1>3, MergeIsMap
<1>5. map \in TokenMap /\ Handed(map, issued) /\ DOMAIN map = DOMAIN req[r].snap \cup DOMAIN req[r].new
  BY <1>3, MergeIsMap
<1> HIDE DEF sent, map
<1>6. p \in RequestType /\ p.new = req[r].new /\ p.snap = req[r].snap /\ p.sent = sent
  BY <1>3, <1>4, SentChanges
<1> HIDE DEF p
<1>7. q \in RequestType /\ q.pc = "merged" /\ SameMaps(q, p)
  <2>1. "merged" \in Steps
    BY DEF Steps
  <2> QED BY <1>6, <2>1, PcChanges
<1> HIDE DEF q
<1>8. RequestSound(q, issued') /\ q.sent = sent
  BY <1>1, <1>3, <1>4, <1>6, <1>7 DEF RequestSound, SameMaps, Spans, Holding
<1>9. /\ DOMAIN req' = Requests /\ req'[r] = q
      /\ \A x \in Requests \ {r} : req'[x] = req[x]
      /\ \A x \in Requests : RequestSound(req'[x], issued')
  BY <1>1, <1>8, RequestsStaySound
<1>10. vault'.map = map /\ vault'.exp = clock + TTL /\ vault'.exp >= TTL /\ vault'.exp # Never
       /\ vault' \in [map : TokenMap, exp : Nat]
  BY <1>1, <1>2, <1>5, VaultAssumption DEF StoreSound, Never
<1>11. StoreSound'
  <2>1. clobbered' \in BOOLEAN
    BY <1>1
  <2> QED BY <1>1, <1>2, <1>5, <1>10, <2>1 DEF StoreSound
<1>12. ASSUME ~overran PROVE (Lasting /\ Numbered /\ Returned /\ Kept)'
  <2>1. Lasting /\ Numbered /\ Returned /\ Kept
    BY <1>12 DEF VaultInv
  <2>2. Lasting'
    <3>1. clock < TTL
      BY <1>1, <1>12, LivesWhileTokenizing
    <3> QED BY <1>1, <1>10, <2>1, <3>1 DEF Lasting, Claimed
  <2>3. \A x \in Requests : req'[x].pc \in Holding \cup {"winner"} => req'[x] = req[x]
    BY <1>7, <1>9 DEF Holding
  <2>4. Numbered'
    BY <1>1, <2>1, <2>3 DEF Numbered, Claimed
  <2>5. Returned'
    BY <1>1, <2>1, <2>3 DEF Returned, Claimed
  <2>6. Kept'
    <3>1. SUFFICES ASSUME ~clobbered'
                   PROVE  \A x \in Requests : DOMAIN req'[x].sent \subseteq DOMAIN vault'.map
      BY DEF Kept
    <3>2. ~clobbered /\ req[r].snap = Map
      BY <1>1, <3>1
    <3>3. Map = vault.map
      BY <1>1, <1>2, <1>12, LivesWhileTokenizing DEF Map, StoreSound
    <3>4. DOMAIN vault.map \subseteq DOMAIN map
      BY <1>5, <3>2, <3>3
    <3>5. \A x \in Requests : DOMAIN req[x].sent \subseteq DOMAIN vault.map
      BY <2>1, <3>2 DEF Kept
    <3> QED BY <1>4, <1>5, <1>8, <1>9, <1>10, <3>4, <3>5
  <2> QED BY <2>2, <2>4, <2>5, <2>6
<1> QED BY <1>1, <1>9, <1>11, <1>12 DEF VaultInv

\* Time passes: whoever still tokenizes when the session's configuration
\* expires has overrun.
LEMMA TickSound ==
    ASSUME VaultInv, Tick
    PROVE  VaultInv'
<1>1. /\ clock < MaxClock /\ clock' = clock + 1
      /\ UNCHANGED <<hash, counter, vault, req, messages, issued, clobbered>>
  BY DEF Tick
<1>2. overran' = (overran \/ (clock + 1 >= TTL /\ \E r \in Requests : Tokenizing(r)))
  BY DEF Tick
<1>3. StoreSound'
  <2>1. clock' \in Nat /\ clock' <= MaxClock
    BY <1>1, VaultAssumption DEF VaultInv, StoreSound
  <2>2. overran' \in BOOLEAN
    BY <1>2
  <2> QED BY <1>1, <2>1, <2>2 DEF VaultInv, StoreSound
<1>4. ASSUME ~overran' PROVE (Lasting /\ Numbered /\ Returned /\ Kept)'
  <2>1. /\ Lasting /\ Numbered /\ Returned /\ Kept
        /\ clock + 1 >= TTL => \A r \in Requests : ~Tokenizing(r)
    BY <1>2, <1>4 DEF VaultInv
  <2>2. clock' < TTL \/ clock' >= TTL
    BY <1>1, VaultAssumption DEF VaultInv, StoreSound
  <2>3. Lasting'
    BY <1>1, <2>1, <2>2 DEF Lasting, Claimed, Tokenizing
  <2>4. (Numbered /\ Returned /\ Kept)'
    BY <1>1, <2>1 DEF Numbered, Returned, Kept, Claimed
  <2> QED BY <2>3, <2>4
<1> QED BY <1>1, <1>3, <1>4 DEF VaultInv

-----------------------------------------------------------------------------
LEMMA NextSound == VaultInv /\ [Next]_vars => VaultInv'
<1> SUFFICES ASSUME VaultInv, [Next]_vars
             PROVE  VaultInv'
  OBVIOUS
<1>1. ASSUME NEW r \in Requests, NEW msg \in Messages, Begin(r, msg) \/ Another(r, msg)
      PROVE  VaultInv'
  BY <1>1, BeginSound, AnotherSound
<1>2. ASSUME NEW r \in Requests, Find(r) \/ Incr(r) \/ ExpireCounter(r)
      PROVE  VaultInv'
  BY <1>2, FindSound, IncrSound, ExpireCounterSound
<1>3. ASSUME NEW r \in Requests, Claim(r) \/ ReadWinner(r)
      PROVE  VaultInv'
  BY <1>3, ClaimSound, ReadWinnerSound
<1>4. ASSUME NEW r \in Requests, ReadMap(r) \/ WriteMap(r) \/ Send(r) \/ Finish(r)
      PROVE  VaultInv'
  BY <1>4, ReadMapSound, WriteMapSound, SendSound, FinishSound
<1>5. CASE Tick
  BY <1>5, TickSound
<1>6. CASE UNCHANGED vars
  <2>1. StoreSound' /\ (Lasting /\ Numbered /\ Returned /\ Kept <=> (Lasting /\ Numbered /\ Returned /\ Kept)')
    BY <1>6 DEF VaultInv, StoreSound, Lasting, Numbered, Returned, Kept, Claimed, Tokenizing, vars
  <2> QED BY <1>6, <2>1 DEF VaultInv, vars
<1> QED BY <1>1, <1>2, <1>3, <1>4, <1>5, <1>6 DEF Next

LEMMA VaultInvariant == Spec => []VaultInv
BY InitSound, NextSound, PTL DEF Spec

\* Type correctness, for any requests, values, messages and TTL.
THEOREM TypeCorrect == Spec => []TypeOK
<1>1. \A m \in TokenMap : IsMap(m)
  BY MapIsMap DEF IsMap
<1>2. VaultInv => TypeOK
  BY <1>1 DEF VaultInv, StoreSound, RequestSound, RequestType, Steps, TypeOK
<1> QED BY <1>2, VaultInvariant, PTL

\* Concurrent requests of a session, however many and however interleaved,
\* never mint two tokens for one value nor one token for two, as long as no
\* request was tokenizing when the session expired.
THEOREM TokensOneToOne == Spec => []TokensAreOneToOne
<1>1. VaultInv => TokensAreOneToOne
  <2> SUFFICES ASSUME VaultInv, ~overran, NEW p \in issued, NEW q \in issued
               PROVE  p.value = q.value <=> p.tok = q.tok
    BY DEF TokensAreOneToOne
  <2>1. p.value \in Values /\ q.value \in Values
    BY DEF VaultInv, StoreSound
  <2>2. /\ Claimed(p.value) /\ hash[p.value].tok = p.tok
        /\ Claimed(q.value) /\ hash[q.value].tok = q.tok
    BY DEF VaultInv, Returned
  <2> QED BY <2>1, <2>2 DEF VaultInv, Numbered
<1> QED BY <1>1, VaultInvariant, PTL

\* A lost update of the map never puts another value under a token that a
\* prompt carries.
THEOREM TokensNeverSwapped == Spec => []NeverSwapped
<1>1. VaultInv /\ TokensAreOneToOne => NeverSwapped
  <2> SUFFICES ASSUME VaultInv, TokensAreOneToOne, ~overran, NEW r \in Requests,
                      NEW t \in DOMAIN req[r].sent \cap DOMAIN Map
               PROVE  Map[t] = req[r].sent[t]
    BY DEF NeverSwapped
  <2> DEFINE p == [tok |-> t, value |-> Map[t]]
             q == [tok |-> t, value |-> req[r].sent[t]]
  <2>1. p \in issued
    BY MapSound DEF VaultInv, Handed
  <2>2. q \in issued
    BY DEF VaultInv, RequestSound, Handed
  <2>3. p.tok = q.tok /\ p.value = Map[t] /\ q.value = req[r].sent[t]
    OBVIOUS
  <2> HIDE DEF p, q
  <2>4. p.value = q.value
    BY <2>1, <2>2, <2>3 DEF TokensAreOneToOne
  <2> QED BY <2>3, <2>4
<1> QED BY <1>1, VaultInvariant, TokensOneToOne, PTL

\* If no merge of the map overwrote another, every token in a prompt is in
\* the vault until that expires, although requests fail half-way.
THEOREM SentTokensVaulted == Spec => []SentIsVaulted
<1>1. VaultInv => SentIsVaulted
  BY DEF VaultInv, Kept, SentIsVaulted, Map
<1> QED BY <1>1, VaultInvariant, PTL
=============================================================================
