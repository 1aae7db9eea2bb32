----------------------------- MODULE Redaction -----------------------------
(***************************************************************************)
(* What happens to a message: the spans the analyser reports are thinned   *)
(* out and replaced by tokens (tokenizer.py), the model answers, and the   *)
(* tokens a role may see are restored (detokenizer.py, rbac.py).  A        *)
(* message is a sequence of symbols: characters, and tokens, which a user  *)
(* may type as well.  A token is <<type, number>>: the short codes of      *)
(* types are distinct.  What the analyser finds is free: the recognizers   *)
(* and the language model are not in the repository's code.                *)
(***************************************************************************)
EXTENDS Naturals, Sequences, FiniteSets, SequencesExt

CONSTANTS
    Characters,     \* what a message is made of, besides tokens
    Messages,       \* sequences of symbols
    Types,          \* entity types
    MaxScore,       \* scores of spans are 1..MaxScore
    MaxSpans,       \* bound on the spans of a message
    TokenMaps,      \* token maps a session may have: sequences of [token, value]
    Roles           \* ROLE_PERMISSIONS: the sets of types that roles may see

VARIABLES
    message,
    results,        \* what the analyser has reported
    spans,          \* the spans still to be replaced
    tokenized,      \* the message so far
    tokenMap,       \* the session's token map, in the order of insertion
    role,           \* what the caller may see
    answer,         \* the model's answer, NoMessage before
    shown           \* the answer as the caller gets it, NoMessage before

redactionVars == <<message, results, spans, tokenized, tokenMap, role, answer, shown>>

NoMessage == <<<<"none", 0>>>>

Symbols == Characters \cup (Types \X Nat)

Entries == [token : Types \X Nat, value : Seq(Symbols)]

Numbers(map, type) == {v.token[2] : v \in {w \in ToSet(map) : w.token[1] = type}}

\* A token map as the store mints it: a value of a type has one token, a token
\* one value.  Numbers may be missing ("a harmless gap", redis_store.py:120).
Minted(map) ==
    \A v, w \in ToSet(map) :
        v.token = w.token <=> v.token[1] = w.token[1] /\ v.value = w.value

ASSUME RedactionAssumption ==
    /\ {MaxScore, MaxSpans} \subseteq Nat
    /\ Messages \subseteq Seq(Symbols)
    /\ TokenMaps \subseteq Seq(Entries)
    /\ \A map \in TokenMaps : Minted(map)

\* A span of the message: symbols first to last.
Spans(t) ==
    {r \in [type : Types, first : 1..Len(t), last : 1..Len(t), score : 1..MaxScore] :
        r.first <= r.last}

Covers(r, p) == p \in r.first..r.last

Overlap(r, q) == r.first <= q.last /\ q.first <= r.last

Inside(r, q) == q.first <= r.first /\ r.last <= q.last

\* The analyser drops a span inside another one of its type and at least its
\* score.
Reported(t) ==
    {rs \in UNION {[1..n -> Spans(t)] : n \in 0..MaxSpans} :
        \A i, j \in DOMAIN rs :
            i # j => ~(/\ Inside(rs[i], rs[j])
                       /\ rs[i].type = rs[j].type
                       /\ rs[i].score <= rs[j].score)}

RedactionInit ==
    /\ message \in Messages
    /\ results = <<>>
    /\ tokenMap \in TokenMaps
    /\ role \in Roles
    /\ spans = {}
    /\ tokenized = NoMessage
    /\ answer = NoMessage
    /\ shown = NoMessage

\* No message at all, when it is another part's turn.
RedactionIdle ==
    /\ message = NoMessage /\ results = <<>> /\ tokenMap = <<>> /\ role = {}
    /\ spans = {} /\ tokenized = NoMessage /\ answer = NoMessage /\ shown = NoMessage
-----------------------------------------------------------------------------
\* Mutant of ByScore: as the analyser has reported them.
ByPlace(rs) == rs

\* By score, the highest first; equal scores stay in the analyser's order.
ByScore(rs) ==
    FlattenSeq([k \in 1..MaxScore |->
        FlattenSeq([i \in 1..Len(rs) |->
            IF rs[i].score = MaxScore + 1 - k THEN <<rs[i]>> ELSE <<>>])])

\* analyze_spans: of two spans that overlap the first stays.
Deduped(rs) ==
    LET sorted == ByScore(rs)
        kept[i \in 0..Len(sorted)] ==
            IF i = 0 THEN {}
            ELSE IF \E q \in kept[i - 1] : Overlap(sorted[i], q) THEN kept[i - 1]
            ELSE kept[i - 1] \cup {sorted[i]}
    IN  kept[Len(sorted)]

\* Mutant of NextSpan: from the left.
NextSpanLeft == CHOOSE r \in spans : \A q \in spans : r.first <= q.first

\* The spans are replaced from the right.
NextSpan == CHOOSE r \in spans : \A q \in spans : q.first <= r.first

Analyze ==
    /\ tokenized = NoMessage
    /\ \E rs \in Reported(message) : results' = rs /\ spans' = Deduped(rs)
    /\ tokenized' = message
    /\ UNCHANGED <<message, tokenMap, role, answer, shown>>

Covered(r) == SubSeq(message, r.first, r.last)

\* The number that follows those given to a type.
NextNumber(map, type) ==
    LET given == Numbers(map, type)
    IN  CHOOSE n \in {m + 1 : m \in given \cup {0}} : \A m \in given : m < n

\* A value keeps the token it has; a new one takes the next number of its type.
TokenFor(type, value) ==
    LET known == {v \in ToSet(tokenMap) : v.token[1] = type /\ v.value = value}
    IN  IF known # {} THEN (CHOOSE v \in known : TRUE).token
        ELSE <<type, NextNumber(tokenMap, type)>>

Cut(s, first, last, symbol) ==
    SubSeq(s, 1, first - 1) \o <<symbol>> \o SubSeq(s, last + 1, Len(s))

Replace ==
    /\ spans # {}
    /\ LET r == NextSpan
           token == TokenFor(r.type, Covered(r))
           entry == [token |-> token, value |-> Covered(r)]
       IN  /\ tokenized' = Cut(tokenized, r.first, r.last, token)
           /\ tokenMap' = IF Contains(tokenMap, entry) THEN tokenMap ELSE Append(tokenMap, entry)
           /\ spans' = spans \ {r}
    /\ UNCHANGED <<message, results, role, answer, shown>>

\* All that was found is replaced.
Sent == tokenized # NoMessage /\ spans = {}

\* The model repeats what it was sent, once or twice.
Answer ==
    /\ Sent /\ answer = NoMessage
    /\ answer' \in {tokenized, tokenized \o tokenized}
    /\ UNCHANGED <<message, results, spans, tokenized, tokenMap, role, shown>>

Substituted(s, token, value) ==
    FlattenSeq([i \in 1..Len(s) |-> IF s[i] = token THEN value ELSE <<s[i]>>])

\* run_detokenize: one token after the other, in the map's order.
ForRole(s) ==
    LET restored[i \in 0..Len(tokenMap)] ==
            IF i = 0 THEN s
            ELSE IF tokenMap[i].token[1] \in role
                 THEN Substituted(restored[i - 1], tokenMap[i].token, tokenMap[i].value)
            ELSE restored[i - 1]
    IN  restored[Len(tokenMap)]

Detokenize ==
    /\ answer # NoMessage /\ shown = NoMessage
    /\ shown' = ForRole(answer)
    /\ UNCHANGED <<message, results, spans, tokenized, tokenMap, role, answer>>

RedactionNext == Analyze \/ Replace \/ Answer \/ Detokenize

RedactionSpec == RedactionInit /\ [][RedactionNext]_redactionVars
-----------------------------------------------------------------------------
\* The spans that are replaced.
KeptSpans == Deduped(results)

TokenOf(r) == (CHOOSE v \in ToSet(tokenMap) : v.token[1] = r.type /\ v.value = Covered(r)).token

\* The message as a role should read it, symbol by symbol: at the first symbol
\* of a kept span what it covers or its token, a token that was typed as the
\* session knows it, everything else as it stands.
ReadAt(p) ==
    IF \E r \in KeptSpans : Covers(r, p)
    THEN LET r == CHOOSE q \in KeptSpans : Covers(q, p) IN
         IF p # r.first THEN <<>>
         ELSE IF r.type \in role THEN Covered(r) ELSE <<TokenOf(r)>>
    ELSE IF \E v \in ToSet(tokenMap) : v.token = message[p] /\ v.token[1] \in role
         THEN (CHOOSE v \in ToSet(tokenMap) : v.token = message[p]).value
         ELSE <<message[p]>>

AsRead == FlattenSeq([p \in 1..Len(message) |-> ReadAt(p)])

\* The user has typed a token inside of something that was found: what is
\* restored may then be restored once more.
Nested == \E v \in ToSet(tokenMap) : \E i \in 1..Len(v.value) : v.value[i] \in Types \X Nat

\* An answer that repeats the message reads as the message does to the role:
\* spans of the types it may see are back in their places, whatever was
\* found, overlaps or was minted before, and every other span is its token.
ReadsAsWritten ==
    shown # NoMessage /\ ~Nested =>
        shown \in {AsRead, AsRead \o AsRead} /\ (answer = tokenized => shown = AsRead)

\* A symbol that was found and is sent in clear belongs to a span that was
\* outbid by one it overlaps, never to the highest bid.
ClearOnlyIfOutbid ==
    Sent => \A r \in ToSet(results), p \in 1..Len(message) :
        Covers(r, p) /\ (\A q \in KeptSpans : ~Covers(q, p))
            => \E q \in KeptSpans : Overlap(q, r) /\ q.score >= r.score
=============================================================================
