-------------------------- MODULE BrowserTokenizer --------------------------
(***************************************************************************)
(* The tokenizer that runs in the browser (lib/tokenizer.ts) and its page  *)
(* (app/tokenize/page.tsx).  A text is a sequence of words.  What the      *)
(* regular expressions see of a word is its kind: a capitalised word that  *)
(* may be part of a name ("title"), a value with a format of its own (an   *)
(* SSN, a mail address, ...), a mail address that begins with a            *)
(* capitalised word ("titledMail"), a word that reads like a token, or     *)
(* none of these.  Two spellings of a value that differ in the case of     *)
(* their letters are two words with one value.                             *)
(***************************************************************************)
EXTENDS Naturals, Sequences, FiniteSets, SequencesExt

CONSTANTS
    Words,          \* records [value, kind, spelling, token]
    NonNames,       \* pairs of values that a NON_NAMES phrase starts with
    MaxWords        \* words tokenized between two resets

ASSUME WordsAssumption ==
    /\ \A w \in Words :
          /\ w.kind \in {"title", "format", "titledMail", "token", "plain"}
          /\ w.kind # "token" => w.token \notin {"PERSON", "FORMAT"} \X Nat
    /\ MaxWords \in Nat

VARIABLES
    vault,          \* VaultState
    result,         \* what the page shows, [original, tokenized, entities]
    outputs,        \* every result since the last reset (not in the code)
    typed           \* words tokenized since then (not in the code)

tokenizerVars == <<vault, result, outputs, typed>>

\* createVault: originals by token, tokens by key, counters by type.
EmptyVault == [orig |-> <<>>, token |-> <<>>, count |-> [t \in {"PERSON", "FORMAT"} |-> 0]]

NoResult == [original |-> <<>>, tokenized |-> <<>>, entities |-> {}]

TokenizerInit ==
    /\ vault = EmptyVault
    /\ result = NoResult
    /\ outputs = {}
    /\ typed = 0
-----------------------------------------------------------------------------
\* A mail address ends a run of capitalised words; nothing after its first
\* letters belongs to the run.
Titled(text, i) == i \in 1..Len(text) /\ text[i].kind \in {"title", "titledMail"}

NameGoesOn(text, i) == i \in 1..Len(text) /\ text[i].kind = "title" /\ Titled(text, i + 1)

Claimed(text, i) == text[i].kind \in {"format", "titledMail"}

\* Mutant of NameAt: the shortest run.
NameAtLazy(text, i) == IF NameGoesOn(text, i) THEN 2 ELSE 0

\* The PERSON pattern at i: the longest run of two to four capitalised words.
NameAt(text, i) ==
    LET runs == {n \in 2..4 : \A k \in 0..(n-2) : NameGoesOn(text, i + k)} IN
    IF runs = {} THEN 0 ELSE CHOOSE n \in runs : \A m \in runs : m <= n

\* The matches of the pattern, left to right and without overlap: a match
\* that is dropped later has consumed its words all the same.
Candidates(text) ==
    LET from[i \in 1..(Len(text) + 1)] ==
            IF i > Len(text) THEN {}
            ELSE IF NameAt(text, i) = 0 THEN from[i + 1]
            ELSE {[type |-> "PERSON", start |-> i, len |-> NameAt(text, i)]}
                 \cup from[i + NameAt(text, i)]
    IN  from[1]

\* Dropped: a match that touches a value with a format, or that starts with
\* a phrase that is not a name.
Overlaps(text, m) == \E i \in m.start .. (m.start + m.len - 1) : Claimed(text, i)

StartsNonName(text, m) ==
    <<text[m.start].value, text[m.start + 1].value>> \in NonNames

Persons(text) ==
    {m \in Candidates(text) : ~Overlaps(text, m) /\ ~StartsNonName(text, m)}

Formats(text) ==
    {[type |-> "FORMAT", start |-> i, len |-> 1] :
        i \in {j \in 1..Len(text) : Claimed(text, j)}}

\* rawMatches: no two of them have a word in common.
Matches(text) == Persons(text) \cup Formats(text)
-----------------------------------------------------------------------------
Original(text, m) == SubSeq(text, m.start, m.start + m.len - 1)

\* original.toLowerCase()
Lower(words) == [i \in 1..Len(words) |-> words[i].value]

\* Mutant of Key: the case of the letters counts.
KeyAsSpelt(type, words) == <<type, words>>

Key(type, words) == <<type, Lower(words)>>

\* { ...table, [key]: value }
Having(table, key, value) ==
    [k \in DOMAIN table \cup {key} |-> IF k = key THEN value ELSE table[k]]

\* Mutant of AssignToken: the counter is not moved on.
AssignTokenNoCount(v, type, words) ==
    LET key == Key(type, words)
        token == <<type, v.count[type] + 1>>
    IN  IF key \in DOMAIN v.token THEN v
        ELSE [orig |-> Having(v.orig, token, words),
              token |-> Having(v.token, key, token),
              count |-> v.count]

\* assignToken
AssignToken(v, type, words) ==
    LET key == Key(type, words)
        token == <<type, v.count[type] + 1>>
    IN  IF key \in DOMAIN v.token THEN v
        ELSE [orig |-> Having(v.orig, token, words),
              token |-> Having(v.token, key, token),
              count |-> [v.count EXCEPT ![type] = @ + 1]]

\* From left to right, one match after the other.
Assign(v, text) ==
    LET ms == Matches(text)
        upTo[i \in 0..Len(text)] ==
            IF i = 0 THEN v
            ELSE IF \A m \in ms : m.start # i THEN upTo[i - 1]
            ELSE LET m == CHOOSE x \in ms : x.start = i IN
                 AssignToken(upTo[i - 1], m.type, Original(text, m))
    IN  upTo[Len(text)]

TokenIn(v, text, m) == v.token[Key(m.type, Original(text, m))]

\* The text with a token for every match.  A piece of a tokenized text is a
\* word or a token.
Pieces(v, text) ==
    LET ms == Matches(text)
        from[i \in 1..(Len(text) + 1)] ==
            IF i > Len(text) THEN <<>>
            ELSE IF \A m \in ms : m.start # i THEN <<[word |-> text[i]]>> \o from[i + 1]
            ELSE LET m == CHOOSE x \in ms : x.start = i IN
                 <<[token |-> TokenIn(v, text, m)]>> \o from[i + m.len]
    IN  from[1]

Tokenized(v, text) ==
    [original |-> text, tokenized |-> Pieces(v, text),
     entities |-> {[type |-> m.type, start |-> m.start, len |-> m.len,
                    token |-> TokenIn(v, text, m)] : m \in Matches(text)}]

\* detokenize: a token of the vault is replaced wherever it stands, also
\* where the user has typed it.
Restored(v, piece) ==
    LET token == IF "word" \in DOMAIN piece THEN piece.word.token ELSE piece.token IN
    IF token \in DOMAIN v.orig THEN v.orig[token] ELSE <<piece.word>>

Detokenized(v, pieces) ==
    FlattenSeq([i \in 1..Len(pieces) |-> Restored(v, pieces[i])])

\* handleTokenize: the vault goes on from one text to the next.
Tokenize(text) ==
    LET v == Assign(vault, text) IN
    /\ vault' = v
    /\ result' = Tokenized(v, text)
    /\ outputs' = outputs \cup {Tokenized(v, text)}
    /\ typed' = typed + Len(text)

\* handleReset
Reset ==
    /\ vault' = EmptyVault
    /\ result' = NoResult
    /\ outputs' = {}
    /\ typed' = 0

TokenizerNext ==
    \/ \E n \in 1..(MaxWords - typed) : \E text \in [1..n -> Words] : Tokenize(text)
    \/ Reset

TokenizerSpec == TokenizerInit /\ [][TokenizerNext]_tokenizerVars
-----------------------------------------------------------------------------
\* "Same PII -> same token, always" (app/tokenize/page.tsx:176), and no token
\* for two values: every text of the session so far can still be restored
\* from the vault, up to the case of its letters, whatever came after it,
\* unless the user typed a token in it.
RoundTrip ==
    \A r \in outputs :
        \/ \E i \in 1..Len(r.original) : r.original[i].kind = "token"
        \/ Lower(Detokenized(vault, r.tokenized)) = Lower(r.original)

\* The table of a result's entities, each with its value and its token.
EntityRows(r) ==
    {[type |-> m.type, value |-> Lower(Original(r.original, m)), token |-> m.token] :
        m \in r.entities}

\* Two rows of the tables of a session have one token exactly when they have
\* one type and one value.
SameValueSameToken ==
    LET rows == UNION {EntityRows(r) : r \in outputs} IN
    \A e1, e2 \in rows :
        e1.token = e2.token <=> e1.type = e2.type /\ e1.value = e2.value

\* Capitalised words that stand beside one another and stay readable.
LeftInClear(r) ==
    {i \in 1..Len(r.original) :
        /\ r.original[i].kind = "title"
        /\ NameGoesOn(r.original, i) \/ NameGoesOn(r.original, i - 1)
        /\ \A m \in r.entities : i \notin m.start .. (m.start + m.len - 1)}

\* The run of capitalised words that i is in.
RunOf(text, i) ==
    {j \in 1..Len(text) :
        \A k \in (IF i < j THEN i..(j-1) ELSE j..(i-1)) : NameGoesOn(text, k)}

\* A capitalised word beside another is replaced unless their run is longer
\* than four words, starts with a phrase that is not a name, or ends in a
\* mail address; "zero raw PII exposed" (app/tokenize/page.tsx:276) is not
\* true of these.
NamesAreTokens ==
    \A r \in outputs : \A i \in LeftInClear(r) :
        LET text == r.original
            run == RunOf(text, i)
            first == CHOOSE j \in run : \A k \in run : j <= k
        IN  \/ Cardinality(run) > 4
            \/ \E j \in run : Claimed(text, j)
            \/ <<text[first].value, text[first + 1].value>> \in NonNames
=============================================================================
