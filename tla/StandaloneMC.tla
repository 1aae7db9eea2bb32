---------------------------- MODULE StandaloneMC ----------------------------
\* Small instances of the standalone parts.
EXTENDS Standalone

CONSTANTS v1, v2, i1, i2, t1, alice, eve, s1, q1

\* The callers of the chat are interchangeable.
Symmetry == Permutations({alice, eve})

BehindMC == [v \in {v1, v2} |-> "unknown"]

W(value, kind, spelling) ==
    [value |-> value, kind |-> kind, spelling |-> spelling,
     token |-> IF kind = "token" THEN <<"PERSON", 1>> ELSE <<>>]

WordsMC ==
    {W("jane", "title", "Jane"), W("new", "title", "New"), W("york", "title", "York"),
     W("a@b", "format", "a@b"), W("a@b", "format", "A@b"),
     W("lee@b", "titledMail", "Lee@b"), W("{{person_1}}", "token", "{{PERSON_1}}")}

NonNamesMC == {<<"new", "york">>}

LettersMC == {"a", ",", "q", "nl", " "}

\* Cells: empty, a letter, a comma, a quote, a quote before a comma, a newline,
\* a space.
CellsMC == {<<>>, <<"a">>, <<",">>, <<"q">>, <<"q", ",">>, <<"a", "nl">>, <<" ", "a">>}

TablesMC ==
    {<<>>, <<<<<<"q", ",">>>>, <<<<"a">>>>>>,
     <<<<<<"a">>, <<",">>>>, <<<<"a">>>>, <<<<"a">>, <<"q">>, <<>>>>>>}
        \cup {<<<<h>>, <<c>>, <<<<"a">>>>>> : h \in {<<>>, <<"a">>}, c \in CellsMC}
        \cup {<<<<<<"a">>, <<"a">>>>, <<c, d>>>> : c, d \in CellsMC}

\* The three reference detectors, with some of their patterns.
SeverityMC ==
    [override |-> "high", reassign |-> "medium", jailbreak |-> "low",
     ssn |-> "critical", card |-> "high", email |-> "medium"]

DetectorsMC ==
    <<[finds |-> <<"override", "reassign">>, phases |-> {"input"}],
      [finds |-> <<"jailbreak">>, phases |-> {"input"}],
      [finds |-> <<"ssn", "card", "email">>, phases |-> {"input", "output"}]>>

CardsMC ==
    {<<4,1,1,1, 1,1,1,1, 1,1,1,1, 1,1,1,1>>, <<5,5,0,9, 0,0,0,0, 9,0,0,0, 0,0,0,4>>,
     <<4,2,2,2, 2,2,2,2, 2,2,2,2, 2>>, <<4,1,1,1, 1,1,1,1, 1,1,1,1, 1,1,1,2>>}

MarksMC ==
    {[mark |-> m, digits |-> <<>>] : m \in {"override", "reassign", "jailbreak", "ssn"}}

CardItemsMC == {[mark |-> "card", digits |-> c] : c \in CardsMC}

TextsMC ==
    (UNION {[1..n -> MarksMC] : n \in 0..3})
        \cup {<<c>> : c \in CardItemsMC} \cup {<<m, c>> : m \in MarksMC, c \in CardItemsMC}

\* A character is a pair as a token is, of no entity type.
a == <<"char", 1>>
b == <<"char", 2>>
person2 == <<"person", 2>>

CharactersMC == {a, b}

TypesMC == {"person", "ssn"}

\* A character that repeats, and a token that was typed.
MessagesMC == {<<a, b, a>>, <<a, person2, b>>}

\* A new session, and one that knows a person but has lost the first.
TokenMapsMC == {<<>>, <<[token |-> person2, value |-> <<a>>]>>}

\* A role that sees some types and one that sees all.
RolesMC == {{"person"}, {"person", "ssn"}}
=============================================================================
