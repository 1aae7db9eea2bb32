-------------------------- MODULE DetectorRegistry --------------------------
(***************************************************************************)
(* The open detectors and their aggregation (packages/finsafe-core): a     *)
(* registry runs the detectors of a phase on a text cut to a maximal       *)
(* length, each may throw, and the findings are aggregated to a level and  *)
(* a score.  A text is a sequence of items [mark, digits]: what a pattern  *)
(* of some detector matches in it, and for a card number its digits.       *)
(* Scores are in hundredths.                                               *)
(***************************************************************************)
EXTENDS Naturals, Sequences, FiniteSets, SequencesExt

CONSTANTS
    Detectors,      \* the registered detectors, in order: [finds, phases]
    Severity,       \* Severity[m]: the severity of the pattern of mark m
    MaxScanLength,  \* maxScanLength, in items
    Texts           \* the texts that are scanned

VARIABLES
    phase,          \* "input" or "output"
    ctxText,        \* the text of the context
    settled,        \* settled[i]: what detector i has come to, or "pending"
    assessment      \* the result of assessRisk, Unassessed before

detectorVars == <<phase, ctxText, settled, assessment>>

Score == [low |-> 40, medium |-> 60, high |-> 80, critical |-> 95]

Rank == [low |-> 1, medium |-> 2, high |-> 3, critical |-> 4]

ASSUME DetectorAssumption ==
    /\ Severity \in [DOMAIN Severity -> DOMAIN Rank]
    /\ Detectors \in Seq([finds : Seq(DOMAIN Severity), phases : SUBSET {"input", "output"}])

\* The places of the detectors that apply to the phase.
Applicable == {i \in 1..Len(Detectors) : phase \in Detectors[i].phases}

Scanned == SubSeq(ctxText, 1, IF Len(ctxText) > MaxScanLength THEN MaxScanLength ELSE Len(ctxText))

Unassessed == [level |-> "pending", score |-> 0, top |-> "none"]

DetectorInit ==
    /\ phase \in {"input", "output"}
    /\ ctxText \in Texts
    /\ settled = [i \in Applicable |-> "pending"]
    /\ assessment = Unassessed

\* No scan is under way.
DetectorIdle ==
    /\ phase = "input"
    /\ ctxText = <<>>
    /\ settled = <<>>
    /\ assessment = Unassessed
-----------------------------------------------------------------------------
\* luhnValid: from the right, every second digit doubled.
Weighted(d, double) ==
    IF ~double THEN d ELSE IF 2 * d > 9 THEN 2 * d - 9 ELSE 2 * d

LuhnValid(number) ==
    /\ Len(number) \in 13..19
    /\ FoldLeft(LAMBDA sum, i :
                    sum + Weighted(number[i], (Len(number) - i) % 2 = 1),
                0, [i \in 1..Len(number) |-> i]) % 10 = 0
-----------------------------------------------------------------------------
\* Whether the pattern of m matches: a card number must be a valid one.
Has(items, m) ==
    \E i \in 1..Len(items) :
        items[i].mark = m /\ (m = "card" => LuhnValid(items[i].digits))

Finding(m) == [category |-> m, severity |-> Severity[m], score |-> Score[Severity[m]]]

\* One finding for every pattern that matches, in the order of the patterns.
Findings(d) ==
    FlattenSeq([k \in 1..Len(d.finds) |->
        IF Has(Scanned, d.finds[k]) THEN <<Finding(d.finds[k])>> ELSE <<>>])

Settle(i) ==
    /\ settled[i] = "pending"
    /\ \E outcome \in {"fulfilled", "rejected"} :
          settled' = [settled EXCEPT ![i] = outcome]
    /\ UNCHANGED <<phase, ctxText, assessment>>

Failure == [category |-> "detector_error", severity |-> "critical", score |-> 100]

\* Mutant of Outcome: a detector that threw found nothing.
OutcomeOpen(i) ==
    IF i \notin Applicable \/ settled[i] = "rejected" THEN <<>> ELSE Findings(Detectors[i])

\* The findings of a detector, or the one that says it failed.
Outcome(i) ==
    IF i \notin Applicable THEN <<>>
    ELSE IF settled[i] = "rejected" THEN <<Failure>> ELSE Findings(Detectors[i])

\* scan, by the order of registration, not the order of completion.
AllFindings == FlattenSeq([i \in 1..Len(Detectors) |-> Outcome(i)])

\* assessRisk: the first of the worst, and the highest score.
AssessRisk(findings) ==
    IF findings = <<>> THEN [level |-> "none", score |-> 0, top |-> "none"]
    ELSE LET worst[i \in 1..Len(findings)] ==
                 IF i = 1 THEN findings[1]
                 ELSE IF Rank[findings[i].severity] > Rank[worst[i - 1].severity]
                      THEN findings[i] ELSE worst[i - 1]
             scores == {findings[i].score : i \in 1..Len(findings)}
         IN  [level |-> worst[Len(findings)].severity,
              top |-> worst[Len(findings)].category,
              score |-> CHOOSE s \in scores : \A t \in scores : t <= s]

Assess ==
    /\ assessment = Unassessed
    /\ \A i \in DOMAIN settled : settled[i] # "pending"
    /\ assessment' = AssessRisk(AllFindings)
    /\ UNCHANGED <<phase, ctxText, settled>>

DetectorNext == Assess \/ \E i \in DOMAIN settled : Settle(i)

DetectorSpec == DetectorInit /\ [][DetectorNext]_detectorVars
-----------------------------------------------------------------------------
\* What a detector of the phase looks for and the cut text has.
Present == {m \in DOMAIN Severity :
               /\ \E i \in Applicable : Contains(Detectors[i].finds, m)
               /\ Has(Scanned, m)}

\* The assessment is never milder than the worst pattern that matches in the
\* scanned part of the text, and critical as soon as one detector failed, in
\* whatever order they ended and whatever the others found.  What lies behind
\* the cut is not in it ("truncation is safe", registry.ts:39).
NothingMilder ==
    assessment # Unassessed =>
        /\ \A m \in Present :
              /\ assessment.level # "none"
              /\ Rank[Severity[m]] <= Rank[assessment.level]
              /\ Score[Severity[m]] <= assessment.score
        /\ (\E i \in DOMAIN settled : settled[i] = "rejected")
              => assessment.level = "critical" /\ assessment.score = 100
=============================================================================
