------------------------------ MODULE AuditLoss -----------------------------
(***************************************************************************)
(* What the verifiers say of an audit log that has lost entries: Redis is  *)
(* not write-once, so an entry, the tail of a day or a whole day can be    *)
(* deleted there by an operator's hand (audit_store.py:3-5).  Nothing that *)
(* needs the HMAC key happens.                                             *)
(***************************************************************************)
EXTENDS AuditChain

CONSTANT MaxLosses          \* bound: deletions

ASSUME LossesAssumption == MaxLosses \in Nat

VARIABLES
    lost,           \* the hashes of the entries deleted, one by one or by days
    lostDays,       \* the days deleted with all their keys
    losses

lossVars == <<vars, lost, lostDays, losses>>

LossInit ==
    /\ Init
    /\ lost = {}
    /\ lostDays = {}
    /\ losses = 0

Hashes(log) == {log[i].hash : i \in 1..Len(log)}

\* The i-th entry of a day's list is gone.
LoseEntry(d, i) ==
    /\ losses < MaxLosses
    /\ losses' = losses + 1
    /\ lost' = lost \cup {dayLog[d][i].hash}
    /\ dayLog' = [dayLog EXCEPT
          ![d] = SubSeq(@, 1, i - 1) \o SubSeq(@, i + 1, Len(@))]
    /\ UNCHANGED <<today, tip, gseq, daySeq, dayMark, dayGenesis, rows, call,
                   started, ghosts, lostDays>>

\* Every key of a day is gone, as if the day had expired.
LoseDay(d) ==
    /\ losses < MaxLosses
    /\ dayMark[d] # Absent
    /\ losses' = losses + 1
    /\ lostDays' = lostDays \cup {d}
    /\ lost' = lost \cup Hashes(dayLog[d])
    /\ dayLog' = [dayLog EXCEPT ![d] = <<>>]
    /\ daySeq' = [daySeq EXCEPT ![d] = 0]
    /\ dayMark' = [dayMark EXCEPT ![d] = Absent]
    /\ dayGenesis' = [dayGenesis EXCEPT ![d] = Absent]
    /\ UNCHANGED <<today, tip, gseq, rows, call, started, ghosts>>

LossNext ==
    \/ \E d \in Days : LoseDay(d) \/ \E i \in 1..Len(dayLog[d]) : LoseEntry(d, i)
    \/ Next /\ UNCHANGED <<lost, lostDays, losses>>

LossSpec == LossInit /\ [][LossNext]_lossVars

-----------------------------------------------------------------------------
\* While calls take turns, a day that lost an entry never verifies again as
\* long as its keys live: not after more entries, and not after further
\* deletions (audit.py:131-136, the watermark).
LossShows ==
    incidents \cap {"overlap"} = {} =>
        \A i \in 1..Len(history) :
            LET h == history[i] IN
            /\ h.hash \in lost
            /\ dayMark[h.day] # Absent
            /\ h.day \notin lostDays
            => ~DayVerifies(h.day)

\* Redis can lose everything: after a deletion, of entries or of whole days, an
\* anchor still holds every entry in order, links included, so the deleted ones
\* can be named from it.
AnchorsOutliveRedis ==
    /\ losses > 0
    /\ incidents \cap {"overlap", "gapGseq"} = {}
    /\ \A w \in Writers : call[w].pc # "mirror"
    => \A a \in Anchors \ missing :
          /\ VerifyRows(rows[a])
          /\ lost \subseteq {r.hash : r \in rows[a]}

\* audit.py:140-142 "deleting a whole day breaks the next day's link": when a
\* day is gone, the next day that has entries does not verify.
DayLossBreaksNext ==
    \A d \in lostDays, n \in Days :
        /\ dayLog[d] = <<>> /\ dayLog[n] # <<>> /\ n > d
        /\ \E i \in 1..Len(history) : history[i].day = d
        => ~DayVerifies(n)
=============================================================================
