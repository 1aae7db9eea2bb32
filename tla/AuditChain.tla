----------------------------- MODULE AuditChain -----------------------------
(***************************************************************************)
(* The hash-chained audit log of one tenant: AuditLogger.log_event of      *)
(* gateway/audit.py writing to Redis, and its fan-out to the append-only   *)
(* anchors (audit_store.py, audit_anchor.py).                              *)
(*                                                                         *)
(* Every Redis key of log_event carries the tenant, so tenants share no    *)
(* state and one tenant is the whole story.  A call of log_event is a      *)
(* coroutine: each await is a point where calls of this instance, or of    *)
(* another gateway instance on the same Redis, run.  One action is one     *)
(* round trip; the MULTI/EXEC pipeline is one action.                      *)
(*                                                                         *)
(* The entry of the n-th call is named by n: its body holds a fresh uuid   *)
(* and the HMAC is taken to be injective, so the name stands for the body  *)
(* and for entry_hash, and 0 for GENESIS_SENTINEL.                         *)
(***************************************************************************)
EXTENDS Integers, Sequences, FiniteSets

CONSTANTS
    Writers,        \* calls of log_event that can be in flight at once
    Anchors,        \* the durable stores behind AuditLogger.durable
    Absent,         \* Redis nil
    MaxDay,         \* bound: UTC days
    MaxEvents,      \* bound: calls of log_event
    MaxFaults,      \* bound: calls cut short and anchor writes that fail
    RetentionDays   \* ttl_days

ASSUME BoundsAssumption ==
    /\ MaxDay \in Nat \ {0}
    /\ MaxEvents \in Nat
    /\ MaxFaults \in Nat
    /\ RetentionDays \in Nat \ {0}

ASSUME AbsentAssumption ==
    /\ Absent \notin Nat
    /\ Absent \notin [seq : Nat, hash : Nat]

VARIABLES
    \* --- the clock and Redis ---
    today,          \* the UTC date
    tip,            \* audit:{tenant}:chain_tip, 0 when absent
    gseq,           \* audit:{tenant}:gseq
    dayLog,         \* {day_key}, a list of entries
    daySeq,         \* {day_key}:seq
    dayMark,        \* {day_key}:watermark, what it signs
    dayGenesis,     \* {day_key}:genesis
    \* --- the anchors ---
    rows,           \* rows[a]: the records anchor a holds
    \* --- the coroutines ---
    call,           \* call[w]: locals of log_event and its next round trip
    started,        \* calls started so far
    \* --- what happened, for the properties only ---
    history,        \* the entries in the order their pipelines ran
    incidents,      \* what could excuse a chain that does not verify
    missing,        \* anchors that missed a write
    faults

redis == <<tip, gseq, dayLog, daySeq, dayMark, dayGenesis>>
dayKeys == <<dayLog, daySeq, dayMark, dayGenesis>>
ghosts == <<history, incidents, missing, faults>>
vars == <<today, redis, rows, call, started, ghosts>>

-----------------------------------------------------------------------------
Days == 1..MaxDay
Genesis == 0
Incidents == {"overlap", "gapSeq", "gapGseq"}

Entry == [hash : Nat, prev : Nat]
Row == [seq : Nat, hash : Nat, prev : Nat]
Logged == [hash : Nat, prev : Nat, gseq : Nat, day : Days]

(* call[w].pc names the step the call takes next.  From its first line to  *)
(* its pipeline it stands on values it has read: the window.               *)
Window == {"tip", "gseq", "seq", "genesis", "exec"}
Stages == {"idle", "mirror"} \cup Window
Call == [pc : Stages, day : Days, prev : Nat, id : Nat, gseq : Nat,
         seq : Nat, first : BOOLEAN]

Idle == [pc |-> "idle", day |-> 1, prev |-> 0, id |-> 0, gseq |-> 0,
         seq |-> 0, first |-> FALSE]

InWindow(w) == call[w].pc \in Window

Init ==
    /\ today = 1
    /\ tip = Genesis
    /\ gseq = 0
    /\ dayLog = [d \in Days |-> <<>>]
    /\ daySeq = [d \in Days |-> 0]
    /\ dayMark = [d \in Days |-> Absent]
    /\ dayGenesis = [d \in Days |-> Absent]
    /\ rows = [a \in Anchors |-> {}]
    /\ call = [w \in Writers |-> Idle]
    /\ started = 0
    /\ history = <<>>
    /\ incidents = {}
    /\ missing = {}
    /\ faults = 0

-----------------------------------------------------------------------------
(* log_event, one action per await.                                        *)

\* The day key is computed before the first await, so it is the date of the
\* start of the call, whatever the date when its entry is written.
Start(w) ==
    /\ call[w].pc = "idle"
    /\ started < MaxEvents
    /\ started' = started + 1
    /\ call' = [call EXCEPT ![w] = [Idle EXCEPT !.pc = "tip", !.day = today,
                                                !.id = started + 1]]
    /\ incidents' = IF \E v \in Writers : InWindow(v)
                    THEN incidents \cup {"overlap"} ELSE incidents
    /\ UNCHANGED <<today, redis, rows, history, missing, faults>>

\* Mutants of ReadTip: each day starts a chain of its own; the tip is
\* remembered by the process.
ReadTipPerDay(w) ==
    LET log == dayLog[call[w].day] IN
    /\ call[w].pc = "tip"
    /\ call' = [call EXCEPT
          ![w].prev = IF log = <<>> THEN Genesis ELSE log[Len(log)].hash,
          ![w].pc = "gseq"]
    /\ UNCHANGED <<today, redis, rows, started, ghosts>>

ReadTipCached(w) ==
    /\ call[w].pc = "tip"
    /\ call' = [call EXCEPT
          ![w].prev = IF history = <<>> THEN Genesis
                      ELSE history[Len(history)].hash,
          ![w].pc = "gseq"]
    /\ UNCHANGED <<today, redis, rows, started, ghosts>>

\* _get_prev_hash, then the body and its HMAC.
ReadTip(w) ==
    /\ call[w].pc = "tip"
    /\ call' = [call EXCEPT ![w].prev = tip, ![w].pc = "gseq"]
    /\ UNCHANGED <<today, redis, rows, started, ghosts>>

IncrGseq(w) ==
    /\ call[w].pc = "gseq"
    /\ gseq' = gseq + 1
    /\ call' = [call EXCEPT ![w].gseq = gseq + 1, ![w].pc = "seq"]
    /\ UNCHANGED <<today, tip, dayKeys, rows, started, ghosts>>

IncrSeq(w) ==
    LET d == call[w].day IN
    /\ call[w].pc = "seq"
    /\ daySeq' = [daySeq EXCEPT ![d] = @ + 1]
    /\ call' = [call EXCEPT ![w].seq = daySeq[d] + 1, ![w].pc = "genesis"]
    /\ UNCHANGED <<today, tip, gseq, dayLog, dayMark, dayGenesis, rows,
                   started, ghosts>>

ReadGenesis(w) ==
    /\ call[w].pc = "genesis"
    /\ call' = [call EXCEPT ![w].first = (dayGenesis[call[w].day] = Absent),
                            ![w].pc = "exec"]
    /\ UNCHANGED <<today, redis, rows, started, ghosts>>

\* Mutant of Exec: the day's genesis is not recorded.
ExecNoGenesis(w) ==
    LET c == call[w] IN
    /\ c.pc = "exec"
    /\ dayLog' = [dayLog EXCEPT ![c.day] =
                     Append(@, [hash |-> c.id, prev |-> c.prev])]
    /\ dayMark' = [dayMark EXCEPT ![c.day] = [seq |-> c.seq, hash |-> c.id]]
    /\ tip' = c.id
    /\ call' = [call EXCEPT ![w].pc = "mirror"]
    /\ history' = Append(history, [hash |-> c.id, prev |-> c.prev,
                                   gseq |-> c.gseq, day |-> c.day])
    /\ UNCHANGED <<today, gseq, daySeq, dayGenesis, rows, started, incidents,
                   missing, faults>>

\* The pipeline: list, watermark and tip together, the genesis if the call
\* found none.  (The chain_head key it also sets is read by nothing.)
Exec(w) ==
    LET c == call[w] IN
    /\ c.pc = "exec"
    /\ dayLog' = [dayLog EXCEPT ![c.day] =
                     Append(@, [hash |-> c.id, prev |-> c.prev])]
    /\ dayMark' = [dayMark EXCEPT ![c.day] = [seq |-> c.seq, hash |-> c.id]]
    /\ tip' = c.id
    /\ dayGenesis' = IF c.first THEN [dayGenesis EXCEPT ![c.day] = c.prev]
                     ELSE dayGenesis
    /\ call' = [call EXCEPT ![w].pc = "mirror"]
    /\ history' = Append(history, [hash |-> c.id, prev |-> c.prev,
                                   gseq |-> c.gseq, day |-> c.day])
    /\ UNCHANGED <<today, gseq, daySeq, rows, started, incidents, missing,
                   faults>>

\* What an anchor holds after append(entry, seq).  The unique constraint of
\* audit_entries and IfNoneMatch='*' of S3 refuse a seq that is taken, and
\* the exception is swallowed.
AnchorAppend(held, entry) ==
    IF \E r \in held : r.seq = entry.seq THEN held ELSE held \cup {entry}

\* Mutants of Mirror: the record carries the day's seq; the fan-out returns
\* after one anchor.
MirrorDaySeq(w, ok) ==
    LET c == call[w]
        row == [seq |-> c.seq, hash |-> c.id, prev |-> c.prev]
    IN
    /\ c.pc = "mirror"
    /\ ok # Anchors => faults < MaxFaults
    /\ faults' = IF ok = Anchors THEN faults ELSE faults + 1
    /\ rows' = [a \in Anchors |-> IF a \in ok THEN AnchorAppend(rows[a], row)
                                  ELSE rows[a]]
    /\ missing' = missing \cup (Anchors \ ok)
    /\ call' = [call EXCEPT ![w] = Idle]
    /\ UNCHANGED <<today, redis, started, history, incidents>>

MirrorOne(w, ok) ==
    LET c == call[w]
        row == [seq |-> c.gseq, hash |-> c.id, prev |-> c.prev]
    IN
    /\ c.pc = "mirror"
    /\ ok # Anchors => faults < MaxFaults
    /\ faults' = IF ok = Anchors THEN faults ELSE faults + 1
    /\ rows' = [a \in Anchors |->
                   IF a \in ok /\ a = CHOOSE b \in Anchors : TRUE
                   THEN AnchorAppend(rows[a], row) ELSE rows[a]]
    /\ missing' = missing \cup (Anchors \ ok)
    /\ call' = [call EXCEPT ![w] = Idle]
    /\ UNCHANGED <<today, redis, started, history, incidents>>

\* durable.append after the pipeline's await: the anchors in ok take the
\* row; the others fail, or the process stops first, and nobody retries.
Mirror(w, ok) ==
    LET c == call[w]
        row == [seq |-> c.gseq, hash |-> c.id, prev |-> c.prev]
    IN
    /\ c.pc = "mirror"
    /\ ok # Anchors => faults < MaxFaults
    /\ faults' = IF ok = Anchors THEN faults ELSE faults + 1
    /\ rows' = [a \in Anchors |-> IF a \in ok THEN AnchorAppend(rows[a], row)
                                  ELSE rows[a]]
    /\ missing' = missing \cup (Anchors \ ok)
    /\ call' = [call EXCEPT ![w] = Idle]
    /\ UNCHANGED <<today, redis, started, history, incidents>>

-----------------------------------------------------------------------------
(* The environment.                                                        *)

\* Mutant of Interrupt: the cleanup gives the sequence number back.
InterruptDecr(w) ==
    /\ InWindow(w)
    /\ faults < MaxFaults
    /\ faults' = faults + 1
    /\ gseq' = IF call[w].pc \in {"seq", "genesis", "exec"}
               THEN gseq - 1 ELSE gseq
    /\ call' = [call EXCEPT ![w] = Idle]
    /\ UNCHANGED <<today, tip, dayKeys, rows, started, history, incidents,
                   missing>>

\* A Redis error, a cancelled request or a crash before the pipeline ran:
\* the counters the call has bumped keep their value.
Interrupt(w) ==
    /\ InWindow(w)
    /\ faults < MaxFaults
    /\ faults' = faults + 1
    /\ incidents' = incidents
          \cup (IF call[w].pc \in {"seq", "genesis", "exec"}
                THEN {"gapGseq"} ELSE {})
          \cup (IF call[w].pc \in {"genesis", "exec"} THEN {"gapSeq"} ELSE {})
    /\ call' = [call EXCEPT ![w] = Idle]
    /\ UNCHANGED <<today, redis, rows, started, history, missing>>

NextDay ==
    /\ today < MaxDay
    /\ today' = today + 1
    /\ UNCHANGED <<redis, rows, call, started, ghosts>>

\* Mutant of Expire: the watermark has no TTL.
ExpireKeepMark(d) ==
    /\ d + RetentionDays <= today
    /\ dayMark[d] # Absent
    /\ \A w \in Writers : InWindow(w) => call[w].day # d
    /\ dayLog' = [dayLog EXCEPT ![d] = <<>>]
    /\ daySeq' = [daySeq EXCEPT ![d] = 0]
    /\ dayGenesis' = [dayGenesis EXCEPT ![d] = Absent]
    /\ UNCHANGED <<today, tip, gseq, dayMark, rows, call, started, ghosts>>

\* Every pipeline gives the keys of its day the same TTL; the tip and gseq
\* have none.  No call is in flight for as long as the retention.
Expire(d) ==
    /\ d + RetentionDays <= today
    /\ dayMark[d] # Absent
    /\ \A w \in Writers : InWindow(w) => call[w].day # d
    /\ dayLog' = [dayLog EXCEPT ![d] = <<>>]
    /\ daySeq' = [daySeq EXCEPT ![d] = 0]
    /\ dayMark' = [dayMark EXCEPT ![d] = Absent]
    /\ dayGenesis' = [dayGenesis EXCEPT ![d] = Absent]
    /\ UNCHANGED <<today, tip, gseq, rows, call, started, ghosts>>

-----------------------------------------------------------------------------
Step(w) ==
    \/ ReadTip(w)
    \/ IncrGseq(w)
    \/ IncrSeq(w)
    \/ ReadGenesis(w)
    \/ Exec(w)
    \/ \E ok \in SUBSET Anchors : Mirror(w, ok)

Next ==
    \/ \E w \in Writers : Start(w) \/ Step(w) \/ Interrupt(w)
    \/ NextDay
    \/ \E d \in Days : Expire(d)

Spec == Init /\ [][Next]_vars

\* The event loop resumes every coroutine whose Redis reply has come.
FairSpec == Spec /\ \A w \in Writers : WF_vars(Step(w))

-----------------------------------------------------------------------------
(* The verifiers.                                                          *)

LastHash(start, log) == IF log = <<>> THEN start ELSE log[Len(log)].hash

Linked(start, log) ==
    \A i \in 1..Len(log) :
        log[i].prev = IF i = 1 THEN start ELSE log[i - 1].hash

DayStart(genesis) == IF genesis = Absent THEN Genesis ELSE genesis

\* Mutant of VerifyDay: no watermark.
VerifyDayLinks(log, genesis, mark) == Linked(DayStart(genesis), log)

\* AuditLogger.verify_chain on the list, genesis and watermark it has read.
VerifyDay(log, genesis, mark) ==
    /\ Linked(DayStart(genesis), log)
    /\ mark # Absent => /\ mark.seq = Len(log)
                        /\ mark.hash = LastHash(DayStart(genesis), log)

DayVerifies(d) == VerifyDay(dayLog[d], dayGenesis[d], dayMark[d])

\* Mutants of VerifyRows: it follows the links only, or the numbers only.
VerifyRowsByLink(held) ==
    \A r \in held : r.prev = Genesis \/ \E p \in held : r.prev = p.hash

VerifyRowsBySeq(held) ==
    \A r \in held : r.seq = 1 \/ \E p \in held : r.seq = p.seq + 1

\* verify_chain of an anchor: in order of seq from 1, no gap, every prev the
\* hash of the record before.
VerifyRows(held) ==
    \A r \in held :
        \/ r.seq = 1 /\ r.prev = Genesis
        \/ \E p \in held : r.seq = p.seq + 1 /\ r.prev = p.hash

-----------------------------------------------------------------------------
(* Properties.                                                             *)

TypeOK ==
    /\ today \in Days
    /\ tip \in Nat
    /\ gseq \in Nat
    /\ dayLog \in [Days -> Seq(Entry)]
    /\ daySeq \in [Days -> Nat]
    /\ dayMark \in [Days -> [seq : Nat, hash : Nat] \cup {Absent}]
    /\ dayGenesis \in [Days -> Nat \cup {Absent}]
    /\ rows \in [Anchors -> SUBSET Row]
    /\ call \in [Writers -> Call]
    /\ started \in Nat
    /\ history \in Seq(Logged)
    /\ incidents \in SUBSET Incidents
    /\ missing \in SUBSET Anchors
    /\ faults \in Nat

\* Calls that never overlap build one chain: each entry links to the entry
\* whose pipeline ran just before, across midnight and whatever calls are
\* cut short in between (audit.py:180-181 "Continuous (cross-day) link").
OneChain == "overlap" \notin incidents => Linked(Genesis, history)

\* A false verdict of verify_chain on stored days needs a cause: two calls
\* that overlapped, or one cut short after it bumped the day's counter.
\* Midnight, expiry and every other interruption are harmless.
DaysVerify ==
    incidents \cap {"overlap", "gapSeq"} = {} => \A d \in Days : DayVerifies(d)

\* An anchor that took every write verifies once no write is on its way,
\* unless calls overlapped or one was cut short after it bumped gseq: the
\* order in which the instances reach the anchor does not matter.
AnchorsVerify ==
    /\ incidents \cap {"overlap", "gapGseq"} = {}
    /\ \A w \in Writers : call[w].pc # "mirror"
    => \A a \in Anchors \ missing : VerifyRows(rows[a])

\* gseq is taken by INCR, so no write of a live call meets a taken seq, and
\* the refusal that append swallows never hides a lost record.
NoRowRefused ==
    \A w \in Writers, a \in Anchors :
        call[w].pc = "mirror" => \A r \in rows[a] : r.seq # call[w].gseq

\* The entries of day d among the first n.
OnDay(d, n) == {i \in 1..n : history[i].day = d}

\* Until Redis drops a day for age, verify_chain can see every entry of it:
\* its list is what the pipelines wrote to it, in that order.
DayHoldsHistory ==
    \A d \in Days : dayMark[d] # Absent =>
        /\ Len(dayLog[d]) = Cardinality(OnDay(d, Len(history)))
        /\ \A i \in OnDay(d, Len(history)) :
              LET e == dayLog[d][Cardinality(OnDay(d, i))]
              IN  e.hash = history[i].hash /\ e.prev = history[i].prev

\* A record an anchor missed shows as soon as the anchor holds a later one,
\* whatever else went wrong (ha-dr-runbook.md:23 "re-mirror gap is detected
\* by verify_chain() seq gap").
GapShows ==
    \A a \in Anchors, i \in 1..Len(history) :
        /\ \A r \in rows[a] : r.hash # history[i].hash
        /\ \E r \in rows[a] : r.seq > history[i].gseq
        => ~VerifyRows(rows[a])

\* An entry that is in Redis gets to every anchor, unless that anchor is
\* known to have missed a write (audit_anchor.py:3 "mirrors every signed
\* entry to a durable anchor").
LoggedIsMirrored ==
    \A n \in 1..MaxEvents, a \in Anchors :
        (\E i \in 1..Len(history) : history[i].hash = n)
            ~> (a \in missing \/ \E r \in rows[a] : r.hash = n)

\* What the docstring of verify_chain says of a false verdict
\* (audit.py:267-269): an entry was modified, inserted or deleted, or the
\* key changed.  Nobody does any of that here, so no day may fail.
FalseOnlyIfTampered == \A d \in Days : DayVerifies(d)
=============================================================================
