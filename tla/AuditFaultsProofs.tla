-------------------------- MODULE AuditFaultsProofs -------------------------
(***************************************************************************)
(* What holds of AuditFaults for any number of calls, anchors, days,       *)
(* restarts, deletions and checks.  The invariants of AuditChainProofs     *)
(* carry over where a restart or a deletion leaves what they speak of      *)
(* alone.                                                                  *)
(***************************************************************************)
EXTENDS AuditFaults, AuditChainProofs

-----------------------------------------------------------------------------
(* The kinds of step.                                                      *)

Deletion(d) == LoseDay(d) \/ \E i \in 1..Len(dayLog[d]) : LoseEntry(d, i)

\* A step is one of the log, a restart or a deletion.
LEMMA FaultsSteps ==
    ASSUME [FaultsNext]_faultsVars
    PROVE  \/ [Next]_vars /\ UNCHANGED <<lost, lostDays, losses, restarts>>
           \/ Restart /\ UNCHANGED <<lost, lostDays, losses>>
           \/ (\E d \in Days : Deletion(d)) /\ UNCHANGED restarts
<1>1. CASE RecoveryNext /\ UNCHANGED <<lost, lostDays, losses, check, checks>>
    BY <1>1 DEF RecoveryNext, Fsync, RecoveryLogStep
<1>2. CASE LossNext /\ UNCHANGED <<saved, savedGaps, restarts, check, checks>>
    BY <1>2 DEF LossNext, Deletion
<1>3. CASE CheckNext /\ UNCHANGED <<saved, savedGaps, restarts, lost, lostDays, losses>>
    BY <1>3 DEF CheckNext, ReadList, ReadDayGenesis, VerifyMark, CheckLogStep
<1>4. CASE UNCHANGED faultsVars
    BY <1>4 DEF faultsVars
<1> QED
    BY <1>1, <1>2, <1>3, <1>4 DEF FaultsNext

\* The disk changes at an fsync only, and an fsync changes nothing else.
LEMMA SavedSteps ==
    ASSUME [FaultsNext]_faultsVars
    PROVE  \/ UNCHANGED <<saved, savedGaps>>
           \/ Fsync
    BY DEF FaultsNext, RecoveryNext, Restart, RecoveryLogStep, faultsVars

\* Which of the three a behaviour meets.
ModeInv ==
    /\ restarts \in Nat /\ losses \in Nat
    /\ restarts > 0 => meets = "restart"
    /\ losses > 0 => meets = "loss"
    /\ meets # "loss" => lost = {}
    /\ meets # "check" => check.pc = "idle"

LEMMA ModeInductive == ModeInv /\ [FaultsNext]_faultsVars => ModeInv'
<1> SUFFICES ASSUME ModeInv, [FaultsNext]_faultsVars PROVE ModeInv'
    OBVIOUS
<1>1. CASE /\ meets' = meets /\ meets = "restart" /\ RecoveryNext
           /\ UNCHANGED <<lost, lostDays, losses, check, checks>>
  <2>1. restarts' = restarts \/ restarts' = restarts + 1
      BY <1>1 DEF RecoveryNext, Fsync, Restart, RecoveryLogStep
  <2> QED
      BY <1>1, <2>1 DEF ModeInv
<1>2. CASE /\ meets' = meets /\ meets = "loss" /\ LossNext
           /\ UNCHANGED <<saved, savedGaps, restarts, check, checks>>
  <2>1. losses' = losses \/ losses' = losses + 1
      BY <1>2 DEF LossNext, LoseDay, LoseEntry
  <2> QED
      BY <1>2, <2>1 DEF ModeInv
<1>3. CASE /\ meets' = meets /\ meets = "check" /\ CheckNext
           /\ UNCHANGED <<saved, savedGaps, restarts, lost, lostDays, losses>>
    BY <1>3 DEF ModeInv
<1>4. CASE UNCHANGED faultsVars
    BY <1>4 DEF ModeInv, faultsVars
<1> QED
    BY <1>1, <1>2, <1>3, <1>4 DEF FaultsNext

-----------------------------------------------------------------------------
(* Types.                                                                  *)

SavedTypeOK ==
    /\ saved.tip \in Nat
    /\ saved.gseq \in Nat
    /\ saved.dayLog \in [Days -> Seq(Entry)]
    /\ saved.daySeq \in [Days -> Nat]
    /\ saved.dayMark \in [Days -> [seq : Nat, hash : Nat] \cup {Absent}]
    /\ saved.dayGenesis \in [Days -> Nat \cup {Absent}]
    /\ savedGaps \in SUBSET Incidents

\* What is left of a list without one entry.
LEMMA WithoutEntry ==
    ASSUME NEW log \in Seq(Entry), NEW i \in 1..Len(log)
    PROVE  LET rest == SubSeq(log, 1, i - 1) \o SubSeq(log, i + 1, Len(log)) IN
           /\ rest \in Seq(Entry)
           /\ Len(rest) = Len(log) - 1
           /\ \A k \in 1..(Len(log) - 1) : \E j \in 1..Len(log) : rest[k] = log[j]
<1> DEFINE low == SubSeq(log, 1, i - 1)
           high == SubSeq(log, i + 1, Len(log))
<1>1. Len(log) \in Nat /\ i \in Nat /\ i <= Len(log) /\ i >= 1
    OBVIOUS
<1>2. /\ low \in Seq(Entry) /\ Len(low) = i - 1
      /\ \A k \in 1..(i - 1) : low[k] = log[k]
    BY <1>1
<1>3. /\ high \in Seq(Entry) /\ Len(high) = Len(log) - i
      /\ \A k \in 1..(Len(log) - i) : high[k] = log[k + i]
    BY <1>1
<1> HIDE DEF low, high
<1>4. PICK rest : rest = low \o high
    OBVIOUS
<1>5. /\ rest \in Seq(Entry) /\ Len(rest) = Len(low) + Len(high)
      /\ \A k \in 1..(Len(low) + Len(high)) :
            rest[k] = IF k <= Len(low) THEN low[k] ELSE high[k - Len(low)]
    BY <1>2, <1>3, <1>4, ConcatProperties
<1>6. Len(rest) = Len(log) - 1
    BY <1>1, <1>2, <1>3, <1>5
<1>7. ASSUME NEW k \in 1..(Len(log) - 1)
      PROVE  \E j \in 1..Len(log) : rest[k] = log[j]
  <2>1. k \in Int /\ rest[k] = IF k <= i - 1 THEN low[k] ELSE high[k - (i - 1)]
      BY <1>1, <1>2, <1>3, <1>5, <1>7
  <2>2. CASE k <= i - 1
      BY <1>1, <1>2, <1>7, <2>1, <2>2
  <2>3. CASE k > i - 1
    <3>1. PICK m : m = k - (i - 1)
        OBVIOUS
    <3>2. m \in 1..(Len(log) - i) /\ m + i \in 1..Len(log)
        BY <1>1, <1>7, <2>3, <3>1
    <3>3. rest[k] = high[m]
        BY <1>1, <2>1, <2>3, <3>1
    <3> QED
        BY <1>3, <3>2, <3>3
  <2> QED
      BY <1>1, <2>1, <2>2, <2>3
<1> QED
    BY <1>4, <1>5, <1>6, <1>7, Zenon DEF low, high

\* A deletion writes keys of its day only.
LEMMA DeletionEffect ==
    ASSUME TypeOK, NEW d \in Days, Deletion(d)
    PROVE  /\ UNCHANGED <<today, tip, gseq, rows, call, started, ghosts>>
           /\ losses' = losses + 1
           /\ \A o \in Days \ {d} :
                 /\ dayLog'[o] = dayLog[o] /\ daySeq'[o] = daySeq[o]
                 /\ dayMark'[o] = dayMark[o] /\ dayGenesis'[o] = dayGenesis[o]
           /\ \/ /\ lost' = lost \cup Hashes(dayLog[d])
                 /\ lostDays' = lostDays \cup {d}
                 /\ dayLog'[d] = <<>>
              \/ /\ lostDays' = lostDays
                 /\ daySeq' = daySeq /\ dayMark' = dayMark /\ dayGenesis' = dayGenesis
                 /\ Len(dayLog'[d]) = Len(dayLog[d]) - 1
                 /\ \A k \in 1..Len(dayLog'[d]) :
                       \E j \in 1..Len(dayLog[d]) : dayLog'[d][k] = dayLog[d][j]
                 /\ \E i \in 1..Len(dayLog[d]) : lost' = lost \cup {dayLog[d][i].hash}
           /\ TypeOK'
<1>1. CASE LoseDay(d)
    BY <1>1 DEF LoseDay, TypeOK, ghosts
<1>2. ASSUME NEW i \in 1..Len(dayLog[d]), LoseEntry(d, i)
      PROVE  /\ UNCHANGED <<today, tip, gseq, rows, call, started, ghosts, lostDays,
                            daySeq, dayMark, dayGenesis>>
             /\ losses' = losses + 1
             /\ \A o \in Days \ {d} : dayLog'[o] = dayLog[o]
             /\ Len(dayLog'[d]) = Len(dayLog[d]) - 1
             /\ \A k \in 1..Len(dayLog'[d]) :
                   \E j \in 1..Len(dayLog[d]) : dayLog'[d][k] = dayLog[d][j]
             /\ lost' = lost \cup {dayLog[d][i].hash}
             /\ TypeOK'
  <2> DEFINE rest == SubSeq(dayLog[d], 1, i - 1) \o SubSeq(dayLog[d], i + 1, Len(dayLog[d]))
  <2>2. dayLog' = [dayLog EXCEPT ![d] = rest]
      BY <1>2 DEF LoseEntry
  <2>3. /\ rest \in Seq(Entry) /\ Len(rest) = Len(dayLog[d]) - 1
        /\ \A k \in 1..(Len(dayLog[d]) - 1) :
              \E j \in 1..Len(dayLog[d]) : rest[k] = dayLog[d][j]
    <3>1. dayLog[d] \in Seq(Entry)
        BY DEF TypeOK
    <3> QED
        BY <3>1, WithoutEntry, Zenon
  <2> HIDE DEF rest
  <2>4. dayLog' \in [Days -> Seq(Entry)] /\ dayLog'[d] = rest
      BY <2>2, <2>3 DEF TypeOK
  <2>5. /\ UNCHANGED <<today, tip, gseq, rows, call, started, ghosts, lostDays,
                            daySeq, dayMark, dayGenesis>>
        /\ losses' = losses + 1 /\ lost' = lost \cup {dayLog[d][i].hash}
      BY <1>2 DEF LoseEntry
  <2>6. TypeOK'
      BY <2>4, <2>5 DEF TypeOK, ghosts
  <2>7. \A o \in Days \ {d} : dayLog'[o] = dayLog[o]
      BY <2>2 DEF TypeOK
  <2> QED
      BY <2>3, <2>4, <2>5, <2>6, <2>7
<1> QED
    BY <1>1, <1>2 DEF Deletion

\* A restart moves Redis only.
LEMMA RestartEffect ==
    ASSUME TypeOK, SavedTypeOK, Restart
    PROVE  TypeOK'
<1>1. /\ tip' \in Nat /\ gseq' \in Nat /\ dayLog' \in [Days -> Seq(Entry)]
      /\ daySeq' \in [Days -> Nat]
    BY DEF Restart, SavedTypeOK
<1>2. /\ dayMark' \in [Days -> [seq : Nat, hash : Nat] \cup {Absent}]
      /\ dayGenesis' \in [Days -> Nat \cup {Absent}]
    BY DEF Restart, SavedTypeOK
<1>3. incidents' \in SUBSET Incidents
    BY DEF Restart, SavedTypeOK, TypeOK, Incidents
<1> QED
    BY <1>1, <1>2, <1>3 DEF Restart, TypeOK

LEMMA TypesInductive ==
    TypeOK /\ SavedTypeOK /\ [FaultsNext]_faultsVars => TypeOK' /\ SavedTypeOK'
<1> SUFFICES ASSUME TypeOK, SavedTypeOK, [FaultsNext]_faultsVars
             PROVE  TypeOK' /\ SavedTypeOK'
    OBVIOUS
<1>1. TypeOK'
    BY FaultsSteps, TypeInductive, RestartEffect, DeletionEffect
<1>2. SavedTypeOK'
  <2>1. CASE UNCHANGED <<saved, savedGaps>>
      BY <2>1 DEF SavedTypeOK
  <2>2. CASE Fsync
    <3>1. savedGaps' \in SUBSET Incidents
        BY <2>2 DEF Fsync, OpenGaps, Incidents, TypeOK
    <3>2. /\ saved'.tip = tip /\ saved'.gseq = gseq /\ saved'.dayLog = dayLog
          /\ saved'.daySeq = daySeq /\ saved'.dayMark = dayMark
          /\ saved'.dayGenesis = dayGenesis
        BY <2>2 DEF Fsync, Snapshot
    <3> QED
        BY <3>1, <3>2 DEF SavedTypeOK, TypeOK
  <2> QED
      BY <2>1, <2>2, SavedSteps
<1> QED
    BY <1>1, <1>2

-----------------------------------------------------------------------------
(* What the names of the entries say of a refused record.                  *)

LEMMA NamesInductive ==
    ASSUME TypeOK, IdInv, [FaultsNext]_faultsVars
    PROVE  IdInv'
<1>1. CASE [Next]_vars
    BY <1>1, IdInductive
<1>2. CASE started' = started /\ history' = history /\ rows' = rows /\ call' = call
    BY <1>2, IdFrame DEF InWindow
<1>3. (\E d \in Days : Deletion(d)) =>
        started' = started /\ history' = history /\ rows' = rows /\ call' = call
    BY DeletionEffect DEF ghosts
<1> QED
    BY <1>1, <1>2, <1>3, FaultsSteps DEF Restart

LEMMA TypesInit == FaultsInit => TypeOK /\ SavedTypeOK /\ IdInv
<1> SUFFICES ASSUME FaultsInit PROVE TypeOK /\ SavedTypeOK /\ IdInv
    OBVIOUS
<1>1. Init /\ saved = Snapshot /\ savedGaps = {}
    BY DEF FaultsInit, RecoveryInit
<1>2. TypeOK
    BY <1>1, BoundsAssumption, IdleIsCall DEF Init, TypeOK, Days, Genesis, Entry, Logged
<1>3. SavedTypeOK
  <2>1. /\ saved.tip = tip /\ saved.gseq = gseq /\ saved.dayLog = dayLog
        /\ saved.daySeq = daySeq /\ saved.dayMark = dayMark
        /\ saved.dayGenesis = dayGenesis
      BY <1>1 DEF Snapshot
  <2> QED
      BY <1>1, <1>2, <2>1 DEF SavedTypeOK, TypeOK
<1>4. IdInv
    BY <1>1 DEF Init, IdInv, InWindow, Window, Idle
<1> QED
    BY <1>2, <1>3, <1>4

LEMMA TypesHold == FaultsSpec => [](TypeOK /\ SavedTypeOK /\ IdInv)
<1>1. TypeOK /\ SavedTypeOK /\ IdInv /\ [FaultsNext]_faultsVars =>
        (TypeOK /\ SavedTypeOK /\ IdInv)'
    BY TypesInductive, NamesInductive
<1> QED
    BY TypesInit, <1>1, PTL DEF FaultsSpec

\* The record of an entry that an anchor holds carries the entry's link, so
\* the anchor that refused the entry before it has a link to nothing.
THEOREM RefusalsShow == FaultsSpec => []RefusalShows
<1>1. IdInv /\ TypeOK => RefusalShows
  <2> SUFFICES ASSUME IdInv, TypeOK, NEW a \in Anchors,
                      NEW i \in 1..Len(history), NEW j \in 1..Len(history),
                      history[i].hash = history[j].prev, ~Held(a, i), Held(a, j),
                      VerifyRows(rows[a])
               PROVE  FALSE
      BY DEF RefusalShows
  <2>1. PICK r \in rows[a] : r.hash = history[j].hash
      BY DEF Held
  <2>2. PICK n \in Nat : Mirrored(r, n)
      BY DEF IdInv
  <2>3. n = j
      BY <2>1, <2>2 DEF IdInv, Mirrored
  <2>4. r.prev = history[i].hash
      BY <2>2, <2>3 DEF Mirrored
  <2>5. r.prev # Genesis
      BY <2>4 DEF IdInv, Genesis
  <2>6. PICK p \in rows[a] : r.prev = p.hash
      BY <2>5 DEF VerifyRows
  <2> QED
      BY <2>4, <2>6 DEF Held
<1> QED
    BY <1>1, TypesHold, PTL

-----------------------------------------------------------------------------
(* What a deletion leaves.                                                 *)

\* What the log's own steps keep of the chain and of the anchors is not in the
\* keys of a day.
AnchoredInv == restarts = 0 => GseqInv /\ ChainInv /\ AnchorInv

LEMMA AnchoredInductive ==
    ASSUME TypeOK, AnchoredInv, ModeInv, [FaultsNext]_faultsVars
    PROVE  AnchoredInv'
<1>1. CASE [Next]_vars /\ restarts' = restarts
    BY <1>1, GseqInductive, ChainInductive, AnchorInductive DEF AnchoredInv
<1>2. CASE Restart
  <2>1. restarts' # 0
      BY <1>2 DEF Restart, ModeInv
  <2> QED
      BY <2>1 DEF AnchoredInv
<1>3. ASSUME NEW d \in Days, Deletion(d), restarts' = restarts
      PROVE  AnchoredInv'
  <2>1. UNCHANGED <<tip, gseq, rows, call, history, incidents, missing>>
      BY <1>3, DeletionEffect DEF ghosts
  <2>2. GseqInv => GseqInv'
      BY <2>1 DEF GseqInv, TookGseq
  <2>3. ChainInv => ChainInv'
    <3>1. TurnInv => TurnInv'
        BY <2>1, TurnFrame DEF InWindow
    <3> QED
        BY <2>1, <3>1 DEF ChainInv
  <2>4. AnchorInv => AnchorInv'
      BY <2>1, AnchorFrame DEF NoGap, Numbered
  <2> QED
      BY <1>3, <2>2, <2>3, <2>4 DEF AnchoredInv
<1> QED
    BY <1>1, <1>2, <1>3, FaultsSteps

\* The log knows the hash, as an entry of day d.
Logs(d, h) == \E k \in Nat : /\ k \in 1..Len(history)
                             /\ history[k].hash = h /\ history[k].day = d

\* What a day lists, and what was deleted, was logged.
ListInv ==
    restarts = 0 =>
        /\ \A d \in Days : \A i \in 1..Len(dayLog[d]) : Logs(d, dayLog[d][i].hash)
        /\ \A h \in lost : \E d \in Days : Logs(d, h)

LEMMA LogsAppend ==
    ASSUME TypeOK, NEW e \in Logged, history' = Append(history, e)
    PROVE  /\ \A d, h : Logs(d, h) => Logs(d, h)'
           /\ Logs(e.day, e.hash)'
<1>1. /\ Len(history) \in Nat /\ Len(history') = Len(history) + 1
      /\ history'[Len(history) + 1] = e
      /\ \A i \in 1..Len(history) : history'[i] = history[i]
    BY DEF TypeOK
<1>2. ASSUME NEW d, NEW h, Logs(d, h) PROVE Logs(d, h)'
    BY <1>1, <1>2 DEF Logs
<1>3. \A m : m = e.day => Logs(m, e.hash)'
    BY <1>1 DEF Logs
<1> QED
    BY <1>2, <1>3

\* A list of a day changes by an append, at a pipeline, or by its expiry.
LEMMA LogLists ==
    ASSUME TypeOK, [Next]_vars
    PROVE  \/ dayLog' = dayLog /\ history' = history
           \/ \E w \in Writers : Exec(w)
           \/ \E d \in Days : Expire(d)
    BY DEF Next, Step, Start, ReadTip, IncrGseq, IncrSeq, ReadGenesis, Mirror,
           Interrupt, NextDay, vars, redis, ghosts, dayKeys

\* What a pipeline writes.
LEMMA ExecEffect ==
    ASSUME TypeOK, NEW w \in Writers, Exec(w)
    PROVE  \E d \in Days, x \in Entry, e \in Logged :
              /\ d = call[w].day /\ e.day = d /\ e.hash = call[w].id /\ e.prev = call[w].prev
              /\ x.hash = e.hash /\ x.prev = e.prev
              /\ history' = Append(history, e)
              /\ dayLog'[d] = Append(dayLog[d], x)
              /\ dayMark'[d] # Absent
              /\ dayMark'[d].seq = call[w].seq /\ dayMark'[d].hash = e.hash
              /\ \A o \in Days \ {d} : dayLog'[o] = dayLog[o] /\ dayMark'[o] = dayMark[o]
<1> DEFINE c == call[w]
           x == [hash |-> c.id, prev |-> c.prev]
           e == [hash |-> c.id, prev |-> c.prev, gseq |-> c.gseq, day |-> c.day]
           m == [seq |-> c.seq, hash |-> c.id]
<1>1. PICK d \in Days : d = call[w].day
    BY DEF TypeOK, Call
<1>2. c.id \in Nat /\ c.prev \in Nat /\ c.seq \in Nat /\ c.gseq \in Nat
    BY DEF TypeOK, Call
<1>3. /\ x \in Entry /\ x.hash = c.id /\ x.prev = c.prev
      /\ e \in Logged /\ e.day = d /\ e.hash = c.id /\ e.prev = c.prev
      /\ m.seq = c.seq /\ m.hash = c.id
    BY <1>1, <1>2 DEF Entry, Logged
<1>4. m # Absent
    BY <1>2, AbsentAssumption
<1>5. /\ history' = Append(history, e)
      /\ dayLog' = [dayLog EXCEPT ![d] = Append(@, x)]
      /\ dayMark' = [dayMark EXCEPT ![d] = m]
    BY <1>1 DEF Exec
<1> HIDE DEF x, e, m
<1>6. /\ dayLog'[d] = Append(dayLog[d], x) /\ dayMark'[d] = m
      /\ \A o \in Days \ {d} : dayLog'[o] = dayLog[o] /\ dayMark'[o] = dayMark[o]
    BY <1>5 DEF TypeOK
<1>7. /\ d = call[w].day /\ e.day = d /\ e.hash = call[w].id /\ e.prev = call[w].prev
      /\ x.hash = e.hash /\ x.prev = e.prev
      /\ dayMark'[d] # Absent /\ dayMark'[d].seq = call[w].seq /\ dayMark'[d].hash = e.hash
    BY <1>1, <1>3, <1>4, <1>6
<1> QED
    BY <1>3, <1>5, <1>6, <1>7, Zenon

LEMMA ListInductive ==
    ASSUME TypeOK, ListInv, ModeInv, [FaultsNext]_faultsVars
    PROVE  ListInv'
<1>1. CASE Restart
  <2>1. restarts' # 0
      BY <1>1 DEF Restart, ModeInv
  <2> QED
      BY <2>1 DEF ListInv
<1>2. CASE dayLog' = dayLog /\ history' = history /\ lost' = lost /\ restarts' = restarts
    BY <1>2 DEF ListInv, Logs
<1>3. ASSUME NEW w \in Writers, Exec(w), lost' = lost, restarts' = restarts, restarts = 0
      PROVE  ListInv'
  <2>1. PICK d \in Days, x \in Entry, e \in Logged :
              /\ e.day = d /\ x.hash = e.hash
              /\ history' = Append(history, e)
              /\ dayLog'[d] = Append(dayLog[d], x)
              /\ \A o \in Days \ {d} : dayLog'[o] = dayLog[o]
      BY <1>3, ExecEffect
  <2>2. /\ \A o, h : Logs(o, h) => Logs(o, h)'
        /\ Logs(d, e.hash)'
      BY <2>1, LogsAppend
  <2>3. /\ Len(dayLog[d]) \in Nat /\ Len(dayLog'[d]) = Len(dayLog[d]) + 1
        /\ dayLog'[d][Len(dayLog[d]) + 1] = x
        /\ \A k \in 1..Len(dayLog[d]) : dayLog'[d][k] = dayLog[d][k]
      BY <2>1 DEF TypeOK
  <2>4. ASSUME NEW i \in 1..Len(dayLog'[d]), NEW h, h = dayLog'[d][i].hash
        PROVE  Logs(d, h)'
    <3>1. CASE i \in 1..Len(dayLog[d])
      <4>1. h = dayLog[d][i].hash
          BY <2>3, <2>4, <3>1
      <4>2. Logs(d, h)
          BY <1>3, <3>1, <4>1 DEF ListInv
      <4> QED
          BY <2>2, <4>2
    <3>2. CASE i = Len(dayLog[d]) + 1
        BY <2>1, <2>2, <2>3, <2>4, <3>2
    <3> QED
        BY <2>3, <2>4, <3>1, <3>2
  <2>5. ASSUME NEW o \in Days \ {d}, NEW i \in 1..Len(dayLog'[o]), NEW h, h = dayLog'[o][i].hash
        PROVE  Logs(o, h)'
    <3>1. i \in 1..Len(dayLog[o]) /\ h = dayLog[o][i].hash
        BY <2>1, <2>5
    <3>2. Logs(o, h)
        BY <1>3, <3>1 DEF ListInv
    <3> QED
        BY <2>2, <3>2
  <2>6. \A h \in lost' : \E o \in Days : Logs(o, h)'
      BY <1>3, <2>2 DEF ListInv
  <2>7. \A o \in Days : \A i \in 1..Len(dayLog'[o]) :
            \A h : h = dayLog'[o][i].hash => Logs(o, h)'
      BY <2>4, <2>5
  <2> QED
      BY <2>6, <2>7 DEF ListInv, Logs
<1>4. ASSUME NEW d \in Days, Expire(d), lost' = lost, restarts' = restarts
      PROVE  ListInv'
  <2>1. /\ history' = history
        /\ dayLog'[d] = <<>> /\ \A o \in Days \ {d} : dayLog'[o] = dayLog[o]
      BY <1>4 DEF Expire, TypeOK, ghosts
  <2> QED
      BY <1>4, <2>1 DEF ListInv, Logs
<1>5. ASSUME NEW d \in Days, Deletion(d), restarts' = restarts
      PROVE  ListInv'
  <2>1. /\ history' = history
        /\ \A o \in Days \ {d} : dayLog'[o] = dayLog[o]
        /\ \/ lost' = lost \cup Hashes(dayLog[d]) /\ dayLog'[d] = <<>>
           \/ /\ \A k \in 1..Len(dayLog'[d]) :
                    \E j \in 1..Len(dayLog[d]) : dayLog'[d][k] = dayLog[d][j]
              /\ \E i \in 1..Len(dayLog[d]) : lost' = lost \cup {dayLog[d][i].hash}
      BY <1>5, DeletionEffect DEF ghosts
  <2>3. CASE restarts = 0
    <3>1. /\ \A o \in Days : \A i \in 1..Len(dayLog[o]) : Logs(o, dayLog[o][i].hash)
          /\ \A h \in lost : \E o \in Days : Logs(o, h)
        BY <2>3 DEF ListInv
    <3>2. \A k \in 1..Len(dayLog'[d]) : Logs(d, dayLog'[d][k].hash)
      <4>1. CASE dayLog'[d] = <<>>
          BY <4>1
      <4>2. CASE \A k \in 1..Len(dayLog'[d]) :
                    \E j \in 1..Len(dayLog[d]) : dayLog'[d][k] = dayLog[d][j]
          BY <3>1, <4>2
      <4> QED
          BY <2>1, <4>1, <4>2
    <3>3. \A h \in lost' : \E o \in Days : Logs(o, h)
      <4>1. \A h \in Hashes(dayLog[d]) : Logs(d, h)
          BY <3>1 DEF Hashes
      <4>2. lost' \subseteq lost \cup Hashes(dayLog[d])
          BY <2>1 DEF Hashes
      <4> QED
          BY <3>1, <4>1, <4>2
    <3>4. \A o \in Days : \A i \in 1..Len(dayLog'[o]) : Logs(o, dayLog'[o][i].hash)
        BY <2>1, <3>1, <3>2
    <3> QED
        BY <2>1, <3>3, <3>4 DEF ListInv, Logs
  <2>4. CASE restarts # 0
      BY <1>5, <2>4 DEF ListInv
  <2> QED
      BY <2>3, <2>4
<1> QED
    BY <1>1, <1>2, <1>3, <1>4, <1>5, FaultsSteps, LogLists DEF ListInv

LEMMA AnchoredInit == FaultsInit => ModeInv /\ AnchoredInv /\ ListInv
<1> SUFFICES ASSUME FaultsInit PROVE ModeInv /\ AnchoredInv /\ ListInv
    OBVIOUS
<1>1. /\ Init /\ restarts = 0 /\ losses = 0 /\ lost = {} /\ lostDays = {}
      /\ check.pc = "idle"
    BY DEF FaultsInit, RecoveryInit, LossInit, CheckInit
<1>2. \A w \in Writers : call[w].pc = "idle"
    BY <1>1 DEF Init, Idle
<1>3. GseqInv
    BY <1>1, <1>2 DEF Init, GseqInv, TookGseq
<1>4. ChainInv
    BY <1>1, <1>2 DEF Init, ChainInv, TurnInv, LastHash, Linked, InWindow, Window
<1>5. AnchorInv
    BY <1>1, <1>2 DEF Init, AnchorInv, Numbered
<1>6. ListInv
    BY <1>1 DEF Init, ListInv
<1> QED
    BY <1>1, <1>3, <1>4, <1>5, <1>6 DEF ModeInv, AnchoredInv

LEMMA AnchoredHold == FaultsSpec => [](ModeInv /\ AnchoredInv /\ ListInv)
<1>1. /\ TypeOK /\ ModeInv /\ AnchoredInv /\ ListInv /\ [FaultsNext]_faultsVars
      => (ModeInv /\ AnchoredInv /\ ListInv)'
    BY ModeInductive, AnchoredInductive, ListInductive
<1> QED
    BY AnchoredInit, <1>1, TypesHold, PTL DEF FaultsSpec

\* An entry that was deleted was logged, and an anchor that missed nothing has
\* every logged entry.
THEOREM DeletedIsAnchored == FaultsSpec => []AnchorsOutliveRedis
<1>1. TypeOK /\ ModeInv /\ AnchoredInv /\ ListInv => AnchorsOutliveRedis
  <2> SUFFICES ASSUME TypeOK, ModeInv, AnchoredInv, ListInv, losses > 0, NoGap,
                      \A w \in Writers : call[w].pc # "mirror",
                      NEW a \in Anchors \ missing
               PROVE  VerifyRows(rows[a]) /\ lost \subseteq {r.hash : r \in rows[a]}
      BY DEF AnchorsOutliveRedis, NoGap
  <2>1. restarts = 0
    <3>1. meets = "loss"
        BY DEF ModeInv
    <3>2. ~(restarts > 0) /\ restarts \in Nat
        BY <3>1 DEF ModeInv
    <3> QED
        BY <3>2
  <2>2. ChainInv /\ AnchorInv
      BY <2>1 DEF AnchoredInv
  <2>3. VerifyRows(rows[a])
      BY <2>2, AnchorsCheckOut DEF AnchorsVerify, NoGap
  <2>4. ASSUME NEW h \in lost PROVE \E r \in rows[a] : r.hash = h
    <3>1. PICK k \in 1..Len(history) : history[k].hash = h
        BY <2>1 DEF ListInv, Logs
    <3>2. PICK r \in rows[a] : r.seq = k
        BY <2>2 DEF AnchorInv
    <3>3. Recorded(r.seq, r.hash, r.prev)
        BY <2>2 DEF AnchorInv
    <3> QED
        BY <3>1, <3>2, <3>3 DEF Recorded
  <2> QED
      BY <2>3, <2>4
<1> QED
    BY <1>1, TypesHold, AnchoredHold, PTL

-----------------------------------------------------------------------------
(* A day that lost an entry.                                               *)

\* The keys of d have expired and no call can write them again.
Gone(d) ==
    /\ dayMark[d] = Absent
    /\ d < today
    /\ \A w \in Writers : InWindow(w) => call[w].day # d

Holed(d) == \E k \in Nat : /\ k \in 1..Len(history)
                           /\ history[k].day = d /\ history[k].hash \in lost

\* The list of a day is never longer than its counter and its watermark say,
\* and it is shorter than both once it has lost an entry.
ShortOf(d) ==
    /\ dayMark[d] = Absent => dayLog[d] = <<>> /\ (Holed(d) => Gone(d))
    /\ dayMark[d] # Absent =>
          /\ Len(dayLog[d]) <= dayMark[d].seq /\ dayMark[d].seq <= daySeq[d]
          /\ Holed(d) => Len(dayLog[d]) < dayMark[d].seq
    /\ Len(dayLog[d]) <= daySeq[d]
    /\ \A w \in Writers : TookSeq(w) /\ call[w].day = d =>
          /\ Len(dayLog[d]) < call[w].seq /\ call[w].seq <= daySeq[d]
          /\ Holed(d) => Len(dayLog[d]) + 1 < call[w].seq

LossInv ==
    restarts = 0 /\ "overlap" \notin incidents => \A d \in Days \ lostDays : ShortOf(d)

\* A day stays gone.
LEMMA GoneFrame ==
    ASSUME TypeOK, NEW d \in Days, Gone(d), dayMark'[d] = dayMark[d],
           today' \in Nat, today <= today',
           \A w \in Writers : InWindow(w)' =>
               \/ InWindow(w) /\ call'[w].day = call[w].day
               \/ call'[w].day = today
    PROVE  Gone(d)'
<1>1. today \in Nat /\ d \in Nat
    BY DEF TypeOK, Days
<1> QED
    BY <1>1 DEF Gone

\* What a step of the log does to the keys of a day it does not write, and to
\* the calls.
Aside(d) ==
    /\ dayLog'[d] = dayLog[d] /\ dayMark'[d] = dayMark[d] /\ daySeq'[d] = daySeq[d]
    /\ today' \in Nat /\ today <= today'
    /\ \A w \in Writers : InWindow(w)' =>
           \/ InWindow(w) /\ call'[w].day = call[w].day
           \/ call'[w].day = today
    /\ \A w \in Writers : TookSeq(w)' /\ call'[w].day = d =>
           TookSeq(w) /\ call[w].day = d /\ call'[w].seq = call[w].seq

LEMMA ShortFrame ==
    ASSUME TypeOK, NEW d \in Days, ShortOf(d), Aside(d), Holed(d)' => Holed(d)
    PROVE  ShortOf(d)'
<1>1. Gone(d) => Gone(d)'
    BY GoneFrame DEF Aside
<1> QED
    BY <1>1 DEF ShortOf, Aside

\* Every step but three leaves the keys of every day alone, and the three
\* those of the other days.
LEMMA LogAside ==
    ASSUME TypeOK, [Next]_vars, NEW d \in Days
    PROVE  \/ Aside(d) /\ history' = history
           \/ \E w \in Writers : Exec(w)
           \/ \E w \in Writers : IncrSeq(w) /\ call[w].day = d
           \/ Expire(d)
<1>0. today \in Nat /\ \A w \in Writers : call[w] \in Call
    BY DEF TypeOK, Days
<1>1. ASSUME NEW w \in Writers, Start(w) PROVE Aside(d) /\ history' = history
  <2>1. /\ dayLog' = dayLog /\ dayMark' = dayMark /\ daySeq' = daySeq /\ history' = history
        /\ today' = today /\ call'[w].day = today /\ call'[w].pc = "tip"
        /\ \A v \in Writers \ {w} : call'[v] = call[v]
      BY <1>1 DEF Start, TypeOK, Idle, redis
  <2> QED
      BY <1>0, <2>1 DEF Aside, InWindow, TookSeq
<1>2. ASSUME NEW w \in Writers, ReadTip(w) PROVE Aside(d) /\ history' = history
    BY <1>0, <1>2 DEF ReadTip, TypeOK, Aside, InWindow, Window, TookSeq, redis, ghosts
<1>3. ASSUME NEW w \in Writers, IncrGseq(w) PROVE Aside(d) /\ history' = history
    BY <1>0, <1>3 DEF IncrGseq, TypeOK, Aside, InWindow, Window, TookSeq, dayKeys, ghosts
<1>4. ASSUME NEW w \in Writers, IncrSeq(w), call[w].day # d
      PROVE  Aside(d) /\ history' = history
  <2>1. /\ dayLog' = dayLog /\ dayMark' = dayMark /\ history' = history /\ today' = today
        /\ call[w].pc = "seq" /\ call'[w].day = call[w].day
        /\ \A v \in Writers \ {w} : call'[v] = call[v]
      BY <1>4 DEF IncrSeq, TypeOK, ghosts
  <2>2. daySeq'[d] = daySeq[d]
      BY <1>4 DEF IncrSeq, TypeOK
  <2> QED
      BY <1>0, <1>4, <2>1, <2>2 DEF Aside, InWindow, Window, TookSeq
<1>5. ASSUME NEW w \in Writers, ReadGenesis(w) PROVE Aside(d) /\ history' = history
  <2>1. /\ dayLog' = dayLog /\ dayMark' = dayMark /\ daySeq' = daySeq /\ history' = history
        /\ today' = today /\ call[w].pc = "genesis"
      BY <1>5 DEF ReadGenesis, redis, ghosts
  <2>2. InWindow(w) /\ TookSeq(w)
      BY <2>1 DEF InWindow, Window, TookSeq
  <2> QED
      BY <1>0, <1>5, <2>1, <2>2, ReadGenesisEffect DEF Aside, InWindow, TookSeq
<1>6. ASSUME NEW w \in Writers, NEW ok \in SUBSET Anchors, Mirror(w, ok)
      PROVE  Aside(d) /\ history' = history
    BY <1>0, <1>6 DEF Mirror, TypeOK, Aside, InWindow, Window, TookSeq, Idle, redis
<1>7. ASSUME NEW w \in Writers, Interrupt(w) PROVE Aside(d) /\ history' = history
    BY <1>0, <1>7 DEF Interrupt, TypeOK, Aside, InWindow, Window, TookSeq, Idle, redis
<1>8. CASE NextDay
    BY <1>0, <1>8 DEF NextDay, Aside, InWindow, TookSeq, redis, ghosts
<1>9. ASSUME NEW o \in Days, Expire(o), o # d PROVE Aside(d) /\ history' = history
    BY <1>0, <1>9 DEF Expire, TypeOK, Aside, InWindow, TookSeq, ghosts
<1>10. CASE UNCHANGED vars
    BY <1>0, <1>10 DEF vars, redis, ghosts, Aside, InWindow, TookSeq
<1> QED
    BY <1>1, <1>2, <1>3, <1>4, <1>5, <1>6, <1>7, <1>8, <1>9, <1>10 DEF Next, Step

\* An entry that is new has not been deleted.
LEMMA HoledAppend ==
    ASSUME TypeOK, NEW d, NEW e \in Logged, history' = Append(history, e),
           lost' = lost, e.hash \notin lost, Holed(d)'
    PROVE  Holed(d)
<1>1. /\ Len(history) \in Nat /\ Len(history') = Len(history) + 1
      /\ history'[Len(history) + 1] = e
      /\ \A i \in 1..Len(history) : history'[i] = history[i]
    BY DEF TypeOK
<1>2. PICK k \in Nat : k \in 1..Len(history') /\ history'[k].day = d /\ history'[k].hash \in lost
    BY DEF Holed
<1>3. k \in 1..Len(history)
    BY <1>1, <1>2
<1> QED
    BY <1>1, <1>2, <1>3 DEF Holed

LEMMA ShortStep ==
    ASSUME TypeOK, IdInv, ChainInv, ListInv, [Next]_vars, lost' = lost,
           restarts = 0, "overlap" \notin incidents, NEW d \in Days, ShortOf(d)
    PROVE  ShortOf(d)'
<1>0. /\ today \in Nat /\ daySeq[d] \in Nat /\ dayLog[d] \in Seq(Entry)
      /\ Len(dayLog[d]) \in Nat
      /\ \A w \in Writers : call[w].seq \in Nat /\ call[w].day \in Days
      /\ dayMark[d] # Absent => dayMark[d].seq \in Nat
  <2>1. today \in Nat /\ daySeq[d] \in Nat /\ dayLog[d] \in Seq(Entry)
      BY DEF TypeOK, Days
  <2>2. \A w \in Writers : call[w].seq \in Nat /\ call[w].day \in Days
      BY DEF TypeOK, Call
  <2>3. dayMark[d] # Absent => dayMark[d].seq \in Nat
      BY DEF TypeOK
  <2> QED
      BY <2>1, <2>2, <2>3
<1>1. CASE Aside(d) /\ history' = history
  <2>1. Holed(d)' => Holed(d)
      BY <1>1 DEF Holed
  <2> QED
      BY <1>1, <2>1, ShortFrame
<1>2. ASSUME NEW w \in Writers, IncrSeq(w), call[w].day = d
      PROVE  ShortOf(d)'
  <2>1. /\ dayLog' = dayLog /\ dayMark' = dayMark /\ history' = history /\ today' = today
        /\ InWindow(w) /\ ~TookSeq(w)
        /\ daySeq'[d] = daySeq[d] + 1
        /\ call'[w].pc = "genesis" /\ call'[w].day = d /\ call'[w].seq = daySeq[d] + 1
        /\ \A v \in Writers \ {w} : call'[v] = call[v]
      BY <1>2 DEF IncrSeq, TypeOK, ghosts, InWindow, Window, TookSeq
  <2>2. \A v \in Writers : InWindow(v) => v = w
      BY <2>1 DEF ChainInv, TurnInv
  <2>3. \A v \in Writers : TookSeq(v)' => v = w
      BY <2>1, <2>2 DEF InWindow, Window, TookSeq
  <2>4. Holed(d)' <=> Holed(d)
      BY <2>1 DEF Holed
  <2>5. Holed(d) => dayMark[d] # Absent
      BY <1>2, <2>1 DEF ShortOf, Gone
  <2> QED
      BY <1>0, <2>1, <2>3, <2>4, <2>5 DEF ShortOf
<1>3. ASSUME NEW w \in Writers, Exec(w)
      PROVE  ShortOf(d)'
  <2>1. PICK d0 \in Days, x \in Entry, e \in Logged :
              /\ d0 = call[w].day /\ e.day = d0 /\ e.hash = call[w].id
              /\ history' = Append(history, e)
              /\ dayLog'[d0] = Append(dayLog[d0], x)
              /\ dayMark'[d0] # Absent /\ dayMark'[d0].seq = call[w].seq
              /\ \A o \in Days \ {d0} : dayLog'[o] = dayLog[o] /\ dayMark'[o] = dayMark[o]
      BY <1>3, ExecEffect
  <2>2. /\ daySeq' = daySeq /\ today' = today
        /\ InWindow(w) /\ TookSeq(w) /\ ~InWindow(w)' /\ ~TookSeq(w)'
        /\ \A v \in Writers \ {w} : call'[v] = call[v]
      BY <1>3 DEF Exec, TypeOK, InWindow, Window, TookSeq
  <2>3. \A v \in Writers : ~InWindow(v)' /\ ~TookSeq(v)'
    <3>1. \A v \in Writers : InWindow(v) => v = w
        BY <2>2 DEF ChainInv, TurnInv
    <3> QED
        BY <2>2, <3>1 DEF InWindow, Window, TookSeq
  <2>4. e.hash \notin lost
      BY <2>1, <2>2 DEF ListInv, Logs, IdInv
  <2>5. Holed(d)' => Holed(d)
      BY <2>1, <2>4, HoledAppend
  <2>6. CASE d = d0
    <3>1. Len(dayLog'[d]) = Len(dayLog[d]) + 1
        BY <1>0, <2>1, <2>6
    <3> QED
        BY <1>0, <2>1, <2>2, <2>3, <2>5, <2>6, <3>1 DEF ShortOf
  <2>7. CASE d # d0
    <3>1. Aside(d)
        BY <1>0, <2>1, <2>2, <2>3, <2>7 DEF Aside
    <3> QED
        BY <2>5, <3>1, ShortFrame
  <2> QED
      BY <2>6, <2>7
<1>4. CASE Expire(d)
  <2>1. /\ history' = history /\ today' = today /\ call' = call
        /\ dayLog'[d] = <<>> /\ dayMark'[d] = Absent /\ daySeq'[d] = 0
        /\ \A w \in Writers : InWindow(w) => call[w].day # d
      BY <1>4 DEF Expire, TypeOK, ghosts
  <2>2. d < today
      BY <1>0, <1>4, BoundsAssumption DEF Expire, Days
  <2>3. Gone(d)'
      BY <2>1, <2>2 DEF Gone, InWindow
  <2>4. Len(dayLog'[d]) = 0
      BY <2>1
  <2>5. \A w \in Writers : ~(TookSeq(w)' /\ call'[w].day = d)
      BY <2>1 DEF TookSeq, InWindow, Window
  <2> QED
      BY <2>1, <2>3, <2>4, <2>5 DEF ShortOf
<1> QED
    BY <1>1, <1>2, <1>3, <1>4, LogAside

LEMMA LossInductive ==
    ASSUME TypeOK, IdInv, ModeInv, AnchoredInv, ListInv, LossInv, [FaultsNext]_faultsVars
    PROVE  LossInv'
<1>1. CASE Restart
  <2>1. restarts' # 0
      BY <1>1 DEF Restart, ModeInv
  <2> QED
      BY <2>1 DEF LossInv
<1>2. CASE [Next]_vars /\ UNCHANGED <<lost, lostDays, losses, restarts>>
  <2> SUFFICES ASSUME restarts = 0, "overlap" \notin incidents', NEW d \in Days \ lostDays
               PROVE  ShortOf(d)'
      BY <1>2 DEF LossInv
  <2>1. "overlap" \notin incidents
      BY <1>2, ChainSteps
  <2>2. ShortOf(d) /\ ChainInv
      BY <2>1 DEF LossInv, AnchoredInv
  <2> QED
      BY <1>2, <2>1, <2>2, ShortStep
<1>3. ASSUME NEW d \in Days, Deletion(d), restarts' = restarts,
             restarts = 0, "overlap" \notin incidents', NEW o \in Days \ lostDays'
      PROVE  ShortOf(o)'
  <2>0. /\ Len(dayLog[o]) \in Nat /\ daySeq[o] \in Nat /\ today \in Nat
        /\ \A w \in Writers : call[w].seq \in Nat
        /\ dayMark[o] # Absent => dayMark[o].seq \in Nat
    <3>1. o \in Days /\ dayLog[o] \in Seq(Entry)
        BY DEF TypeOK
    <3>2. Len(dayLog[o]) \in Nat
        BY <3>1, LenProperties
    <3>3. daySeq[o] \in Nat /\ today \in Nat
        BY <3>1 DEF TypeOK, Days
    <3>4. ASSUME NEW w \in Writers PROVE call[w].seq \in Nat
      <4>1. call[w] \in Call
          BY DEF TypeOK
      <4> QED
          BY <4>1 DEF Call
    <3>5. dayMark[o] # Absent => dayMark[o].seq \in Nat
      <4>1. dayMark[o] \in [seq : Nat, hash : Nat] \cup {Absent}
          BY <3>1 DEF TypeOK
      <4> QED
          BY <4>1
    <3> QED
        BY <3>2, <3>3, <3>4, <3>5
  <2>1. /\ today' = today /\ call' = call /\ history' = history /\ incidents' = incidents
        /\ \A p \in Days \ {d} :
                 /\ dayLog'[p] = dayLog[p] /\ daySeq'[p] = daySeq[p]
                 /\ dayMark'[p] = dayMark[p]
      BY <1>3, DeletionEffect DEF ghosts
  <2>2. \/ lost' = lost \cup Hashes(dayLog[d]) /\ lostDays' = lostDays \cup {d}
        \/ /\ lostDays' = lostDays /\ daySeq' = daySeq /\ dayMark' = dayMark
           /\ Len(dayLog'[d]) = Len(dayLog[d]) - 1
           /\ \E i \in 1..Len(dayLog[d]) : lost' = lost \cup {dayLog[d][i].hash}
      BY <1>3, DeletionEffect
  <2>3. ShortOf(o)
      BY <1>3, <2>1, <2>2 DEF LossInv
  <2>4. CASE o # d
    <3>1. Aside(o)
        BY <2>0, <2>1, <2>4 DEF Aside, InWindow, TookSeq
    <3>2. Holed(o)' => Holed(o)
      <4> SUFFICES ASSUME NEW k \in 1..Len(history), history[k].day = o,
                          history[k].hash \in lost', history[k].hash \notin lost
                   PROVE  FALSE
          BY <2>1 DEF Holed
      <4>1. PICK i \in 1..Len(dayLog[d]) : history[k].hash = dayLog[d][i].hash
          BY <2>2 DEF Hashes
      <4>2. PICK j \in 1..Len(history) : history[j].hash = history[k].hash /\ history[j].day = d
          BY <1>3, <4>1 DEF ListInv, Logs
      <4> QED
          BY <2>4, <4>2 DEF IdInv
    <3> QED
        BY <2>3, <3>1, <3>2, ShortFrame
  <2>5. CASE o = d
    <3>1. /\ lostDays' = lostDays /\ daySeq' = daySeq /\ dayMark' = dayMark
          /\ Len(dayLog'[d]) = Len(dayLog[d]) - 1
          /\ \E i \in 1..Len(dayLog[d]) : lost' = lost \cup {dayLog[d][i].hash}
        BY <1>3, <2>2, <2>5
    <3>2. Len(dayLog[d]) > 0
        BY <2>0, <2>5, <3>1
    <3>3. dayMark[d] # Absent
      <4>1. dayLog[d] # <<>>
          BY <3>2
      <4> QED
          BY <2>3, <2>5, <4>1 DEF ShortOf
    <3>4. \A w \in Writers : TookSeq(w)' <=> TookSeq(w)
        BY <2>1 DEF TookSeq
    <3> QED
        BY <2>0, <2>1, <2>3, <2>5, <3>1, <3>2, <3>3, <3>4 DEF ShortOf
  <2> QED
      BY <2>4, <2>5
<1>4. ASSUME NEW d \in Days, Deletion(d), restarts' = restarts
      PROVE  LossInv'
    BY <1>3, <1>4 DEF LossInv
<1> QED
    BY <1>1, <1>2, <1>4, FaultsSteps

\* While calls take turns, a day that lost an entry is shorter than its
\* watermark says until it expires, whatever is written or deleted after.
THEOREM DeletionsShow == FaultsSpec => []LossShows
<1>1. FaultsInit => LossInv
  <2> SUFFICES ASSUME FaultsInit, NEW d \in Days PROVE ShortOf(d)
      BY DEF LossInv
  <2>1. Init /\ lost = {}
      BY DEF FaultsInit, LossInit
  <2>2. \A w \in Writers : ~TookSeq(w)
      BY <2>1 DEF Init, Idle, TookSeq
  <2>3. dayLog[d] = <<>> /\ Len(dayLog[d]) = 0 /\ daySeq[d] = 0 /\ dayMark[d] = Absent
      BY <2>1 DEF Init
  <2>4. ~Holed(d)
      BY <2>1 DEF Holed
  <2> QED
      BY <2>2, <2>3, <2>4 DEF ShortOf
<1>2. TypeOK /\ ModeInv /\ LossInv => (restarts = 0 => LossShows)
  <2> SUFFICES ASSUME TypeOK, LossInv, restarts = 0, "overlap" \notin incidents,
                      NEW i \in 1..Len(history), history[i].hash \in lost,
                      dayMark[history[i].day] # Absent, history[i].day \notin lostDays
               PROVE  ~DayVerifies(history[i].day)
      BY DEF LossShows
  <2>0. history[i] \in Logged
      BY DEF TypeOK
  <2>1. PICK d \in Days : d = history[i].day
      BY <2>0 DEF Logged
  <2>2. Holed(d) /\ ShortOf(d)
      BY <2>1 DEF Holed, LossInv
  <2>3. Len(dayLog[d]) < dayMark[d].seq /\ dayMark[d].seq \in Nat /\ Len(dayLog[d]) \in Nat
      BY <2>1, <2>2 DEF ShortOf, TypeOK
  <2> QED
      BY <2>1, <2>3 DEF DayVerifies, VerifyDay
<1>3. ModeInv /\ restarts # 0 => LossShows
  <2>1. ModeInv /\ restarts # 0 => lost = {}
      BY DEF ModeInv
  <2> QED
      BY <2>1 DEF LossShows
<1>4. /\ TypeOK /\ IdInv /\ ModeInv /\ AnchoredInv /\ ListInv /\ LossInv
      /\ [FaultsNext]_faultsVars
      => LossInv'
    BY LossInductive
<1>5. TypeOK /\ ModeInv /\ LossInv => LossShows
    BY <1>2, <1>3
<1> QED
    BY <1>1, <1>4, <1>5, TypesHold, AnchoredHold, PTL DEF FaultsSpec

-----------------------------------------------------------------------------
(* The days across a restart.                                              *)

\* The state on disk, where it holds no counter ahead of its list, is one that
\* calls in turns could go on from.
SavedInv ==
    Clean /\ "gapSeq" \notin savedGaps =>
      /\ \A d \in Days :
            /\ d > today => saved.dayLog[d] = <<>>
            /\ saved.dayGenesis[d] = Absent <=> saved.dayLog[d] = <<>>
            /\ saved.daySeq[d] = Len(saved.dayLog[d])
            /\ VerifyDay(saved.dayLog[d], saved.dayGenesis[d], saved.dayMark[d])
      /\ saved.dayLog[today] # <<>> =>
            saved.dayLog[today][Len(saved.dayLog[today])].hash = saved.tip

DaysInv ==
    losses = 0 => SavedInv /\ (Clean => CalendarInv /\ DayInv)

\* Nothing of SavedInv moves but the date and the incidents.
LEMMA SavedFrame ==
    ASSUME TypeOK, SavedInv, UNCHANGED <<saved, savedGaps>>,
           today' = today \/ today' = today + 1,
           today' \in Days, incidents \subseteq incidents'
    PROVE  SavedInv'
<1> SUFFICES ASSUME Clean', "gapSeq" \notin savedGaps
             PROVE  SavedInv'
    BY DEF SavedInv
<1>1. Clean
    BY DEF Clean
<1>2. today \in Nat /\ \A d \in Days : d \in Nat
    BY DEF TypeOK, Days
<1>3. \A d \in Days : d > today' => d > today
    BY <1>2
<1>4. ASSUME NEW d \in Days
      PROVE  VerifyDay(saved.dayLog[d], saved.dayGenesis[d], saved.dayMark[d])'
    BY <1>1 DEF SavedInv, VerifyDay, Linked, LastHash, DayStart
<1>5. /\ \A d \in Days :
            /\ d > today => saved.dayLog[d] = <<>>
            /\ saved.dayGenesis[d] = Absent <=> saved.dayLog[d] = <<>>
            /\ saved.daySeq[d] = Len(saved.dayLog[d])
      /\ saved.dayLog[today] # <<>> =>
            saved.dayLog[today][Len(saved.dayLog[today])].hash = saved.tip
    BY <1>1 DEF SavedInv
<1>6. saved.dayLog[today'] # <<>> => today' = today
    BY <1>2, <1>5
<1> QED
    BY <1>3, <1>4, <1>5, <1>6 DEF SavedInv

LEMMA LogToday ==
    ASSUME TypeOK, [Next]_vars
    PROVE  today' = today \/ today' = today + 1
    BY DEF Next, Step, Start, ReadTip, IncrGseq, IncrSeq, ReadGenesis, Exec, Mirror,
           Interrupt, NextDay, Expire, vars

LEMMA TurnsAcross ==
    ASSUME TypeOK, TurnInv, [FaultsNext]_faultsVars
    PROVE  TurnInv'
<1>1. CASE Restart
  <2>1. call' = call
      BY <1>1 DEF Restart
  <2>2. CASE \E w \in Writers : InWindow(w)
      BY <1>1, <2>2 DEF Restart, TurnInv
  <2>3. CASE ~ \E w \in Writers : InWindow(w)
      BY <2>1, <2>3 DEF TurnInv, InWindow
  <2> QED
      BY <2>2, <2>3
<1>2. ASSUME NEW d \in Days, Deletion(d) PROVE TurnInv'
  <2>1. tip' = tip /\ call' = call /\ incidents' = incidents
      BY <1>2, DeletionEffect DEF ghosts
  <2> QED
      BY <2>1, TurnFrame DEF InWindow
<1> QED
    BY <1>1, <1>2, FaultsSteps, TurnInductive

\* An fsync between two calls, or before a call takes a number of its day.
LEMMA SavedByFsync ==
    ASSUME TypeOK, Clean => CalendarInv /\ DayInv, Fsync
    PROVE  SavedInv'
<1>1. /\ saved'.tip = tip /\ saved'.dayLog = dayLog /\ saved'.daySeq = daySeq
      /\ saved'.dayMark = dayMark /\ saved'.dayGenesis = dayGenesis
    BY DEF Fsync, Snapshot
<1>2. /\ savedGaps' = OpenGaps \cup (incidents \ {"overlap"})
      /\ today' = today /\ incidents' = incidents
    BY DEF Fsync, vars, ghosts
<1> SUFFICES ASSUME Clean, "gapSeq" \notin savedGaps'
             PROVE  SavedInv'
    BY <1>2 DEF SavedInv, Clean
<1>3. CalendarInv /\ DayInv
    OBVIOUS
<1>4. \A w \in Writers : ~TookSeq(w)
    BY <1>2 DEF OpenGaps, TookSeq
<1>5. \A d \in Days : daySeq[d] = Len(dayLog[d]) /\ DayVerifies(d)
    BY <1>3, <1>4 DEF DayInv
<1>6. today \in Days
    BY DEF TypeOK
<1>7. dayLog[today] # <<>> => dayLog[today][Len(dayLog[today])].hash = tip
    BY <1>3, <1>6 DEF DayInv
<1>8. ASSUME NEW d \in Days
      PROVE  VerifyDay(saved'.dayLog[d], saved'.dayGenesis[d], saved'.dayMark[d])
    BY <1>1, <1>5 DEF DayVerifies
<1>9. ASSUME NEW d \in Days
      PROVE  VerifyDay(saved.dayLog[d], saved.dayGenesis[d], saved.dayMark[d])'
    BY <1>8 DEF VerifyDay, Linked, LastHash, DayStart
<1> QED
    BY <1>1, <1>2, <1>3, <1>5, <1>7, <1>9 DEF SavedInv, CalendarInv

\* A restart that no call was under way for brings back such a state.
LEMMA DaysByRestart ==
    ASSUME TypeOK, SavedTypeOK, SavedInv, Clean => CalendarInv, Restart, Clean'
    PROVE  CalendarInv' /\ DayInv'
<1>1. /\ tip' = saved.tip /\ dayLog' = saved.dayLog /\ daySeq' = saved.daySeq
      /\ dayMark' = saved.dayMark /\ dayGenesis' = saved.dayGenesis
      /\ call' = call /\ today' = today
    BY DEF Restart
<1>2. Clean /\ "gapSeq" \notin savedGaps /\ \A w \in Writers : ~InWindow(w)
    BY DEF Restart, Clean
<1>3. /\ \A d \in Days :
            /\ d > today => saved.dayLog[d] = <<>>
            /\ saved.dayGenesis[d] = Absent <=> saved.dayLog[d] = <<>>
            /\ saved.daySeq[d] = Len(saved.dayLog[d])
            /\ VerifyDay(saved.dayLog[d], saved.dayGenesis[d], saved.dayMark[d])
      /\ saved.dayLog[today] # <<>> =>
            saved.dayLog[today][Len(saved.dayLog[today])].hash = saved.tip
    BY <1>2 DEF SavedInv
<1>4. \A w \in Writers : ~InWindow(w)' /\ ~TookSeq(w)' /\ call'[w].pc # "exec"
    BY <1>1, <1>2 DEF InWindow, Window, TookSeq
<1>5. \A d \in Days : DayVerifies(d)'
    BY <1>1, <1>3 DEF DayVerifies, VerifyDay, Linked, LastHash, DayStart
<1>6. CalendarInv'
    BY <1>1, <1>3, <1>4 DEF CalendarInv
<1>7. DayInv'
    BY <1>1, <1>3, <1>4, <1>5 DEF DayInv
<1> QED
    BY <1>6, <1>7

LEMMA DaysAcross ==
    ASSUME TypeOK, SavedTypeOK, ModeInv, TurnInv, DaysInv, [FaultsNext]_faultsVars
    PROVE  DaysInv'
<1>1. CASE [Next]_vars /\ losses' = losses
  <2> SUFFICES ASSUME losses = 0 PROVE SavedInv' /\ (Clean' => CalendarInv' /\ DayInv')
      BY <1>1 DEF DaysInv
  <2>1. SavedInv /\ (Clean => CalendarInv /\ DayInv)
      BY DEF DaysInv
  <2>2. incidents \subseteq incidents'
      BY <1>1, ChainSteps
  <2>3. Clean' => CalendarInv' /\ DayInv'
    <3>1. Clean' => Clean
        BY <2>2 DEF Clean
    <3> QED
        BY <1>1, <2>1, <3>1, CalendarInductive, DayInductive
  <2>4. SavedInv'
    <3>1. CASE UNCHANGED <<saved, savedGaps>>
      <4>1. today' = today \/ today' = today + 1
          BY <1>1, LogToday
      <4>2. today' \in Days
          BY <1>1, TypeInductive DEF TypeOK
      <4> QED
          BY <2>1, <2>2, <3>1, <4>1, <4>2, SavedFrame
    <3>2. CASE Fsync
        BY <2>1, <3>2, SavedByFsync
    <3> QED
        BY <3>1, <3>2, SavedSteps
  <2> QED
      BY <2>3, <2>4
<1>2. CASE Restart /\ losses' = losses
  <2> SUFFICES ASSUME losses = 0 PROVE SavedInv' /\ (Clean' => CalendarInv' /\ DayInv')
      BY <1>2 DEF DaysInv
  <2>1. SavedInv /\ (Clean => CalendarInv /\ DayInv)
      BY DEF DaysInv
  <2>2. SavedInv'
    <3>1. /\ UNCHANGED <<saved, savedGaps>> /\ today' = today
          /\ incidents \subseteq incidents' /\ today' \in Days
        BY <1>2 DEF Restart, TypeOK
    <3> QED
        BY <2>1, <3>1, SavedFrame
  <2> QED
      BY <1>2, <2>1, <2>2, DaysByRestart
<1>3. ASSUME NEW d \in Days, Deletion(d) PROVE DaysInv'
  <2>1. losses' # 0
      BY <1>3, DeletionEffect DEF ModeInv
  <2> QED
      BY <2>1 DEF DaysInv
<1> QED
    BY <1>1, <1>2, <1>3, FaultsSteps

LEMMA DaysInit == FaultsInit => TurnInv /\ DaysInv
<1> SUFFICES ASSUME FaultsInit PROVE TurnInv /\ DaysInv
    OBVIOUS
<1>1. Init /\ saved = Snapshot
    BY DEF FaultsInit, RecoveryInit
<1>2. \A w \in Writers : ~InWindow(w) /\ ~TookSeq(w) /\ call[w].pc # "exec"
    BY <1>1 DEF Init, InWindow, Window, TookSeq, Idle
<1>3. \A d \in Days : DayVerifies(d) /\ Len(dayLog[d]) = 0
    BY <1>1 DEF Init, DayVerifies, VerifyDay, Linked
<1>4. TurnInv
    BY <1>2 DEF TurnInv
<1>5. CalendarInv /\ DayInv
    BY <1>1, <1>2, <1>3 DEF Init, CalendarInv, DayInv
<1>6. /\ saved.tip = tip /\ saved.dayLog = dayLog /\ saved.daySeq = daySeq
      /\ saved.dayMark = dayMark /\ saved.dayGenesis = dayGenesis
    BY <1>1 DEF Snapshot
<1>7. today \in Days
    BY TypesInit DEF TypeOK
<1>8. SavedInv
    BY <1>1, <1>3, <1>6, <1>7 DEF Init, SavedInv, DayVerifies
<1> QED
    BY <1>4, <1>5, <1>8 DEF DaysInv

LEMMA DaysHold == FaultsSpec => [](TurnInv /\ DaysInv)
<1>1. /\ TypeOK /\ SavedTypeOK /\ ModeInv /\ TurnInv /\ DaysInv
      /\ [FaultsNext]_faultsVars
      => TurnInv' /\ DaysInv'
    BY TurnsAcross, DaysAcross
<1> QED
    BY DaysInit, <1>1, TypesHold, AnchoredHold, PTL DEF FaultsSpec

\* The tip, the counters and the days go back together: a day fails after a
\* restart only if a call was under way, or had died past its day's counter.
THEOREM RestartsKeepDays == FaultsSpec => []RestartKeepsDays
<1>1. DaysInv => RestartKeepsDays
    BY DEF DaysInv, RestartKeepsDays, DaysVerify, Clean, DayInv
<1> QED
    BY <1>1, DaysHold, PTL

-----------------------------------------------------------------------------
(* A verification next to the writers.                                     *)

CheckStages == {"idle", "genesis", "mark", "done"}

\* The call of verify_chain, field by field.
LEMMA CheckFields ==
    ASSUME NEW c \in Check, NEW g, NEW b, NEW p, NEW e,
           e = [c EXCEPT !.genesis = g, !.ok = b, !.pc = p]
    PROVE  /\ e.pc = p /\ e.ok = b /\ e.genesis = g
           /\ e.day = c.day /\ e.log = c.log /\ e.raced = c.raced
           /\ g \in Nat \cup {Absent} /\ b \in BOOLEAN /\ p \in CheckStages
              => e \in Check
    BY Zenon DEF Check, CheckStages

LEMMA MarkFields ==
    ASSUME NEW c \in Check, NEW b \in BOOLEAN,
           NEW p \in {"idle", "genesis", "mark", "done"}
    PROVE  LET e == [c EXCEPT !.ok = b, !.pc = p]
           IN  /\ e \in Check
               /\ e.pc = p /\ e.ok = b /\ e.genesis = c.genesis
               /\ e.day = c.day /\ e.log = c.log /\ e.raced = c.raced
    BY Zenon DEF Check

LEMMA RacedFields ==
    ASSUME NEW c \in Check
    PROVE  LET e == [c EXCEPT !.raced = TRUE]
           IN  /\ e \in Check /\ e.raced
               /\ e.pc = c.pc /\ e.day = c.day /\ e.log = c.log
               /\ e.ok = c.ok /\ e.genesis = c.genesis
    BY Zenon DEF Check

\* The entries of log are the first ones of all.
Whole(log, all) ==
    /\ Len(log) <= Len(all)
    /\ \A k \in 1..Len(log) : log[k] = all[k]

\* What a check has read is how its day is, unless a step raced it; and it is
\* how the day began, unless the day has expired.
CheckInv ==
    /\ check \in Check
    /\ ~check.raced /\ Reading => check.log = dayLog[check.day]
    /\ ~check.raced /\ check.pc = "mark" => check.genesis = dayGenesis[check.day]
    /\ check.pc = "done" /\ ~check.ok => check.raced \/ ~Clean
    /\ Reading => Gone(check.day) \/ Whole(check.log, dayLog[check.day])

\* The genesis of a day is written with its list, and dropped with its
\* watermark.
LEMMA GenesisFollows ==
    ASSUME TypeOK, [Next]_vars, NEW d \in Days,
           dayLog'[d] = dayLog[d], dayMark'[d] = dayMark[d]
    PROVE  dayGenesis'[d] = dayGenesis[d]
<1>1. ASSUME NEW w \in Writers, Exec(w) PROVE dayGenesis'[d] = dayGenesis[d]
  <2>1. PICK d0 \in Days, x \in Entry : d0 = call[w].day /\ dayLog'[d0] = Append(dayLog[d0], x)
      BY <1>1, ExecEffect
  <2>2. Len(dayLog[d0]) \in Nat /\ Len(dayLog'[d0]) = Len(dayLog[d0]) + 1
      BY <2>1 DEF TypeOK
  <2>3. d # d0
      BY <2>2
  <2> QED
      BY <1>1, <2>1, <2>3 DEF Exec, TypeOK
<1>2. ASSUME NEW o \in Days, Expire(o) PROVE dayGenesis'[d] = dayGenesis[d]
    BY <1>2 DEF Expire, TypeOK
<1>3. \/ dayGenesis' = dayGenesis
      \/ \E w \in Writers : Exec(w)
      \/ \E o \in Days : Expire(o)
    BY DEF Next, Step, Start, ReadTip, IncrGseq, IncrSeq, ReadGenesis, Mirror,
           Interrupt, NextDay, vars, redis, ghosts, dayKeys
<1> QED
    BY <1>1, <1>2, <1>3

\* A list that was read stays the beginning of its day.
LEMMA LogKeepsWhole ==
    ASSUME TypeOK, [Next]_vars, NEW d \in Days, NEW log \in Seq(Entry),
           Gone(d) \/ Whole(log, dayLog[d])
    PROVE  Gone(d)' \/ Whole(log, dayLog[d])'
<1>0. today \in Nat /\ d \in Nat /\ dayLog[d] \in Seq(Entry)
    BY DEF TypeOK, Days
<1>1. CASE Aside(d)
  <2>1. Gone(d) => Gone(d)'
      BY <1>1, GoneFrame DEF Aside
  <2> QED
      BY <1>1, <2>1 DEF Aside, Whole
<1>2. ASSUME NEW w \in Writers, Exec(w) PROVE Gone(d)' \/ Whole(log, dayLog[d])'
  <2>1. PICK d0 \in Days, x \in Entry :
              /\ d0 = call[w].day
              /\ dayLog'[d0] = Append(dayLog[d0], x)
              /\ \A o \in Days \ {d0} : dayLog'[o] = dayLog[o] /\ dayMark'[o] = dayMark[o]
      BY <1>2, ExecEffect
  <2>2. /\ InWindow(w) /\ today' = today
        /\ \A v \in Writers : InWindow(v)' => InWindow(v) /\ call'[v].day = call[v].day
    <3>1. /\ InWindow(w) /\ today' = today /\ call'[w].pc = "mirror"
          /\ \A v \in Writers \ {w} : call'[v] = call[v]
        BY <1>2 DEF Exec, TypeOK, InWindow, Window
    <3> QED
        BY <3>1 DEF InWindow, Window
  <2>3. Gone(d) => d # d0
      BY <2>1, <2>2 DEF Gone
  <2>4. Gone(d) => Gone(d)'
      BY <2>1, <2>2, <2>3 DEF Gone
  <2>5. ASSUME Whole(log, dayLog[d]) PROVE Whole(log, dayLog'[d])
    <3>1. CASE d = d0
      <4>1. /\ Len(dayLog[d]) \in Nat /\ Len(dayLog'[d]) = Len(dayLog[d]) + 1
            /\ \A k \in 1..Len(dayLog[d]) : dayLog'[d][k] = dayLog[d][k]
        <5>1. dayLog'[d] = Append(dayLog[d], x)
            BY <2>1, <3>1
        <5> QED
            BY <1>0, <2>1, <5>1, AppendProperties
      <4> QED
          BY <1>0, <2>5, <4>1, SMTT(30) DEF Whole
    <3>2. CASE d # d0
        BY <2>1, <2>5, <3>2
    <3> QED
        BY <3>1, <3>2
  <2> QED
      BY <2>4, <2>5 DEF Whole
<1>3. ASSUME NEW w \in Writers, IncrSeq(w) PROVE Gone(d)' \/ Whole(log, dayLog[d])'
  <2>1. /\ dayLog' = dayLog /\ dayMark' = dayMark /\ today' = today
        /\ \A v \in Writers : InWindow(v)' => InWindow(v) /\ call'[v].day = call[v].day
      BY <1>3 DEF IncrSeq, TypeOK, InWindow, Window
  <2> QED
      BY <2>1 DEF Gone, Whole
<1>4. CASE Expire(d)
  <2>1. /\ dayMark'[d] = Absent /\ today' = today /\ call' = call
        /\ \A w \in Writers : InWindow(w) => call[w].day # d
      BY <1>4 DEF Expire, TypeOK
  <2>2. d < today
      BY <1>0, <1>4, BoundsAssumption DEF Expire, Days
  <2> QED
      BY <2>1, <2>2 DEF Gone, InWindow
<1> QED
    BY <1>1, <1>2, <1>3, <1>4, LogAside

LEMMA CheckLogged ==
    ASSUME TypeOK, CheckInv, CheckLogStep
    PROVE  CheckInv'
<1>1. [Next]_vars /\ incidents \subseteq incidents'
    BY ChainSteps DEF CheckLogStep
<1> DEFINE Raced == /\ Reading
                    /\ \/ dayLog'[check.day] # dayLog[check.day]
                       \/ dayMark'[check.day] # dayMark[check.day]
<1>0. check' = IF Raced THEN [check EXCEPT !.raced = TRUE] ELSE check
    BY DEF CheckLogStep
<1>2. check' = check \/ check' = [check EXCEPT !.raced = TRUE]
    BY <1>0
<1>3. /\ check' \in Check
      /\ check'.pc = check.pc /\ check'.day = check.day /\ check'.log = check.log
      /\ check'.ok = check.ok /\ check'.genesis = check.genesis
      /\ check.raced => check'.raced
    BY <1>2, RacedFields DEF CheckInv
<1>4. check.day \in Days /\ check.log \in Seq(Entry)
    BY DEF CheckInv, Check
<1>5. Clean' => Clean
    BY <1>1 DEF Clean
<1>6. Reading' <=> Reading
    BY <1>3 DEF Reading
<1>7. ~check'.raced /\ Reading =>
         /\ ~check.raced
         /\ dayLog'[check.day] = dayLog[check.day]
         /\ dayMark'[check.day] = dayMark[check.day]
  <2>1. [check EXCEPT !.raced = TRUE].raced
      BY RacedFields DEF CheckInv
  <2>2. ~check'.raced => ~Raced
      BY <1>0, <2>1
  <2> QED
      BY <1>3, <2>2
<1>8. ~check'.raced /\ Reading => dayGenesis'[check.day] = dayGenesis[check.day]
    BY <1>1, <1>4, <1>7, GenesisFollows
<1>9. check.pc = "mark" => Reading
    BY DEF Reading
<1>10. Reading => Gone(check.day) \/ Whole(check.log, dayLog[check.day])
    BY DEF CheckInv
<1>11. PICK d \in Days, log \in Seq(Entry) : d = check.day /\ log = check.log
    BY <1>4
<1>12. Gone(d) \/ Whole(log, dayLog[d]) => Gone(d)' \/ Whole(log, dayLog[d])'
    BY <1>1, LogKeepsWhole
<1>13. Reading' => Gone(d)' \/ Whole(log, dayLog[d])'
    BY <1>6, <1>10, <1>11, <1>12
<1>14. Reading' => Gone(check.day)' \/ Whole(check.log, dayLog[check.day])'
    BY <1>3, <1>11, <1>13 DEF Gone, Whole
<1>15. ~check'.raced /\ Reading' => check'.log = dayLog'[check'.day]
    BY <1>3, <1>6, <1>7 DEF CheckInv
<1>16. ~check'.raced /\ check'.pc = "mark" => check'.genesis = dayGenesis'[check'.day]
    BY <1>3, <1>7, <1>8, <1>9 DEF CheckInv
<1>17. check'.pc = "done" /\ ~check'.ok => check'.raced \/ ~Clean'
    BY <1>3, <1>5 DEF CheckInv
<1> QED
    BY <1>3, <1>14, <1>15, <1>16, <1>17 DEF CheckInv

LEMMA CheckReads ==
    ASSUME TypeOK, CheckInv, Clean => DayInv, NEW d0 \in Days,
           ReadList(d0) \/ ReadDayGenesis \/ VerifyMark
    PROVE  CheckInv'
<1>0. /\ check \in Check /\ check.day \in Days /\ check.log \in Seq(Entry)
    BY DEF CheckInv, Check
<1>1. CASE ReadList(d0)
  <2>1. /\ check' = [pc |-> "genesis", day |-> d0, log |-> dayLog[d0],
                     genesis |-> Absent, ok |-> TRUE, raced |-> FALSE]
        /\ dayLog' = dayLog
      BY <1>1 DEF ReadList, vars, redis
  <2>2. dayLog[d0] \in Seq(Entry) /\ Len(dayLog[d0]) \in Nat
      BY DEF TypeOK
  <2>3. check' \in Check
      BY <2>1, <2>2 DEF Check
  <2>4. check'.pc = "genesis" /\ check'.day = d0 /\ check'.log = dayLog[d0]
      BY <2>1
  <2>5. Whole(check.log, dayLog[check.day])'
      BY <2>1, <2>2, <2>4 DEF Whole
  <2> QED
      BY <2>1, <2>3, <2>4, <2>5 DEF CheckInv
<1>2. CASE ReadDayGenesis
  <2> DEFINE g == dayGenesis[check.day]
             b == Linked(DayStart(g), check.log)
             p == IF b THEN "mark" ELSE "done"
  <2>1. /\ check.pc = "genesis" /\ check' = [check EXCEPT !.genesis = g, !.ok = b, !.pc = p]
        /\ UNCHANGED vars
      BY <1>2 DEF ReadDayGenesis
  <2>2. g \in Nat \cup {Absent} /\ p \in CheckStages
      BY <1>0 DEF TypeOK, CheckStages
  <2>3. b \in BOOLEAN
      BY DEF Linked
  <2>4. ~b /\ ~check.raced => ~Clean
    <3>1. ~check.raced => check.log = dayLog[check.day]
        BY <2>1 DEF CheckInv, Reading
    <3>2. Clean => DayVerifies(check.day)
        BY <1>0 DEF DayInv
    <3> QED
        BY <3>1, <3>2 DEF DayVerifies, VerifyDay
  <2>5. (b => p = "mark") /\ (~b => p = "done")
      OBVIOUS
  <2> HIDE DEF g, b, p
  <2>6. /\ check' \in Check
        /\ check'.pc = p /\ check'.ok = b /\ check'.genesis = g
        /\ check'.day = check.day /\ check'.log = check.log /\ check'.raced = check.raced
    <3> DEFINE e == check'
    <3>1. e = [check EXCEPT !.genesis = g, !.ok = b, !.pc = p]
        BY <2>1
    <3> HIDE DEF e
    <3>2. /\ e.pc = p /\ e.ok = b /\ e.genesis = g
          /\ e.day = check.day /\ e.log = check.log /\ e.raced = check.raced
          /\ g \in Nat \cup {Absent} /\ b \in BOOLEAN /\ p \in CheckStages
             => e \in Check
        BY <1>0, <3>1, Zenon DEF Check, CheckStages
    <3>3. e \in Check
        BY <2>2, <2>3, <3>2, Zenon
    <3> QED
        BY <3>2, <3>3, Zenon DEF e
  <2>7. /\ ~check'.raced /\ Reading' => check'.log = dayLog'[check'.day]
        /\ ~check'.raced /\ check'.pc = "mark" => check'.genesis = dayGenesis'[check'.day]
      BY <2>1, <2>6 DEF CheckInv, Reading, vars, redis, g
  <2>8. check'.pc = "done" /\ ~check'.ok => check'.raced \/ ~Clean'
      BY <2>1, <2>4, <2>5, <2>6 DEF vars, ghosts, Clean
  <2>9. Reading' => Gone(check.day)' \/ Whole(check.log, dayLog[check.day])'
      BY <2>1, <2>6 DEF CheckInv, Reading, vars, redis, Gone, Whole, InWindow
  <2> QED
      BY <2>6, <2>7, <2>8, <2>9 DEF CheckInv
<1>3. CASE VerifyMark
  <2> DEFINE b == VerifyDay(check.log, check.genesis, dayMark[check.day])
  <2>1. /\ check.pc = "mark" /\ check' = [check EXCEPT !.ok = b, !.pc = "done"]
        /\ UNCHANGED vars
      BY <1>3 DEF VerifyMark
  <2>2. b \in BOOLEAN
      BY DEF VerifyDay
  <2>3. ~b /\ ~check.raced => ~Clean
    <3>1. ~check.raced => check.log = dayLog[check.day] /\ check.genesis = dayGenesis[check.day]
        BY <2>1 DEF CheckInv, Reading
    <3>2. Clean => DayVerifies(check.day)
        BY <1>0 DEF DayInv
    <3> QED
        BY <3>1, <3>2 DEF DayVerifies
  <2> HIDE DEF b
  <2>4. /\ check' \in Check
        /\ check'.pc = "done" /\ check'.ok = b /\ check'.raced = check.raced
    <3> DEFINE e == [check EXCEPT !.ok = b, !.pc = "done"]
    <3>1. /\ e \in Check
          /\ e.pc = "done" /\ e.ok = b /\ e.raced = check.raced
      <4>1. check \in Check /\ "done" \in {"idle", "genesis", "mark", "done"}
          BY <1>0
      <4> QED
          BY <2>2, <4>1, Zenon DEF Check
    <3> QED
        BY <2>1, <3>1
  <2>5. check'.pc = "done" /\ ~check'.ok => check'.raced \/ ~Clean'
      BY <2>1, <2>3, <2>4 DEF vars, ghosts, Clean
  <2> QED
      BY <2>4, <2>5 DEF CheckInv, Reading
<1> QED
    BY <1>1, <1>2, <1>3

\* A step that is not of a check, or not of a behaviour that has one.
LEMMA CheckStays ==
    ASSUME ModeInv, CheckInv, meets # "check", check' = check
    PROVE  CheckInv'
BY DEF ModeInv, CheckInv, Reading

LEMMA CheckInductive ==
    ASSUME TypeOK, ModeInv, DaysInv, CheckInv, [FaultsNext]_faultsVars
    PROVE  CheckInv'
<1>1. CASE meets = "check" /\ CheckNext
  <2>1. Clean => DayInv
    <3>1. losses = 0
        BY <1>1 DEF ModeInv
    <3> QED
        BY <3>1 DEF DaysInv
  <2> QED
      BY <1>1, <2>1, CheckReads, CheckLogged, BoundsAssumption DEF CheckNext, Days
<1>2. CASE meets # "check" /\ check' = check
    BY <1>2, CheckStays
<1>3. CASE UNCHANGED faultsVars
    BY <1>3 DEF faultsVars, vars, redis, ghosts, CheckInv, Reading, Clean, Gone,
                InWindow, Whole
<1> QED
    BY <1>1, <1>2, <1>3 DEF FaultsNext

LEMMA CheckHolds == FaultsSpec => []CheckInv
<1>1. FaultsInit => CheckInv
  <2> SUFFICES ASSUME FaultsInit PROVE CheckInv
      OBVIOUS
  <2>1. check = [pc |-> "idle", day |-> 1, log |-> <<>>, genesis |-> Absent,
                ok |-> TRUE, raced |-> FALSE]
      BY DEF FaultsInit, CheckInit
  <2>2. 1 \in Days /\ <<>> \in Seq(Entry)
      BY BoundsAssumption DEF Days
  <2>3. check \in Check
      BY <2>1, <2>2 DEF Check
  <2>4. check.pc = "idle"
      BY <2>1
  <2> QED
      BY <2>3, <2>4 DEF CheckInv, Reading
<1>2. TypeOK /\ ModeInv /\ DaysInv /\ CheckInv /\ [FaultsNext]_faultsVars => CheckInv'
    BY CheckInductive
<1> QED
    BY <1>1, <1>2, TypesHold, AnchoredHold, DaysHold, PTL DEF FaultsSpec

\* The three reads of verify_chain are not atomic, and still its false verdict
\* is about the day: nothing wrote to it in between and no call is to blame
\* only if the day itself does not verify.
THEOREM FalseExplained == FaultsSpec => []FalseIsExplained
<1>1. CheckInv => FalseIsExplained
    BY DEF CheckInv, FalseIsExplained, Clean
<1> QED
    BY <1>1, CheckHolds, PTL

-----------------------------------------------------------------------------
(* What a verdict stands for when it is given.                             *)

\* A watermark is of the last entry of its day's list, its number is not 0,
\* and no two entries of the list have one hash.
TailOf(d) ==
    /\ \A w \in Writers : TookSeq(w) /\ call[w].day = d => call[w].seq >= 1
    /\ dayMark[d] # Absent =>
          /\ Len(dayLog[d]) > 0
          /\ dayMark[d].seq >= 1
          /\ dayMark[d].hash = dayLog[d][Len(dayLog[d])].hash
    /\ \A i, j \in 1..Len(dayLog[d]) : dayLog[d][i].hash = dayLog[d][j].hash => i = j

TailInv == restarts = 0 /\ losses = 0 => \A d \in Days : TailOf(d)

LEMMA TailStep ==
    ASSUME TypeOK, IdInv, ListInv, [Next]_vars, restarts = 0, NEW d \in Days, TailOf(d)
    PROVE  TailOf(d)'
<1>0. daySeq[d] \in Nat /\ dayLog[d] \in Seq(Entry) /\ Len(dayLog[d]) \in Nat
    BY DEF TypeOK
<1>1. CASE Aside(d)
    BY <1>1 DEF Aside, TailOf
<1>2. ASSUME NEW w \in Writers, IncrSeq(w), call[w].day = d PROVE TailOf(d)'
  <2>1. /\ dayLog' = dayLog /\ dayMark' = dayMark
        /\ call'[w].seq = daySeq[d] + 1
        /\ \A v \in Writers \ {w} : call'[v] = call[v]
      BY <1>2 DEF IncrSeq, TypeOK
  <2>2. call'[w].seq >= 1
      BY <1>0, <2>1
  <2>3. \A v \in Writers : TookSeq(v)' /\ call'[v].day = d => call'[v].seq >= 1
      BY <2>1, <2>2 DEF TailOf, TookSeq
  <2> QED
      BY <2>1, <2>3 DEF TailOf
<1>3. CASE Expire(d)
  <2>1. dayLog'[d] = <<>> /\ dayMark'[d] = Absent /\ call' = call
      BY <1>3 DEF Expire, TypeOK
  <2>2. Len(dayLog'[d]) = 0
      BY <2>1
  <2> QED
      BY <2>1, <2>2 DEF TailOf, TookSeq
<1>4. ASSUME NEW w \in Writers, Exec(w) PROVE TailOf(d)'
  <2>1. PICK o \in Days, x \in Entry, e \in Logged :
              /\ o = call[w].day /\ e.hash = call[w].id /\ x.hash = e.hash
              /\ dayLog'[o] = Append(dayLog[o], x)
              /\ dayMark'[o].seq = call[w].seq /\ dayMark'[o].hash = e.hash
              /\ \A b \in Days \ {o} : dayLog'[b] = dayLog[b] /\ dayMark'[b] = dayMark[b]
      BY <1>4, ExecEffect
  <2>2. /\ InWindow(w) /\ TookSeq(w) /\ call'[w].pc = "mirror"
        /\ \A v \in Writers \ {w} : call'[v] = call[v]
      BY <1>4 DEF Exec, TypeOK, InWindow, Window, TookSeq
  <2>3. \A v \in Writers : TookSeq(v)' => v # w
      BY <2>2 DEF TookSeq
  <2>4. \A v \in Writers : TookSeq(v)' /\ call'[v].day = d => call'[v].seq >= 1
      BY <2>2, <2>3 DEF TailOf, TookSeq
  <2>5. CASE o # d
      BY <2>1, <2>4, <2>5 DEF TailOf
  <2>6. CASE o = d
    <3>1. /\ Len(dayLog'[d]) = Len(dayLog[d]) + 1
          /\ dayLog'[d][Len(dayLog[d]) + 1] = x
          /\ \A k \in 1..Len(dayLog[d]) : dayLog'[d][k] = dayLog[d][k]
        BY <1>0, <2>1, <2>6
    <3>2. \A k \in 1..Len(dayLog[d]) : dayLog[d][k].hash # x.hash
      <4> SUFFICES ASSUME NEW k \in 1..Len(dayLog[d]), dayLog[d][k].hash = x.hash PROVE FALSE
          OBVIOUS
      <4>1. Logs(d, x.hash)
          BY DEF ListInv
      <4>2. \A n \in 1..Len(history) : history[n].hash # x.hash
          BY <2>1, <2>2 DEF IdInv
      <4> QED
          BY <4>1, <4>2 DEF Logs
    <3>3. dayMark'[d].seq >= 1
        BY <2>1, <2>2, <2>6 DEF TailOf
    <3>4. \A i, j \in 1..Len(dayLog'[d]) :
              dayLog'[d][i].hash = dayLog'[d][j].hash => i = j
      <4> SUFFICES ASSUME NEW i \in 1..Len(dayLog'[d]), NEW j \in 1..Len(dayLog'[d]),
                          dayLog'[d][i].hash = dayLog'[d][j].hash
                   PROVE  i = j
          OBVIOUS
      <4>1. /\ i \in 1..Len(dayLog[d]) \/ i = Len(dayLog[d]) + 1
            /\ j \in 1..Len(dayLog[d]) \/ j = Len(dayLog[d]) + 1
          BY <1>0, <3>1
      <4>2. CASE i \in 1..Len(dayLog[d]) /\ j \in 1..Len(dayLog[d])
          BY <3>1, <4>2 DEF TailOf
      <4> QED
          BY <3>1, <3>2, <4>1, <4>2
    <3>5. Len(dayLog'[d]) > 0 /\ dayLog'[d][Len(dayLog'[d])] = x
        BY <1>0, <3>1
    <3> QED
        BY <2>1, <2>4, <2>6, <3>3, <3>4, <3>5 DEF TailOf
  <2> QED
      BY <2>5, <2>6
<1> QED
    BY <1>1, <1>2, <1>3, <1>4, LogAside

LEMMA TailInductive ==
    ASSUME TypeOK, IdInv, ListInv, ModeInv, TailInv, [FaultsNext]_faultsVars
    PROVE  TailInv'
<1>1. CASE [Next]_vars /\ restarts' = restarts /\ losses' = losses
    BY <1>1, TailStep DEF TailInv
<1>2. CASE Restart
  <2>1. restarts' # 0
      BY <1>2 DEF Restart, ModeInv
  <2> QED
      BY <2>1 DEF TailInv
<1>3. ASSUME NEW d \in Days, Deletion(d) PROVE TailInv'
  <2>1. losses' # 0
      BY <1>3, DeletionEffect DEF ModeInv
  <2> QED
      BY <2>1 DEF TailInv
<1> QED
    BY <1>1, <1>2, <1>3, FaultsSteps

LEMMA TailHolds == FaultsSpec => []TailInv
<1>1. FaultsInit => TailInv
  <2> SUFFICES ASSUME FaultsInit PROVE TailInv
      OBVIOUS
  <2>1. Init
      BY DEF FaultsInit, RecoveryInit
  <2> QED
      BY <2>1 DEF Init, Idle, TailInv, TailOf, TookSeq
<1>2. /\ TypeOK /\ IdInv /\ ListInv /\ ModeInv /\ TailInv /\ [FaultsNext]_faultsVars
      => TailInv'
    BY TailInductive
<1> QED
    BY <1>1, <1>2, TypesHold, AnchoredHold, PTL DEF FaultsSpec

\* A list that begins as its day does, and ends in the entry of the watermark
\* with the watermark's number, is the day's.
LEMMA TailIsAll ==
    ASSUME NEW d \in Days, dayLog[d] \in Seq(Entry), TailOf(d), dayMark[d] # Absent,
           NEW log \in Seq(Entry), Whole(log, dayLog[d]), NEW genesis,
           VerifyDay(log, genesis, dayMark[d])
    PROVE  dayLog[d] = log
<1>1. Len(log) \in Nat /\ Len(dayLog[d]) \in Nat
    OBVIOUS
<1>2. dayMark[d].seq = Len(log) /\ dayMark[d].seq >= 1
    BY DEF VerifyDay, TailOf
<1>3. log # <<>>
    BY <1>1, <1>2
<1>4. dayMark[d].hash = log[Len(log)].hash
    BY <1>3 DEF VerifyDay, LastHash
<1>5. /\ Len(log) \in 1..Len(dayLog[d]) /\ Len(dayLog[d]) \in 1..Len(dayLog[d])
      /\ log[Len(log)] = dayLog[d][Len(log)]
    BY <1>1, <1>2 DEF Whole
<1>6. dayLog[d][Len(log)].hash = dayLog[d][Len(dayLog[d])].hash
    BY <1>4, <1>5 DEF TailOf
<1>7. Len(log) = Len(dayLog[d])
    BY <1>5, <1>6 DEF TailOf
<1> QED
    BY <1>7, SeqEqual DEF Whole

\* What the verdict says of the list that was read is true of the day, however
\* many calls wrote to it since: a list that grew ends in another entry than
\* the watermark's.
THEOREM OkVerdictsCurrent == FaultsSpec => OkIsCurrent
<1>1. TypeOK /\ ModeInv /\ TailInv /\ CheckInv =>
        [VerifyMark /\ check'.ok =>
            dayLog[check.day] = check.log \/ dayMark[check.day] = Absent]_checkVars
  <2> SUFFICES ASSUME TypeOK, ModeInv, TailInv, CheckInv, VerifyMark, check'.ok,
                      dayMark[check.day] # Absent
               PROVE  dayLog[check.day] = check.log
      OBVIOUS
  <2>1. check.pc = "mark" /\ VerifyDay(check.log, check.genesis, dayMark[check.day])
    <3>1. check.pc = "mark"
        BY DEF VerifyMark
    <3>2. check \in Check
        BY DEF CheckInv
    <3> DEFINE b == VerifyDay(check.log, check.genesis, dayMark[check.day])
    <3>3. check' = [check EXCEPT !.ok = b, !.pc = "done"]
        BY DEF VerifyMark
    <3>4. b \in BOOLEAN
        BY DEF VerifyDay
    <3> HIDE DEF b
    <3>5. check'.ok = b
        BY <3>2, <3>3, <3>4, MarkFields
    <3> QED
        BY <3>1, <3>4, <3>5 DEF b
  <2>2. PICK d \in Days, log \in Seq(Entry) : d = check.day /\ log = check.log
      BY DEF CheckInv, Check
  <2>3. restarts = 0 /\ losses = 0
    <3>1. meets = "check"
        BY <2>1 DEF ModeInv
    <3> QED
        BY <3>1 DEF ModeInv
  <2>4. TailOf(d) /\ dayLog[d] \in Seq(Entry)
      BY <2>3 DEF TailInv, TypeOK
  <2>5. Whole(log, dayLog[d])
      BY <2>1, <2>2 DEF CheckInv, Reading, Gone
  <2> QED
      BY <2>1, <2>2, <2>4, <2>5, TailIsAll
<1> QED
    BY <1>1, TypesHold, AnchoredHold, TailHolds, CheckHolds, PTL DEF OkIsCurrent

=============================================================================
