---------------------------- MODULE AuditRecovery ---------------------------
(***************************************************************************)
(* The audit log across a restart of Redis.  docker-compose.yml:8 runs it  *)
(* with appendfsync everysec, so a restart brings back the state of the    *)
(* last fsync: the tip, the counters and the days go back in time, while   *)
(* the anchors and the calls in flight do not.                             *)
(***************************************************************************)
EXTENDS AuditChain

CONSTANT MaxRestarts        \* bound: restarts that lose writes

ASSUME RestartsAssumption == MaxRestarts \in Nat

VARIABLES
    saved,          \* the Redis state that is on disk
    savedGaps,      \* counters in it that are ahead of their list
    restarts

recoveryVars == <<vars, saved, savedGaps, restarts>>

Snapshot == [tip |-> tip, gseq |-> gseq, dayLog |-> dayLog, daySeq |-> daySeq,
             dayMark |-> dayMark, dayGenesis |-> dayGenesis]

\* A call between a counter and its pipeline leaves Redis, for a while, as
\* an interrupted one leaves it for good.
OpenGaps ==
    (IF \E w \in Writers : call[w].pc \in {"seq", "genesis", "exec"}
     THEN {"gapGseq"} ELSE {})
    \cup
    (IF \E w \in Writers : call[w].pc \in {"genesis", "exec"}
     THEN {"gapSeq"} ELSE {})

RecoveryInit ==
    /\ Init
    /\ saved = Snapshot
    /\ savedGaps = {}
    /\ restarts = 0

\* The append-only file reaches the disk.
Fsync ==
    /\ saved' = Snapshot
    /\ savedGaps' = OpenGaps \cup (incidents \ {"overlap"})
    /\ UNCHANGED <<vars, restarts>>

\* Redis loses what it had not written out.  The gateway's calls live on
\* with what they have read, as if they overlapped with the loss; those that
\* meet the outage are Interrupt.
Restart ==
    /\ restarts < MaxRestarts
    /\ saved # Snapshot
    /\ tip' = saved.tip /\ gseq' = saved.gseq
    /\ dayLog' = saved.dayLog /\ daySeq' = saved.daySeq
    /\ dayMark' = saved.dayMark /\ dayGenesis' = saved.dayGenesis
    /\ restarts' = restarts + 1
    /\ incidents' = incidents \cup savedGaps
          \cup (IF \E w \in Writers : InWindow(w) THEN {"overlap"} ELSE {})
    /\ UNCHANGED <<today, rows, call, started, history, missing, faults,
                   saved, savedGaps>>

RecoveryLogStep ==
    /\ Next
    /\ UNCHANGED <<saved, savedGaps, restarts>>

RecoveryNext == Fsync \/ Restart \/ RecoveryLogStep

RecoverySpec == RecoveryInit /\ [][RecoveryNext]_recoveryVars

-----------------------------------------------------------------------------
Quiet == \A w \in Writers : call[w].pc = "idle"

Held(a, i) == \E r \in rows[a] : r.hash = history[i].hash

\* Records that an anchor refused because their numbers were already taken
\* show once it takes a record chained behind them, when calls take turns.
RefusalShows ==
    \A a \in Anchors :
        /\ Quiet
        /\ incidents = {}
        /\ \E i, j \in 1..Len(history) :
              i < j /\ history[i].hash = history[j].prev
                    /\ ~Held(a, i) /\ Held(a, j)
        => ~VerifyRows(rows[a])
=============================================================================
