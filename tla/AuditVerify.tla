----------------------------- MODULE AuditVerify ----------------------------
(***************************************************************************)
(* GET /audit/verify while the log is being written: verify_chain reads    *)
(* the day's list, its genesis and its watermark in three round trips, and *)
(* calls of log_event, midnight and expiry run in between.                 *)
(***************************************************************************)
EXTENDS AuditChain

CONSTANT MaxChecks      \* bound: calls of verify_chain

ASSUME ChecksAssumption == MaxChecks \in Nat \ {0}

VARIABLES
    check,      \* the call of verify_chain: its next read and what it holds
    checks      \* calls so far

checkVars == <<vars, check, checks>>

Check == [pc : {"idle", "genesis", "mark", "done"}, day : Days,
          log : Seq(Entry), genesis : Nat \cup {Absent},
          ok : BOOLEAN, raced : BOOLEAN]

Reading == check.pc \in {"genesis", "mark"}

CheckInit ==
    /\ Init
    /\ check = [pc |-> "idle", day |-> 1, log |-> <<>>, genesis |-> Absent,
                ok |-> TRUE, raced |-> FALSE]
    /\ checks = 0

\* LRANGE of the day that was asked for.
ReadList(d) ==
    /\ check.pc \in {"idle", "done"}
    /\ checks < MaxChecks
    /\ d <= today
    /\ checks' = checks + 1
    /\ check' = [pc |-> "genesis", day |-> d, log |-> dayLog[d],
                 genesis |-> Absent, ok |-> TRUE, raced |-> FALSE]
    /\ UNCHANGED vars

\* GET of the day's genesis; the links are walked before the watermark is
\* read, and a broken one ends the call.
ReadDayGenesis ==
    LET genesis == dayGenesis[check.day]
        linked == Linked(DayStart(genesis), check.log)
    IN
    /\ check.pc = "genesis"
    /\ check' = [check EXCEPT !.genesis = genesis, !.ok = linked,
                              !.pc = IF linked THEN "mark" ELSE "done"]
    /\ UNCHANGED <<vars, checks>>

\* Mutant of VerifyMark: the watermark's HMAC is not compared.
VerifyMarkCount ==
    /\ check.pc = "mark"
    /\ check' = [check EXCEPT
          !.ok = /\ Linked(DayStart(check.genesis), check.log)
                 /\ dayMark[check.day] # Absent =>
                       dayMark[check.day].seq = Len(check.log),
          !.pc = "done"]
    /\ UNCHANGED <<vars, checks>>

\* Mutant of VerifyMark: a day without a watermark is refused.
VerifyMarkRequired ==
    /\ check.pc = "mark"
    /\ check' = [check EXCEPT
          !.ok = /\ dayMark[check.day] # Absent
                 /\ VerifyDay(check.log, check.genesis, dayMark[check.day]),
          !.pc = "done"]
    /\ UNCHANGED <<vars, checks>>

\* GET of the watermark, the last thing the verdict depends on.
VerifyMark ==
    /\ check.pc = "mark"
    /\ check' = [check EXCEPT
          !.ok = VerifyDay(check.log, check.genesis, dayMark[check.day]),
          !.pc = "done"]
    /\ UNCHANGED <<vars, checks>>

\* A step of the log; it races the check if it touches the day being read.
CheckLogStep ==
    /\ Next
    /\ check' = IF /\ Reading
                   /\ \/ dayLog'[check.day] # dayLog[check.day]
                      \/ dayMark'[check.day] # dayMark[check.day]
                THEN [check EXCEPT !.raced = TRUE] ELSE check
    /\ UNCHANGED checks

CheckNext ==
    \/ \E d \in Days : ReadList(d)
    \/ ReadDayGenesis
    \/ VerifyMark
    \/ CheckLogStep

CheckSpec == CheckInit /\ [][CheckNext]_checkVars

-----------------------------------------------------------------------------
\* An ok verdict is about the log as it is when the verdict is given, not
\* about the list that was read two round trips before: a list that has grown
\* since never passes, even where calls overlap.  Only expiry may overtake it.
OkIsCurrent ==
    [][VerifyMark /\ check'.ok =>
          dayLog[check.day] = check.log \/ dayMark[check.day] = Absent]_checkVars

\* A false verdict needs a cause other than the checker's three reads:
\* unless calls overlapped or one was cut short, some step wrote to the day
\* between the reads.
FalseIsExplained ==
    check.pc = "done" /\ ~check.ok =>
        check.raced \/ incidents \cap {"overlap", "gapSeq"} # {}
=============================================================================
