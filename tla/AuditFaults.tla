----------------------------- MODULE AuditFaults ----------------------------
(***************************************************************************)
(* The audit log under the three things that happen to it besides its own  *)
(* calls: Redis restarts behind (AuditRecovery), entries are deleted       *)
(* (AuditLoss), a verification runs next to the writers (AuditVerify).     *)
(* One of them is met in a behaviour, chosen at its start; calls are cut   *)
(* short, or an anchor fails, only where a verification runs.              *)
(***************************************************************************)
EXTENDS AuditRecovery, AuditLoss, AuditVerify

VARIABLE meets      \* "restart", "loss" or "check"

faultsVars == <<meets, vars, saved, savedGaps, restarts, lost, lostDays, losses,
                check, checks>>

FaultsInit ==
    /\ meets \in {"restart", "loss", "check"}
    /\ RecoveryInit
    /\ LossInit
    /\ CheckInit

FaultsNext ==
    /\ UNCHANGED meets
    /\ \/ /\ meets = "restart"
          /\ RecoveryNext
          /\ UNCHANGED faults
          /\ UNCHANGED <<lost, lostDays, losses, check, checks>>
       \/ /\ meets = "loss"
          /\ LossNext
          /\ UNCHANGED faults
          /\ UNCHANGED <<saved, savedGaps, restarts, check, checks>>
       \/ /\ meets = "check"
          /\ CheckNext
          /\ UNCHANGED <<saved, savedGaps, restarts, lost, lostDays, losses>>

FaultsSpec == FaultsInit /\ [][FaultsNext]_faultsVars
-----------------------------------------------------------------------------
\* A restart that loses writes (docker-compose.yml:8) costs no day its
\* verification unless a call was under way: the tip, the counters and the days
\* go back together.
RestartKeepsDays == losses = 0 => DaysVerify
=============================================================================
