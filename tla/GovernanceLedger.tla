-------------------------- MODULE GovernanceLedger --------------------------
(***************************************************************************)
(* What the governance clients promise of a write (a monitored call, an    *)
(* audit event, a piece of evidence): it is recorded at most once, and     *)
(* one that ends is either on record or in the hands of the drop hook      *)
(* (sdk/typescript/src/index.ts:18-23: "buffer them here instead of losing *)
(* them silently").  Only a best-effort write may end with neither: its    *)
(* caller hears nothing of it.  Nothing here says how: no attempts, no     *)
(* messages, no keys.                                                      *)
(***************************************************************************)
EXTENDS Naturals

CONSTANTS
    Writes,
    BestEffort      \* the writes whose failures are logged and swallowed

VARIABLES
    recorded,       \* recorded[w]: how often the service holds write w
    outcome         \* outcome[w]: what its caller knows

ledgerVars == <<recorded, outcome>>

LedgerInit ==
    /\ recorded = [w \in Writes |-> 0]
    /\ outcome = [w \in Writes |-> "none"]

Submit(w) ==
    /\ outcome[w] = "none"
    /\ outcome' = [outcome EXCEPT ![w] = "pending"]
    /\ UNCHANGED recorded

\* The service may get to a write late: after its caller gave it up.
Record(w) ==
    /\ outcome[w] # "none"
    /\ recorded[w] = 0
    /\ recorded' = [recorded EXCEPT ![w] = 1]
    /\ UNCHANGED outcome

\* The caller gets its result, or an error for a write that is on record.
Settle(w) ==
    /\ outcome[w] = "pending"
    /\ recorded[w] = 1
    /\ \E o \in {"ok", "raised"} : outcome' = [outcome EXCEPT ![w] = o]
    /\ UNCHANGED recorded

\* The caller gets an error and the drop hook the payload.
Drop(w) ==
    /\ w \notin BestEffort
    /\ outcome[w] = "pending"
    /\ outcome' = [outcome EXCEPT ![w] = "dropped"]
    /\ UNCHANGED recorded

\* The caller goes on as if nothing had happened, with the write on record
\* or without it.
Forget(w) ==
    /\ w \in BestEffort
    /\ outcome[w] = "pending"
    /\ outcome' = [outcome EXCEPT ![w] = "unheard"]
    /\ UNCHANGED recorded

LedgerNext ==
    \E w \in Writes : Submit(w) \/ Record(w) \/ Settle(w) \/ Drop(w) \/ Forget(w)

LedgerSpec == LedgerInit /\ [][LedgerNext]_ledgerVars
=============================================================================
