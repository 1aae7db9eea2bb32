----------------------------- MODULE AdminPage ------------------------------
(***************************************************************************)
(* The audit page (app/admin/page.tsx): the log of a date, fetched again   *)
(* whenever the date changes, and the check of its integrity.  A log and a *)
(* verdict are named by their date.  token is the token localStorage held  *)
(* when the page was last rendered, the one its buttons use.  overlapped   *)
(* and hushed are not in the code.                                         *)
(***************************************************************************)
EXTENDS ChatPage

CONSTANTS Dates

ASSUME DatesAssumption == Dates # {}

AdminUi ==
    [date : Dates, logs : Dates \cup {"none"}, loading : BOOLEAN, error : BOOLEAN,
     access : {"denied", "ok"}, verdict : Dates \cup {"none"}, verifying : BOOLEAN,
     token : Tokens \cup {Nil}, overlapped : BOOLEAN, hushed : BOOLEAN]

AdminCalls ==
    [kind : {"logs", "verify"}, on : {TRUE}, arg : [date : Dates, token : Tokens]]

Today == CHOOSE d \in Dates : TRUE

OnAdmin == page = "admin" /\ ui # Nil /\ ui.access = "ok"

\* fetchLogs, with the date of the render it belongs to.  Every step renders
\* the page again.
FetchLogs(state, token) ==
    /\ ui' = [state EXCEPT !.loading = TRUE, !.error = FALSE, !.token = jwt,
                  !.overlapped = @ \/ Busy("logs")]
    /\ Issue("logs", [date |-> state.date, token |-> token])

\* The toolbar: a fetch that is under way turns the refresh button off, a
\* check the other one.
CanRefresh == OnAdmin /\ ~ui.loading
CanVerify == OnAdmin /\ ~ui.verifying

\* The effect that runs on the first render and for every new date.
Effect(state) ==
    IF role # "admin" \/ jwt = Nil
    THEN ui' = [state EXCEPT !.access = "denied", !.token = jwt] /\ UNCHANGED calls
    ELSE FetchLogs([state EXCEPT !.access = "ok"], jwt)

OpenAdmin ==
    /\ page = "admin" /\ ui = Nil
    /\ Effect([date |-> Today, logs |-> "none", loading |-> FALSE,
               error |-> FALSE, access |-> "checking", verdict |-> "none",
               verifying |-> FALSE, token |-> jwt, overlapped |-> FALSE,
               hushed |-> FALSE])
    /\ Local

PickDate(d) ==
    /\ OnAdmin /\ d # ui.date
    /\ Effect([ui EXCEPT !.date = d])
    /\ Local

RefreshLogs ==
    /\ CanRefresh
    /\ FetchLogs(ui, ui.token) /\ Local

\* runVerify: it takes down the error on the page, whatever it was about.
Verify ==
    /\ CanVerify
    /\ ui' = [ui EXCEPT !.verifying = TRUE, !.error = FALSE, !.token = jwt,
                  !.hushed = @ \/ ui.error]
    /\ Issue("verify", [date |-> ui.date, token |-> ui.token])
    /\ Local
-----------------------------------------------------------------------------
\* The gateway shows the log to an administrator.
Allowed(token) == token.role = "admin"

Logged(s) ==
    /\ Is(s, "logs") /\ Allowed(calls[s].arg.token)
    /\ ui' = [ui EXCEPT !.logs = calls[s].arg.date, !.loading = FALSE, !.token = jwt]
    /\ Done(s) /\ Local

\* Mutant of NotLogged: a failure is not shown.
NotLoggedSilent(s) ==
    /\ Is(s, "logs")
    /\ ui' = [ui EXCEPT !.loading = FALSE, !.token = jwt]
    /\ Done(s) /\ Local

NotLogged(s) ==
    /\ Is(s, "logs")
    /\ ui' = [ui EXCEPT !.error = TRUE, !.loading = FALSE, !.token = jwt]
    /\ Done(s) /\ Local

Verified(s) ==
    /\ Is(s, "verify") /\ Allowed(calls[s].arg.token)
    /\ ui' = [ui EXCEPT !.verdict = calls[s].arg.date, !.verifying = FALSE,
                  !.token = jwt]
    /\ Done(s) /\ Local

NotVerified(s) ==
    /\ Is(s, "verify")
    /\ ui' = [ui EXCEPT !.verdict = "none", !.error = TRUE, !.verifying = FALSE,
                  !.token = jwt]
    /\ Done(s) /\ Local
-----------------------------------------------------------------------------
\* A page at rest and without an error shows the log of the date in its date
\* field, so that "No audit entries for this date." is about that date,
\* unless a fetch was started before another had ended, or a check of the
\* integrity took down the error of a fetch.
LogsOfDate ==
    (/\ OnAdmin
     /\ ~ui.loading /\ ~ui.error
     /\ ~ui.overlapped /\ ~ui.hushed) => ui.logs = ui.date
=============================================================================
