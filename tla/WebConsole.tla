----------------------------- MODULE WebConsole -----------------------------
(***************************************************************************)
(* The console: its pages, one at a time, over one session.                *)
(***************************************************************************)
EXTENDS AdminPage

Calls == LoginCalls \cup SetupCalls \cup ChatCalls \cup AdminCalls

ASSUME NilAssumption ==
    /\ Nil \notin Tokens /\ Nil \notin Calls
    /\ Nil \notin FormUi \cup SetupUi \cup ChatUi \cup AdminUi

Init == SessionInit

\* A link, the address bar, the back button.
Visit(p) ==
    /\ p # page
    /\ Goto(p, calls)
    /\ UNCHANGED <<jwt, role, sid>>

Open == OpenForm \/ OpenSetup \/ OpenChat \/ TurnAway \/ OpenAdmin

User ==
    \/ \E p \in Pages : Visit(p)
    \/ \E a \in Accounts : SubmitLogin(a)
    \/ \E a \in Analysts, r \in Personas : SubmitRegister(a, r)
    \/ \E p \in Providers : ChooseProvider(p)
    \/ ToStep2 \/ BackToStep1 \/ ToStep3
    \/ Refresh \/ TypeKey \/ ChooseModel
    \/ \E u \in Urls : EditUrl(u)
    \/ Ping \/ Launch
    \/ NewChat \/ Send
    \/ \E r \in Personas : SwitchRole(r)
    \/ \E d \in Dates : PickDate(d)
    \/ RefreshLogs \/ Verify

Answer(s) ==
    \/ Signed(s) \/ NotSigned(s)
    \/ Listed(s) \/ Unlisted(s) \/ Pinged(s)
    \/ Begun(s) \/ Configured(s) \/ NotLaunched(s)
    \/ Answered(s) \/ Unanswered(s)
    \/ Switched(s) \/ NotSwitched(s)
    \/ Logged(s) \/ NotLogged(s)
    \/ Verified(s) \/ NotVerified(s)

Next == Open \/ User \/ \E s \in Slots : Answer(s)

Spec == Init /\ [][Next]_vars
-----------------------------------------------------------------------------
TypeOK ==
    /\ jwt \in Tokens \cup {Nil}
    /\ role \in Roles
    /\ sid \in Subs \cup {Nil}
    /\ page \in Pages
    /\ ui # Nil => ui \in CASE page \in {"login", "register"} -> FormUi
                            [] page = "setup" -> SetupUi
                            [] page = "chat" -> ChatUi
                            [] page = "admin" -> AdminUi
    /\ calls \in [Slots -> Calls \cup {Nil}]

\* A page is busy, its spinner on and its button off, only while a call of
\* its own is under way, whatever calls fail and in whatever order they end:
\* as fetch settles, no page stays busy.
BusyHasCall ==
    ui # Nil =>
        CASE page \in {"login", "register"} -> ui.loading => Busy("login")
          [] page = "setup" ->
                 /\ ui.listing => Busy("models")
                 /\ ui.testing => Busy("ping")
                 /\ ui.configuring => Busy("begin") \/ Busy("configure")
          [] page = "chat" -> ui.loading => Busy("send")
          [] page = "admin" ->
                 /\ ui.loading => Busy("logs")
                 /\ ui.verifying => Busy("verify")
=============================================================================
