----------------------------- MODULE WebSession -----------------------------
(***************************************************************************)
(* One browser tab of the console: what localStorage keeps                 *)
(* (lib/session.ts), the page that is open, its React state, the calls     *)
(* under way and the sign-in pages.  A page that is left loses its state;  *)
(* a call it started goes on, and what it does to localStorage or to the   *)
(* router still happens, while its setState calls are void.  Error texts   *)
(* are left out, except where one hides what a page shows.                 *)
(*                                                                         *)
(* The gateway's answers are part of the step that receives them.  Every   *)
(* call may fail: it is refused, limited, times out, or nobody is there.   *)
(***************************************************************************)
EXTENDS Naturals, Sequences, FiniteSets

CONSTANTS
    Analysts,       \* accounts with an unprivileged role
    Admins,         \* accounts of administrators
    Personas,       \* the roles of the persona bar
    MaxCalls,       \* calls under way at a time
    Nil

ASSUME CallsAssumption == MaxCalls \in Nat \ {0}

VARIABLES
    jwt,            \* pii_gw_jwt, a token or Nil
    role,           \* pii_gw_role
    sid,            \* pii_gw_session_id, the owner of the session it names or Nil
    page,           \* the page that is open
    ui,             \* its React state; Nil until its first effects have run
    calls           \* calls[s]: the call in slot s or Nil

vars == <<jwt, role, sid, page, ui, calls>>

Pages == {"login", "register", "setup", "chat", "admin"}

Privileged == {"vp_risk", "admin"}

Accounts == Analysts \cup Admins

Roles == Personas \cup {"junior_analyst", "senior_analyst", "admin"}

Subs == Accounts \cup {"ui-user"}

Tokens == [sub : Subs, role : Roles]

RoleOf(a) == IF a \in Admins THEN "admin" ELSE "senior_analyst"

\* Tokens carry a subject and a role.  Those of the token endpoint are all
\* "ui-user"; it gives no privileged role, and may be switched off.
Token(sub, r) == [sub |-> sub, role |-> r]

Minted(r) == Token("ui-user", r)

Mintable(r) == r \notin Privileged

Slots == 1..MaxCalls

NoCalls == [s \in Slots |-> Nil]

FreeSlot == {s \in Slots : calls[s] = Nil}

\* A call starts; the slot it takes means nothing.
Issue(kind, arg) ==
    /\ FreeSlot # {}
    /\ calls' = [calls EXCEPT
           ![CHOOSE s \in FreeSlot : TRUE] =
               [kind |-> kind, on |-> TRUE, arg |-> arg]]

Busy(kind) == \E s \in Slots : calls[s] # Nil /\ calls[s].kind = kind /\ calls[s].on

Done(s) == calls' = [calls EXCEPT ![s] = Nil]

\* The calls with effects beyond their page.
Lasting == {"login", "switch", "begin", "configure"}

\* router.push, router.replace or a link: the page's state is gone.
Leave(cs) ==
    [s \in Slots |->
        IF cs[s] = Nil \/ cs[s].kind \notin Lasting THEN Nil
        ELSE [cs[s] EXCEPT !.on = FALSE]]

\* A page that is asked for while it is open stays as it is.
Goto(p, cs) ==
    /\ page' = p
    /\ IF p = page THEN calls' = cs /\ UNCHANGED ui
       ELSE calls' = Leave(cs) /\ ui' = Nil

\* updateRole, initSession, handleSubmit: both keys, with nothing in between.
Store(token) ==
    /\ jwt' = token
    /\ role' = token.role

FormUi == [loading : BOOLEAN]

LoginCalls == [kind : {"login"}, on : BOOLEAN, arg : Tokens]

SessionInit ==
    /\ jwt = Nil
    /\ role = "junior_analyst"
    /\ sid = Nil
    /\ page = "login"
    /\ ui = Nil
    /\ calls = NoCalls
-----------------------------------------------------------------------------
\* The sign-in pages.

OpenForm ==
    /\ page \in {"login", "register"}
    /\ ui = Nil
    /\ ui' = [loading |-> FALSE]
    /\ UNCHANGED <<jwt, role, sid, page, calls>>

\* A form's button is off while its submission is under way.
LoginForm == page = "login" /\ ui # Nil /\ ~ui.loading

\* The registration form has a picker with every role.
RegisterForm(r) == page = "register" /\ ui # Nil /\ ~ui.loading /\ r \in Personas

\* handleSubmit of the login page; a form with a field missing gets no further.
SubmitLogin(a) ==
    /\ LoginForm
    /\ ui' = [ui EXCEPT !.loading = TRUE]
    /\ Issue("login", Token(a, RoleOf(a)))
    /\ UNCHANGED <<jwt, role, sid, page>>

\* handleSubmit of the registration page.
SubmitRegister(a, r) ==
    /\ RegisterForm(r)
    /\ ui' = [ui EXCEPT !.loading = TRUE]
    /\ Issue("login", Token(a, r))
    /\ UNCHANGED <<jwt, role, sid, page>>

\* The gateway knows the account, or makes one unless its role is privileged.
Signed(s) ==
    /\ calls[s] # Nil /\ calls[s].kind = "login"
    /\ calls[s].arg.sub \in Admins \/ Mintable(calls[s].arg.role)
    /\ Store(calls[s].arg)
    /\ Goto("setup", [calls EXCEPT ![s] = Nil])
    /\ UNCHANGED sid

NotSigned(s) ==
    /\ calls[s] # Nil /\ calls[s].kind = "login"
    /\ ui' = IF calls[s].on THEN [ui EXCEPT !.loading = FALSE] ELSE ui
    /\ Done(s)
    /\ UNCHANGED <<jwt, role, sid, page>>
=============================================================================
