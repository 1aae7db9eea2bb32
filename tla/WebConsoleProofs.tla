-------------------------- MODULE WebConsoleProofs --------------------------
(***************************************************************************)
(* The console, for any number of accounts, personas, URLs, dates,         *)
(* messages and calls under way.                                           *)
(***************************************************************************)
EXTENDS WebConsole, SequenceTheorems, TLAPS

-----------------------------------------------------------------------------
(* The calls under way.                                                    *)

CallTable == [Slots -> Calls \cup {Nil}]

\* What an argument of a call is.
Arg(kind, arg) ==
    CASE kind = "login" -> arg \in Tokens
      [] kind = "models" -> arg \in [url : Urls, unset : BOOLEAN]
      [] kind \in {"ping", "begin"} -> arg = Nil
      [] kind = "configure" -> arg \in Subs
      [] kind = "send" -> arg \in [mine : BOOLEAN, messages : Seq(Nat) \ {<<>>}]
      [] kind = "switch" -> arg \in [role : Roles, prev : Roles]
      [] kind \in {"logs", "verify"} -> arg \in [date : Dates, token : Tokens]

Kinds == {"login", "models", "ping", "begin", "configure", "send", "switch", "logs", "verify"}

LEMMA CallTypes ==
    ASSUME NEW c \in Calls
    PROVE  /\ c # Nil
           /\ c.kind \in Kinds
           /\ c.on \in BOOLEAN
           /\ c.kind \notin Lasting => c.on = TRUE
           /\ Arg(c.kind, c.arg)
<1>1. c # Nil
    BY NilAssumption
<1>2. CASE c \in LoginCalls
    BY <1>1, <1>2 DEF LoginCalls, Kinds, Lasting, Arg
<1>3. CASE c \in SetupCalls
    BY <1>1, <1>3 DEF SetupCalls, Kinds, Lasting, Arg
<1>4. CASE c \in ChatCalls
    BY <1>1, <1>4 DEF ChatCalls, Kinds, Lasting, Arg
<1>5. CASE c \in AdminCalls
    BY <1>1, <1>5 DEF AdminCalls, Kinds, Lasting, Arg
<1> QED
    BY <1>2, <1>3, <1>4, <1>5 DEF Calls

LEMMA NewCall ==
    ASSUME NEW k \in Kinds, NEW a, Arg(k, a)
    PROVE  [kind |-> k, on |-> TRUE, arg |-> a] \in Calls
<1> DEFINE c == [kind |-> k, on |-> TRUE, arg |-> a]
<1>2. ASSUME k = "login" PROVE c \in Calls
  <2>1. a \in Tokens
      BY <1>2 DEF Arg
  <2> QED
      BY <1>2, <2>1 DEF LoginCalls, Calls
<1>3. ASSUME k = "models" PROVE c \in Calls
  <2>1. a \in [url : Urls, unset : BOOLEAN]
      BY <1>3 DEF Arg
  <2> QED
      BY <1>3, <2>1 DEF SetupCalls, Calls
<1>4. ASSUME k \in {"ping", "begin"} PROVE c \in Calls
  <2>1. a \in {Nil}
      BY <1>4 DEF Arg
  <2> QED
      BY <1>4, <2>1 DEF SetupCalls, Calls
<1>5. ASSUME k = "configure" PROVE c \in Calls
  <2>1. a \in Subs
      BY <1>5 DEF Arg
  <2> QED
      BY <1>5, <2>1 DEF SetupCalls, Calls
<1>6. ASSUME k = "send" PROVE c \in Calls
  <2>1. a \in [mine : BOOLEAN, messages : Seq(Nat) \ {<<>>}]
      BY <1>6 DEF Arg
  <2> QED
      BY <1>6, <2>1 DEF ChatCalls, Calls
<1>7. ASSUME k = "switch" PROVE c \in Calls
  <2>1. a \in [role : Roles, prev : Roles]
      BY <1>7 DEF Arg
  <2> QED
      BY <1>7, <2>1 DEF ChatCalls, Calls
<1>8. ASSUME k \in {"logs", "verify"} PROVE c \in Calls
  <2>1. a \in [date : Dates, token : Tokens]
      BY <1>8 DEF Arg
  <2> QED
      BY <1>8, <2>1 DEF AdminCalls, Calls
<1>9. c \in Calls
    BY <1>2, <1>3, <1>4, <1>5, <1>6, <1>7, <1>8 DEF Kinds
<1> QED
    BY <1>9

\* A call that outlives its page stays the call it was.
LEMMA OffCall ==
    ASSUME NEW c \in Calls, c.kind \in Lasting, NEW e, e = [c EXCEPT !.on = FALSE]
    PROVE  e \in Calls /\ e.kind = c.kind /\ e.on = FALSE /\ e.arg = c.arg
<1> DEFINE B == [kind : {"begin"}, on : BOOLEAN, arg : {Nil}]
           C == [kind : {"configure"}, on : BOOLEAN, arg : Subs]
           W == [kind : {"switch"}, on : BOOLEAN, arg : [role : Roles, prev : Roles]]
<1>1. c \in LoginCalls \/ c \in B \/ c \in C \/ c \in W
    BY DEF Calls, LoginCalls, SetupCalls, ChatCalls, AdminCalls, Lasting
<1>2. CASE c \in LoginCalls
  <2>1. e \in LoginCalls /\ e.kind = c.kind /\ e.on = FALSE /\ e.arg = c.arg
      BY <1>2, Zenon DEF LoginCalls
  <2> QED
      BY <2>1 DEF Calls
<1>3. CASE c \in B
  <2>1. e \in B /\ e.kind = c.kind /\ e.on = FALSE /\ e.arg = c.arg
      BY <1>3, Zenon
  <2> QED
      BY <2>1 DEF Calls, SetupCalls
<1>4. CASE c \in C
  <2>1. e \in C /\ e.kind = c.kind /\ e.on = FALSE /\ e.arg = c.arg
      BY <1>4, Zenon
  <2> QED
      BY <2>1 DEF Calls, SetupCalls
<1>5. CASE c \in W
  <2>1. e \in W /\ e.kind = c.kind /\ e.on = FALSE /\ e.arg = c.arg
      BY <1>5, Zenon
  <2> QED
      BY <2>1 DEF Calls, ChatCalls
<1> QED
    BY <1>1, <1>2, <1>3, <1>4, <1>5

\* The calls of a kind whose page is still the one that made them.
Of(kind) == {s \in Slots : calls[s] # Nil /\ calls[s].kind = kind /\ calls[s].on}

\* A call starts.
LEMMA Issued ==
    ASSUME calls \in CallTable, NEW k \in Kinds, NEW a, Arg(k, a), Issue(k, a)
    PROVE  /\ calls' \in CallTable
           /\ \E s \in Slots :
                 /\ calls[s] = Nil
                 /\ calls'[s] # Nil /\ calls'[s].kind = k /\ calls'[s].on /\ calls'[s].arg = a
                 /\ \A t \in Slots \ {s} : calls'[t] = calls[t]
                 /\ Of(k)' = Of(k) \cup {s}
                 /\ s \notin Of(k)
           /\ \A o : o # k => Of(o)' = Of(o)
<1> DEFINE s == CHOOSE f \in FreeSlot : TRUE
           c == [kind |-> k, on |-> TRUE, arg |-> a]
<1>1. s \in Slots /\ calls[s] = Nil
    BY DEF Issue, FreeSlot
<1>2. calls' = [calls EXCEPT ![s] = c]
    BY DEF Issue
<1>3. c \in Calls /\ c.kind = k /\ c.on = TRUE /\ c.arg = a
    BY NewCall, Zenon
<1> HIDE DEF c
<1>b. c # Nil
    BY <1>3, NilAssumption
<1> HIDE DEF s
<1>4. calls' \in CallTable /\ calls'[s] = c /\ \A t \in Slots \ {s} : calls'[t] = calls[t]
    BY <1>1, <1>2, <1>3 DEF CallTable
<1>5. Of(k)' = Of(k) \cup {s} /\ s \notin Of(k)
    BY <1>1, <1>3, <1>b, <1>4 DEF Of
<1>6. \A o : o # k => Of(o)' = Of(o)
    BY <1>1, <1>3, <1>b, <1>4 DEF Of
<1> QED
    BY <1>1, <1>3, <1>b, <1>4, <1>5, <1>6

\* A call ends.
LEMMA Ended ==
    ASSUME calls \in CallTable, NEW s \in Slots, Done(s)
    PROVE  /\ calls' \in CallTable
           /\ calls'[s] = Nil
           /\ \A t \in Slots \ {s} : calls'[t] = calls[t]
           /\ \A k : Of(k)' = Of(k) \ {s}
<1>1. calls' \in CallTable /\ calls'[s] = Nil /\ \A t \in Slots \ {s} : calls'[t] = calls[t]
    BY DEF Done, CallTable
<1> QED
    BY <1>1 DEF Of

\* A page is left: its calls are gone or go on without it.
LEMMA Left ==
    ASSUME NEW cs \in CallTable
    PROVE  /\ Leave(cs) \in CallTable
           /\ \A s \in Slots : Leave(cs)[s] # Nil => Leave(cs)[s].on = FALSE
<1>1. ASSUME NEW s \in Slots
      PROVE  /\ Leave(cs)[s] \in Calls \cup {Nil}
             /\ Leave(cs)[s] # Nil => Leave(cs)[s].on = FALSE
  <2>1. CASE cs[s] = Nil \/ cs[s].kind \notin Lasting
      BY <2>1 DEF Leave
  <2>2. CASE cs[s] # Nil /\ cs[s].kind \in Lasting
    <3>1. PICK c \in Calls : c = cs[s]
        BY <2>2 DEF CallTable
    <3>2. Leave(cs)[s] = [c EXCEPT !.on = FALSE]
        BY <2>2, <3>1 DEF Leave
    <3> QED
        BY <2>2, <3>1, <3>2, OffCall
  <2> QED
      BY <2>1, <2>2
<1>2. Leave(cs) = [s \in Slots |-> Leave(cs)[s]]
    BY DEF Leave
<1> QED
    BY <1>1, <1>2 DEF CallTable

-----------------------------------------------------------------------------
(* What holds between a page and its calls.                                *)

Home(kind) ==
    CASE kind = "login" -> {"login", "register"}
      [] kind \in {"models", "ping", "begin", "configure"} -> {"setup"}
      [] kind \in {"send", "switch"} -> {"chat"}
      [] kind \in {"logs", "verify"} -> {"admin"}

HomeInv == \A k \in Kinds : Of(k) # {} => ui # Nil /\ page \in Home(k)

SessionInv == jwt # Nil => role = jwt.role

FormInv == page \in {"login", "register"} /\ ui # Nil => (ui.loading => Of("login") # {})

\* Unless the user moved: the model is of the provider and place shown, or
\* none; a list under way is of that place; the list of another place is
\* hidden by an error or by the spinner.
PlaceInv ==
    "moved" \notin ui.slips =>
        /\ ui.model = "none" \/ ui.model = Source(ui.provider, ui.url)
        /\ \A s \in Of("models") :
              /\ ui.provider = "ollama"
              /\ calls[s].arg.url = ui.url
        /\ ui.list = "none" \/ ui.offline \/ ui.listing \/ ui.list = ui.url

KeyInv ==
    /\ ui.step = 3 /\ RequiresKey(ui.provider) => ui.key # "none"
    /\ RequiresKey(ui.provider) =>
          ui.key = "none" \/ ui.key = ui.provider \/ "rekeyed" \in ui.slips

SetupInv ==
    OnSetup =>
        /\ ui.listing => Of("models") # {}
        /\ ui.testing => Of("ping") # {}
        /\ ui.configuring => Of("begin") \cup Of("configure") # {}
        /\ ui.step = 3 => ui.model # "none"
        /\ PlaceInv
        /\ KeyInv

\* Unless switches overlapped: one is under way, from the token's role to the
\* role shown, or they are one role.
SwitchInv ==
    ~ui.overlapped =>
        /\ \A s, t \in Of("switch") : s = t
        /\ \A s \in Of("switch") :
              calls[s].arg.prev = ui.jwt.role /\ calls[s].arg.role = ui.role
        /\ Of("switch") = {} => ui.role = ui.jwt.role

\* The messages of the first n turns, before the last rest messages asked.
AskedWith(asked, turns, n, rest) ==
    /\ n + rest <= Len(asked)
    /\ \A k \in 1..n : asked[Len(asked) - rest - n + k] = turns[k].message

\* One message is under way at a time; it was asked with the thread, and so
\* was every turn with the turns above it.
TurnsInv ==
    /\ \A s, t \in Of("send") : s = t
    /\ Of("send") # {} => ui.loading
    /\ \A i \in 1..Len(ui.turns) : AskedWith(ui.turns[i].messages, ui.turns, i, 0)
    /\ \A s \in Of("send") : AskedWith(calls[s].arg.messages, ui.turns, Len(ui.turns), 1)

ChatInv ==
    OnChat =>
        /\ ui.loading => Of("send") # {}
        /\ SwitchInv
        /\ TurnsInv

\* Unless fetches overlapped: the one under way is for the date shown, and
\* so is what is shown, or an error tells, or told, that it is not.
DateInv ==
    ui.access = "ok" /\ ~ui.overlapped =>
        /\ \A s \in Of("logs") : calls[s].arg.date = ui.date
        /\ ui.loading \/ ui.error \/ ui.hushed \/ ui.logs = ui.date

AdminInv ==
    page = "admin" /\ ui # Nil =>
        /\ ui.loading => Of("logs") # {}
        /\ ui.verifying => Of("verify") # {}
        /\ ui.access = "ok" => jwt # Nil /\ ui.token # Nil
        /\ DateInv

ConsoleInv == HomeInv /\ SessionInv /\ FormInv /\ SetupInv /\ ChatInv /\ AdminInv

Inv == TypeOK /\ ConsoleInv

-----------------------------------------------------------------------------
(* Steps that stay on their page.                                          *)

LEMMA UiTypes ==
    ASSUME Inv, ui # Nil
    PROVE  /\ page \in {"login", "register"} => ui \in FormUi
           /\ page = "setup" => ui \in SetupUi
           /\ page = "chat" => ui \in ChatUi
           /\ page = "admin" => ui \in AdminUi
BY DEF Inv, TypeOK

LEMMA BusyOf == \A k : Busy(k) <=> Of(k) # {}
BY DEF Busy, Of

\* The call in a slot, and whose it is.
LEMMA CallIn ==
    ASSUME Inv, NEW s \in Slots, calls[s] # Nil
    PROVE  /\ calls[s] \in Calls /\ calls[s].kind \in Kinds /\ Arg(calls[s].kind, calls[s].arg)
           /\ calls[s].kind \notin Lasting => calls[s].on
           /\ calls[s].on <=> s \in Of(calls[s].kind)
           /\ calls[s].on => ui # Nil /\ page \in Home(calls[s].kind)
<1>1. calls[s] \in Calls
    BY DEF Inv, TypeOK
<1>2. /\ calls[s].kind \in Kinds /\ Arg(calls[s].kind, calls[s].arg)
      /\ calls[s].kind \notin Lasting => calls[s].on
      /\ calls[s].on \in BOOLEAN
    BY <1>1, CallTypes
<1>3. calls[s].on <=> s \in Of(calls[s].kind)
    BY <1>2 DEF Of
<1>4. calls[s].on => ui # Nil /\ page \in Home(calls[s].kind)
    BY <1>2, <1>3 DEF Inv, ConsoleInv, HomeInv
<1> QED
    BY <1>1, <1>2, <1>3, <1>4

LEMMA HomeIssued ==
    ASSUME Inv, page' = page, ui' # Nil, NEW k \in Kinds, page \in Home(k),
           \A o : o # k => Of(o)' = Of(o)
    PROVE  HomeInv'
<1>1. ASSUME NEW o \in Kinds, Of(o)' # {} PROVE ui' # Nil /\ page' \in Home(o)
  <2>1. CASE o = k
      BY <2>1
  <2>2. CASE o # k
      BY <1>1, <2>2 DEF Inv, ConsoleInv, HomeInv
  <2> QED
      BY <2>1, <2>2
<1> QED
    BY <1>1 DEF HomeInv

LEMMA HomeKept ==
    ASSUME Inv, page' = page, ui # Nil => ui' # Nil,
           \A o : Of(o)' \subseteq Of(o)
    PROVE  HomeInv'
<1>1. ASSUME NEW o \in Kinds, Of(o)' # {} PROVE ui' # Nil /\ page' \in Home(o)
    BY <1>1 DEF Inv, ConsoleInv, HomeInv
<1> QED
    BY <1>1 DEF HomeInv

\* localStorage holds what it held, or a token and its role.
Stored ==
    /\ jwt' \in Tokens \cup {Nil} /\ (jwt' = Nil => jwt = Nil)
    /\ role' \in Roles /\ sid' \in Subs \cup {Nil}
    /\ SessionInv'

LEMMA LocalStored ==
    ASSUME Inv, UNCHANGED <<jwt, role, sid>>
    PROVE  Stored
BY DEF Inv, TypeOK, ConsoleInv, SessionInv, Stored

LEMMA TokenStored ==
    ASSUME Inv, NEW t \in Tokens, Store(t), sid' = sid
    PROVE  Stored
BY NilAssumption DEF Inv, TypeOK, SessionInv, Stored, Store, Tokens

LEMMA OnFormPage ==
    ASSUME page \in {"login", "register"}, page' = page, Stored, calls' \in CallTable,
           ui' \in FormUi, HomeInv', FormInv'
    PROVE  Inv'
<1>1. TypeOK'
    BY NilAssumption DEF TypeOK, Stored, CallTable, Pages
<1> QED
    BY <1>1 DEF Inv, ConsoleInv, Stored, SetupInv, ChatInv, AdminInv, OnSetup, OnChat

LEMMA OnSetupPage ==
    ASSUME page = "setup", page' = page, Stored, calls' \in CallTable,
           ui' \in SetupUi, HomeInv', SetupInv'
    PROVE  Inv'
<1>1. TypeOK'
    BY NilAssumption DEF TypeOK, Stored, CallTable, Pages
<1> QED
    BY <1>1 DEF Inv, ConsoleInv, Stored, FormInv, ChatInv, AdminInv, OnSetup, OnChat

LEMMA OnChatPage ==
    ASSUME page = "chat", page' = page, Stored, calls' \in CallTable,
           ui' \in ChatUi, HomeInv', ChatInv'
    PROVE  Inv'
<1>1. TypeOK'
    BY NilAssumption DEF TypeOK, Stored, CallTable, Pages
<1> QED
    BY <1>1 DEF Inv, ConsoleInv, Stored, FormInv, SetupInv, AdminInv, OnSetup, OnChat

LEMMA OnAdminPage ==
    ASSUME page = "admin", page' = page, Stored, calls' \in CallTable,
           ui' \in AdminUi, HomeInv', AdminInv'
    PROVE  Inv'
<1>1. TypeOK'
    BY NilAssumption DEF TypeOK, Stored, CallTable, Pages
<1> QED
    BY <1>1 DEF Inv, ConsoleInv, Stored, FormInv, SetupInv, ChatInv, OnSetup, OnChat

-----------------------------------------------------------------------------
(* Steps that no page sees.                                                *)

\* A page is left, or not yet open: no call is of its making.
LEMMA Elsewhere ==
    ASSUME Stored, page' \in Pages, ui' = Nil, calls' \in CallTable,
           \A s \in Slots : calls'[s] # Nil => calls'[s].on = FALSE
    PROVE  Inv'
<1>1. TypeOK'
    BY DEF TypeOK, Stored, CallTable
<1>2. \A k : Of(k)' = {}
    BY DEF Of
<1>3. HomeInv'
    BY <1>2 DEF HomeInv
<1> QED
    BY <1>1, <1>3 DEF Inv, ConsoleInv, Stored, FormInv, SetupInv, ChatInv, AdminInv, OnSetup, OnChat

\* A call without its page ends, or goes on to its next step.
LEMMA Aside ==
    ASSUME Inv, Stored, page' = page, ui' = ui, calls' \in CallTable,
           \A k : Of(k)' = Of(k),
           \A k : \A s \in Of(k) : calls'[s] = calls[s]
    PROVE  Inv'
<1>1. TypeOK'
    BY DEF Inv, TypeOK, Stored, CallTable
<1>2. HomeInv'
    BY HomeKept
<1>3. FormInv'
    BY DEF Inv, ConsoleInv, FormInv
<1>4. SetupInv'
    BY DEF Inv, ConsoleInv, SetupInv, OnSetup, PlaceInv, KeyInv
<1>5. ChatInv'
    BY DEF Inv, ConsoleInv, ChatInv, OnChat, SwitchInv, TurnsInv
<1>6. AdminInv'
    BY DEF Inv, ConsoleInv, AdminInv, DateInv, Stored
<1> QED
    BY <1>1, <1>2, <1>3, <1>4, <1>5, <1>6 DEF Inv, ConsoleInv, Stored

\* A page opens.
LEMMA NoneOf ==
    ASSUME Inv, ui = Nil
    PROVE  \A k \in Kinds : Of(k) = {}
BY DEF Inv, ConsoleInv, HomeInv

LEMMA GotoStep ==
    ASSUME Inv, Stored, NEW p \in Pages, NEW cs \in CallTable, Goto(p, cs), p # page
    PROVE  Inv'
BY Left, Elsewhere DEF Goto

-----------------------------------------------------------------------------
(* The set-up page.                                                        *)

\* A step of the user that starts no call.
LEMMA SetupStill ==
    ASSUME Inv, OnSetup, Local, UNCHANGED calls, ui' \in SetupUi,
           ui'.listing = ui.listing, ui'.testing = ui.testing, ui'.configuring = ui.configuring,
           ui'.step = 3 => ui'.model # "none", PlaceInv', KeyInv'
    PROVE  Inv'
<1>1. Stored
    BY LocalStored DEF Local
<1>2. \A k : Of(k)' = Of(k)
    BY DEF Of
<1>3. ui # Nil /\ ui' # Nil
    BY NilAssumption DEF OnSetup
<1>4. HomeInv'
    BY <1>2, <1>3, HomeKept DEF Local
<1>5. SetupInv'
    BY <1>2 DEF Inv, ConsoleInv, SetupInv
<1> QED
    BY <1>1, <1>4, <1>5, OnSetupPage DEF OnSetup, Local, Inv, TypeOK, CallTable

LEMMA ChooseProviderStep ==
    ASSUME Inv, NEW p \in Providers, ChooseProvider(p)
    PROVE  Inv'
<1> DEFINE moved == IF Busy("models") THEN {"moved"} ELSE {}
           rekeyed == IF ui.key # "none" THEN {"rekeyed"} ELSE {}
           e == ui'
<1>1. OnSetup /\ ui \in SetupUi /\ ui.step = 1 /\ p # ui.provider /\ SetupInv
    BY DEF Inv, TypeOK, ConsoleInv, ChooseProvider, Card, OnStep, OnSetup
<1>2. PICK sl \in SUBSET {"moved", "rekeyed"} : sl = ui.slips \cup moved \cup rekeyed
    BY <1>1 DEF SetupUi
<1>3. PICK m \in Cloud \cup Urls \cup {"none"} : m = Default(p)
    BY DEF Default, Providers
<1>4. e = [ui EXCEPT !.provider = p, !.model = m, !.slips = sl]
    BY <1>2, <1>3 DEF ChooseProvider
<1> HIDE DEF e
<1>5. /\ e \in SetupUi
      /\ e.step = ui.step /\ e.provider = p /\ e.key = ui.key /\ e.model = m
      /\ e.url = ui.url /\ e.list = ui.list /\ e.listing = ui.listing
      /\ e.offline = ui.offline /\ e.testing = ui.testing
      /\ e.configuring = ui.configuring /\ e.slips = sl
    BY <1>1, <1>4, Zenon DEF SetupUi
<1> USE DEF e
<1>6. Of("models")' = Of("models") /\ (Busy("models") <=> Of("models") # {})
    BY BusyOf DEF ChooseProvider, Of
<1>7. PlaceInv'
    BY <1>1, <1>2, <1>3, <1>5, <1>6 DEF SetupInv, PlaceInv, Default, Source
<1>8. KeyInv'
    BY <1>1, <1>2, <1>5 DEF SetupInv, KeyInv, SetupUi, RequiresKey
<1> QED
    BY <1>1, <1>5, <1>7, <1>8, SetupStill DEF ChooseProvider

LEMMA BackToStep1Step == Inv /\ BackToStep1 => Inv'
<1> SUFFICES ASSUME Inv, BackToStep1 PROVE Inv'
    OBVIOUS
<1> DEFINE e == ui'
<1>1. OnSetup /\ ui \in SetupUi /\ SetupInv
    BY DEF Inv, TypeOK, ConsoleInv, BackToStep1, OnSetup
<1>2. e = [ui EXCEPT !.step = 1]
    BY DEF BackToStep1
<1>3. 1 \in 1..3
    OBVIOUS
<1> HIDE DEF e
<1>4. /\ e \in SetupUi
      /\ e.step = 1 /\ e.provider = ui.provider /\ e.key = ui.key
      /\ e.model = ui.model /\ e.url = ui.url /\ e.list = ui.list
      /\ e.listing = ui.listing /\ e.offline = ui.offline
      /\ e.testing = ui.testing /\ e.configuring = ui.configuring
      /\ e.slips = ui.slips
    BY <1>1, <1>2, <1>3, Zenon DEF SetupUi
<1> USE DEF e
<1>5. Of("models")' = Of("models")
    BY DEF BackToStep1, Of
<1>6. PlaceInv'
    BY <1>1, <1>4, <1>5 DEF BackToStep1, SetupInv, PlaceInv, Source
<1>7. KeyInv'
    BY <1>1, <1>4 DEF SetupInv, KeyInv
<1> QED
    BY <1>1, <1>4, <1>6, <1>7, SetupStill DEF BackToStep1

LEMMA TypeKeyStep == Inv /\ TypeKey => Inv'
<1> SUFFICES ASSUME Inv, TypeKey PROVE Inv'
    OBVIOUS
<1> DEFINE e == ui'
<1>1. OnSetup /\ ui \in SetupUi /\ SetupInv /\ ui.step = 2
    BY DEF Inv, TypeOK, ConsoleInv, TypeKey, OnStep, OnSetup
<1>2. PICK k \in Cloud \cup {"none"} :
          e = [ui EXCEPT !.key = k] /\ (k = "none" \/ k = ui.provider)
    BY DEF TypeKey, RequiresKey
<1>3. e = [ui EXCEPT !.key = k]
    BY <1>2
<1> HIDE DEF e
<1>4. /\ e \in SetupUi
      /\ e.step = ui.step /\ e.provider = ui.provider /\ e.key = k
      /\ e.model = ui.model /\ e.url = ui.url /\ e.list = ui.list
      /\ e.listing = ui.listing /\ e.offline = ui.offline
      /\ e.testing = ui.testing /\ e.configuring = ui.configuring
      /\ e.slips = ui.slips
    BY <1>1, <1>3, Zenon DEF SetupUi
<1> USE DEF e
<1>5. Of("models")' = Of("models")
    BY DEF TypeKey, Of
<1>6. PlaceInv'
    BY <1>1, <1>4, <1>5 DEF TypeKey, SetupInv, PlaceInv, Source
<1>7. KeyInv'
    BY <1>1, <1>2, <1>4 DEF KeyInv
<1> QED
    BY <1>1, <1>4, <1>6, <1>7, SetupStill DEF TypeKey

LEMMA EditUrlStep ==
    ASSUME Inv, NEW u \in Urls, EditUrl(u)
    PROVE  Inv'
<1> DEFINE moved == IF \/ Busy("models") \/ ui.model # "none"
                       \/ ui.list # "none" /\ ~ui.offline
                    THEN {"moved"} ELSE {}
           e == ui'
<1>1. OnSetup /\ ui \in SetupUi /\ SetupInv /\ ui.step = 2 /\ ui.provider = "ollama"
    BY DEF Inv, TypeOK, ConsoleInv, EditUrl, OnStep, OnSetup
<1>2. PICK sl \in SUBSET {"moved", "rekeyed"} : sl = ui.slips \cup moved
    BY <1>1 DEF SetupUi
<1>3. e = [ui EXCEPT !.url = u, !.slips = sl]
    BY <1>2 DEF EditUrl
<1> HIDE DEF e
<1>4. /\ e \in SetupUi
      /\ e.step = ui.step /\ e.provider = ui.provider /\ e.key = ui.key
      /\ e.model = ui.model /\ e.url = u /\ e.list = ui.list
      /\ e.listing = ui.listing /\ e.offline = ui.offline
      /\ e.testing = ui.testing /\ e.configuring = ui.configuring
      /\ e.slips = sl
    BY <1>1, <1>3, Zenon DEF SetupUi
<1> USE DEF e
<1>5. Of("models")' = Of("models") /\ (Busy("models") <=> Of("models") # {})
    BY BusyOf DEF EditUrl, Of
<1>6. ~ui.listing \/ Of("models") # {}
    BY <1>1 DEF SetupInv
<1>7. PlaceInv'
    BY <1>1, <1>2, <1>4, <1>5, <1>6 DEF SetupInv, PlaceInv, Source
<1>8. KeyInv'
    BY <1>1, <1>2, <1>4 DEF SetupInv, KeyInv, RequiresKey, Cloud
<1> QED
    BY <1>1, <1>4, <1>7, <1>8, SetupStill DEF EditUrl

LEMMA ChooseModelStep == Inv /\ ChooseModel => Inv'
<1> SUFFICES ASSUME Inv, ChooseModel PROVE Inv'
    OBVIOUS
<1> DEFINE e == ui'
<1>1. OnSetup /\ ui \in SetupUi /\ SetupInv /\ ui.step = 2
    BY DEF Inv, TypeOK, ConsoleInv, ChooseModel, OnStep, OnSetup
<1>2. PICK m \in Cloud \cup Urls \cup {"none"} :
        /\ e = [ui EXCEPT !.model = m]
        /\ \/ /\ ui.provider = "ollama" => ui.offline /\ ~ui.listing
              /\ m = Source(ui.provider, ui.url) \/ m = "none"
           \/ /\ ui.provider = "ollama" /\ ~ui.listing /\ ~ui.offline
              /\ ui.list # "none"
              /\ m = ui.list
  <2>1. /\ Source(ui.provider, ui.url) \in Cloud \cup Urls \cup {"none"}
        /\ ui.list \in Cloud \cup Urls \cup {"none"}
      BY <1>1 DEF SetupUi, Providers, Source
  <2> HIDE DEF e
  <2> QED
      BY <2>1 DEF ChooseModel, e
<1> HIDE DEF e
<1>3. /\ e \in SetupUi
      /\ e.step = ui.step /\ e.provider = ui.provider /\ e.key = ui.key
      /\ e.model = m /\ e.url = ui.url /\ e.list = ui.list
      /\ e.listing = ui.listing /\ e.offline = ui.offline
      /\ e.testing = ui.testing /\ e.configuring = ui.configuring
      /\ e.slips = ui.slips
    BY <1>1, <1>2, Zenon DEF SetupUi
<1> USE DEF e
<1>4. Of("models")' = Of("models")
    BY DEF ChooseModel, Of
<1>5. PlaceInv'
  <2>1. "moved" \notin ui.slips => m = "none" \/ m = Source(ui.provider, ui.url)
      BY <1>1, <1>2 DEF SetupInv, PlaceInv, Source
  <2> QED
      BY <1>1, <1>3, <1>4, <2>1 DEF ChooseModel, SetupInv, PlaceInv, Source
<1>6. KeyInv'
    BY <1>1, <1>3 DEF SetupInv, KeyInv
<1> QED
    BY <1>1, <1>3, <1>5, <1>6, SetupStill DEF ChooseModel

LEMMA ToStep3Step == Inv /\ ToStep3 => Inv'
<1> SUFFICES ASSUME Inv, ToStep3 PROVE Inv'
    OBVIOUS
<1> DEFINE e == ui'
<1>1. OnSetup /\ ui \in SetupUi /\ SetupInv /\ ui.step = 2 /\ ui.model # "none"
    BY DEF Inv, TypeOK, ConsoleInv, ToStep3, OnStep, OnSetup
<1>2. e = [ui EXCEPT !.step = 3]
    BY DEF ToStep3
<1>3. 3 \in 1..3
    OBVIOUS
<1> HIDE DEF e
<1>4. /\ e \in SetupUi
      /\ e.step = 3 /\ e.provider = ui.provider /\ e.key = ui.key
      /\ e.model = ui.model /\ e.url = ui.url /\ e.list = ui.list
      /\ e.listing = ui.listing /\ e.offline = ui.offline
      /\ e.testing = ui.testing /\ e.configuring = ui.configuring
      /\ e.slips = ui.slips
    BY <1>1, <1>2, <1>3, Zenon DEF SetupUi
<1> USE DEF e
<1>5. Of("models")' = Of("models")
    BY DEF ToStep3, Of
<1>6. PlaceInv'
    BY <1>1, <1>4, <1>5 DEF ToStep3, SetupInv, PlaceInv, Source
<1>7. KeyInv'
    BY <1>1, <1>4 DEF ToStep3, SetupInv, KeyInv
<1> QED
    BY <1>1, <1>4, <1>6, <1>7, SetupStill DEF ToStep3

\* A list is asked for.
LEMMA FetchStep ==
    ASSUME Inv, OnSetup, Local, ui.provider = "ollama", ui' \in SetupUi,
           Issue("models", [url |-> ui.url, unset |-> ui.model = "none"]),
           ui'.step = 2, ui'.provider = ui.provider, ui'.key = ui.key, ui'.model = ui.model,
           ui'.url = ui.url, ui'.list = ui.list, ui'.listing = TRUE,
           ui'.testing = ui.testing, ui'.configuring = ui.configuring, ui'.slips = ui.slips
    PROVE  Inv'
<1> DEFINE a == [url |-> ui.url, unset |-> ui.model = "none"]
<1>1. ui \in SetupUi /\ SetupInv /\ ui # Nil /\ ui' # Nil /\ page = "setup" /\ calls \in CallTable
    BY NilAssumption DEF Inv, TypeOK, ConsoleInv, OnSetup, CallTable
<1>2. a \in [url : Urls, unset : BOOLEAN] /\ a.url = ui.url /\ (a.unset <=> ui.model = "none")
    BY <1>1 DEF SetupUi
<1>3. Arg("models", a) /\ "models" \in Kinds /\ "setup" \in Home("models")
    BY <1>2 DEF Arg, Kinds, Home
<1>4. Issue("models", a)
    OBVIOUS
<1> HIDE DEF a
<1>5. PICK s \in Slots :
          /\ calls'[s].arg = a
          /\ \A t \in Slots \ {s} : calls'[t] = calls[t]
          /\ Of("models")' = Of("models") \cup {s}
    BY <1>1, <1>3, <1>4, Issued
<1>6. calls' \in CallTable /\ \A o : o # "models" => Of(o)' = Of(o)
    BY <1>1, <1>3, <1>4, Issued
<1>7. HomeInv'
    BY <1>1, <1>3, <1>6, HomeIssued DEF Local
<1>8. Of("models") \subseteq Slots
    BY DEF Of
<1>9. PlaceInv'
    BY <1>1, <1>2, <1>5, <1>8 DEF SetupInv, PlaceInv, Source
<1>10. SetupInv'
  <2>1. Of("models")' # {}
      BY <1>5
  <2>2. KeyInv'
      BY <1>1 DEF SetupInv, KeyInv
  <2> QED
      BY <1>1, <1>6, <1>9, <2>1, <2>2 DEF SetupInv
<1> QED
    BY <1>1, <1>6, <1>7, <1>10, LocalStored, OnSetupPage DEF Local

LEMMA ToStep2Step == Inv /\ ToStep2 => Inv'
<1> SUFFICES ASSUME Inv, ToStep2 PROVE Inv'
    OBVIOUS
<1> DEFINE e == ui'
<1>1. OnSetup /\ ui \in SetupUi /\ SetupInv /\ Local
    BY DEF Inv, TypeOK, ConsoleInv, ToStep2, OnSetup
<1>2. 2 \in 1..3
    OBVIOUS
<1>3. CASE ui.provider = "ollama"
  <2>1. e = [[ui EXCEPT !.step = 2] EXCEPT !.listing = TRUE, !.offline = FALSE]
      BY <1>3 DEF ToStep2, Fetch
  <2> HIDE DEF e
  <2>2. /\ e \in SetupUi
      /\ e.step = 2 /\ e.provider = ui.provider /\ e.key = ui.key
      /\ e.model = ui.model /\ e.url = ui.url /\ e.list = ui.list
      /\ e.listing = TRUE /\ e.offline = FALSE /\ e.testing = ui.testing
      /\ e.configuring = ui.configuring /\ e.slips = ui.slips
      BY <1>1, <1>2, <2>1, Zenon DEF SetupUi
  <2>3. Issue("models", [url |-> ui.url, unset |-> ui.model = "none"])
      BY <1>3 DEF ToStep2, Fetch
  <2> USE DEF e
  <2> QED
      BY <1>1, <1>3, <2>2, <2>3, FetchStep
<1>4. CASE ui.provider # "ollama"
  <2>1. e = [ui EXCEPT !.step = 2] /\ UNCHANGED calls
      BY <1>4 DEF ToStep2
  <2> HIDE DEF e
  <2>2. /\ e \in SetupUi
      /\ e.step = 2 /\ e.provider = ui.provider /\ e.key = ui.key
      /\ e.model = ui.model /\ e.url = ui.url /\ e.list = ui.list
      /\ e.listing = ui.listing /\ e.offline = ui.offline
      /\ e.testing = ui.testing /\ e.configuring = ui.configuring
      /\ e.slips = ui.slips
      BY <1>1, <1>2, <2>1, Zenon DEF SetupUi
  <2> USE DEF e
  <2>3. Of("models")' = Of("models")
      BY <2>1 DEF Of
  <2>4. PlaceInv'
      BY <1>1, <1>4, <2>1, <2>2, <2>3 DEF SetupInv, PlaceInv, Source
  <2>5. KeyInv'
      BY <1>1, <2>2 DEF SetupInv, KeyInv
  <2> QED
      BY <1>1, <2>1, <2>2, <2>4, <2>5, SetupStill
<1> QED
    BY <1>3, <1>4

LEMMA RefreshStep == Inv /\ Refresh => Inv'
<1> SUFFICES ASSUME Inv, Refresh PROVE Inv'
    OBVIOUS
<1> DEFINE e == ui'
<1>1. OnSetup /\ ui \in SetupUi /\ Local /\ ui.step = 2 /\ ui.provider = "ollama"
    BY DEF Inv, TypeOK, Refresh, OnStep, OnSetup
<1>2. e = [ui EXCEPT !.listing = TRUE, !.offline = FALSE]
    BY DEF Refresh, Fetch
<1> HIDE DEF e
<1>3. /\ e \in SetupUi
      /\ e.step = ui.step /\ e.provider = ui.provider /\ e.key = ui.key
      /\ e.model = ui.model /\ e.url = ui.url /\ e.list = ui.list
      /\ e.listing = TRUE /\ e.offline = FALSE /\ e.testing = ui.testing
      /\ e.configuring = ui.configuring /\ e.slips = ui.slips
    BY <1>1, <1>2, Zenon DEF SetupUi
<1>4. Issue("models", [url |-> ui.url, unset |-> ui.model = "none"])
    BY DEF Refresh, Fetch
<1> USE DEF e
<1> QED
    BY <1>1, <1>3, <1>4, FetchStep

\* A call of the third step starts.
LEMMA AskStep ==
    ASSUME Inv, OnSetup, Local, NEW k \in {"ping", "begin", "configure"}, NEW a, Arg(k, a),
           Issue(k, a), ui' \in SetupUi, ui'.step = ui.step, ui'.provider = ui.provider,
           ui'.key = ui.key, ui'.model = ui.model, ui'.url = ui.url, ui'.list = ui.list,
           ui'.listing = ui.listing, ui'.offline = ui.offline, ui'.slips = ui.slips,
           ui'.testing => ui.testing \/ k = "ping",
           ui'.configuring => ui.configuring \/ k # "ping"
    PROVE  Inv'
<1>1. SetupInv /\ ui # Nil /\ ui' # Nil /\ page = "setup" /\ calls \in CallTable
    BY NilAssumption DEF Inv, TypeOK, ConsoleInv, OnSetup, CallTable
<1>2. k \in Kinds /\ "setup" \in Home(k)
    BY DEF Kinds, Home
<1>3. PICK s \in Slots :
          /\ \A t \in Slots \ {s} : calls'[t] = calls[t]
          /\ Of(k)' = Of(k) \cup {s} /\ calls[s] = Nil
    BY <1>1, <1>2, Issued
<1>4. calls' \in CallTable /\ \A o : o # k => Of(o)' = Of(o)
    BY <1>1, <1>2, Issued
<1>5. HomeInv'
    BY <1>1, <1>2, <1>4, HomeIssued DEF Local
<1>6. \A t \in Of("models") : calls'[t] = calls[t]
    BY <1>3 DEF Of
<1>7. Of("models")' = Of("models")
    BY <1>4
<1>8. PlaceInv'
    BY <1>1, <1>6, <1>7 DEF SetupInv, PlaceInv, Source
<1>9. KeyInv'
    BY <1>1 DEF SetupInv, KeyInv
<1>10. SetupInv'
  <2>1. Of(k)' # {}
      BY <1>3
  <2>2. ui'.testing => Of("ping")' # {}
      BY <1>1, <1>4, <2>1 DEF SetupInv
  <2>3. ui'.configuring => Of("begin")' \cup Of("configure")' # {}
    <3>1. Of("begin")' = IF k = "begin" THEN Of(k)' ELSE Of("begin")
        BY <1>4
    <3>2. Of("configure")' = IF k = "configure" THEN Of(k)' ELSE Of("configure")
        BY <1>4
    <3> QED
        BY <1>1, <2>1, <3>1, <3>2 DEF SetupInv
  <2> QED
      BY <1>1, <1>7, <1>8, <1>9, <2>2, <2>3 DEF SetupInv
<1> QED
    BY <1>1, <1>4, <1>5, <1>10, LocalStored, OnSetupPage DEF Local

LEMMA PingStep == Inv /\ Ping => Inv'
<1> SUFFICES ASSUME Inv, Ping PROVE Inv'
    OBVIOUS
<1> DEFINE e == ui'
<1>1. OnSetup /\ ui \in SetupUi /\ Local /\ Issue("ping", Nil) /\ Arg("ping", Nil)
    BY DEF Inv, TypeOK, Ping, OnStep, OnSetup, Arg
<1>2. e = [ui EXCEPT !.testing = TRUE]
    BY DEF Ping
<1> HIDE DEF e
<1>3. /\ e \in SetupUi
      /\ e.step = ui.step /\ e.provider = ui.provider /\ e.key = ui.key
      /\ e.model = ui.model /\ e.url = ui.url /\ e.list = ui.list
      /\ e.listing = ui.listing /\ e.offline = ui.offline /\ e.testing = TRUE
      /\ e.configuring = ui.configuring /\ e.slips = ui.slips
    BY <1>1, <1>2, Zenon DEF SetupUi
<1> USE DEF e
<1> QED
    BY <1>1, <1>3, AskStep

LEMMA LaunchStep == Inv /\ Launch => Inv'
<1> SUFFICES ASSUME Inv, Launch PROVE Inv'
    OBVIOUS
<1> DEFINE e == ui'
<1>1. OnSetup /\ ui \in SetupUi /\ Local
    BY DEF Inv, TypeOK, Launch, OnStep, OnSetup
<1>2. PICK k \in {"begin", "configure"}, a \in Subs \cup {Nil} : Issue(k, a) /\ Arg(k, a)
  <2>1. CASE jwt = Nil
      BY <2>1 DEF Launch, Arg
  <2>2. CASE jwt # Nil
    <3>1. jwt.sub \in Subs
        BY <2>2 DEF Inv, TypeOK, Tokens
    <3> QED
        BY <2>2, <3>1 DEF Launch, Arg
  <2> QED
      BY <2>1, <2>2
<1>3. e = [ui EXCEPT !.configuring = TRUE]
    BY DEF Launch
<1> HIDE DEF e
<1>4. /\ e \in SetupUi
      /\ e.step = ui.step /\ e.provider = ui.provider /\ e.key = ui.key
      /\ e.model = ui.model /\ e.url = ui.url /\ e.list = ui.list
      /\ e.listing = ui.listing /\ e.offline = ui.offline
      /\ e.testing = ui.testing /\ e.configuring = TRUE /\ e.slips = ui.slips
    BY <1>1, <1>3, Zenon DEF SetupUi
<1> USE DEF e
<1> QED
    BY <1>1, <1>2, <1>4, AskStep

\* A call of the page ends.
LEMMA SetupAnswered ==
    ASSUME Inv, OnSetup, Local, NEW k \in {"models", "ping", "begin", "configure"},
           NEW s \in Of(k), Done(s), ui' \in SetupUi, ui'.step = ui.step,
           ui'.listing => ui.listing /\ k # "models",
           ui'.testing => ui.testing /\ k # "ping",
           ui'.configuring => ui.configuring /\ k \in {"models", "ping"},
           ui.model # "none" => ui'.model # "none", PlaceInv', KeyInv'
    PROVE  Inv'
<1>1. SetupInv /\ ui # Nil /\ ui' # Nil /\ page = "setup" /\ calls \in CallTable /\ s \in Slots
    BY NilAssumption DEF Inv, TypeOK, ConsoleInv, OnSetup, CallTable, Of
<1>2. calls' \in CallTable /\ \A o : Of(o)' = Of(o) \ {s}
    BY <1>1, Ended
<1>3. \A o : o # k => Of(o)' = Of(o)
    BY <1>2 DEF Of
<1>4. HomeInv'
    BY <1>1, <1>2, HomeKept DEF Local
<1>5. SetupInv'
  <2>1. ui'.listing => Of("models")' # {}
      BY <1>1, <1>3 DEF SetupInv
  <2>2. ui'.testing => Of("ping")' # {}
      BY <1>1, <1>3 DEF SetupInv
  <2>3. ui'.configuring => Of("begin")' \cup Of("configure")' # {}
      BY <1>1, <1>3 DEF SetupInv
  <2> QED
      BY <1>1, <2>1, <2>2, <2>3 DEF SetupInv
<1> QED
    BY <1>1, <1>2, <1>4, <1>5, LocalStored, OnSetupPage DEF Local

\* A list is on its way only to the set-up page.
LEMMA ModelsCall ==
    ASSUME Inv, NEW s \in Slots, Is(s, "models")
    PROVE  /\ OnSetup /\ ui \in SetupUi /\ SetupInv /\ s \in Of("models")
           /\ calls[s].arg \in [url : Urls, unset : BOOLEAN]
           /\ calls[s].arg.url # "none"
<1>1. ui # Nil /\ page \in Home("models") /\ s \in Of("models") /\ Arg("models", calls[s].arg)
    BY CallIn DEF Is, Lasting
<1>2. calls[s].arg \in [url : Urls, unset : BOOLEAN]
    BY <1>1 DEF Arg
<1>3. OnSetup /\ ui \in SetupUi /\ SetupInv
    BY <1>1 DEF Inv, TypeOK, ConsoleInv, Home, OnSetup
<1> QED
    BY <1>1, <1>2, <1>3, UrlsAssumption

LEMMA ListedStep ==
    ASSUME Inv, NEW s \in Slots, Listed(s)
    PROVE  Inv'
<1> DEFINE e == ui'
<1>1. /\ OnSetup /\ ui \in SetupUi /\ SetupInv /\ s \in Of("models")
      /\ calls[s].arg \in [url : Urls, unset : BOOLEAN] /\ calls[s].arg.url # "none"
    BY ModelsCall DEF Listed
<1>2. Done(s) /\ Local
    BY DEF Listed
<1>3. PICK u \in Urls, unset \in BOOLEAN : u = calls[s].arg.url /\ unset = calls[s].arg.unset
    BY <1>1
<1>4. PICK m \in Cloud \cup Urls \cup {"none"}, l \in Urls \cup {"none"} :
          /\ e = [ui EXCEPT !.list = l, !.listing = FALSE, !.model = m]
          /\ \/ l = u /\ m = IF unset THEN u ELSE ui.model
             \/ l = "none" /\ m = ui.model
  <2>1. CASE e = [ui EXCEPT !.list = calls[s].arg.url, !.listing = FALSE,
                     !.model = IF calls[s].arg.unset THEN calls[s].arg.url ELSE @]
    <3>1. PICK m \in Cloud \cup Urls \cup {"none"} : m = IF unset THEN u ELSE ui.model
        BY <1>1 DEF SetupUi
    <3>2. e = [ui EXCEPT !.list = u, !.listing = FALSE, !.model = m]
        BY <1>3, <2>1, <3>1
    <3> QED
        BY <3>1, <3>2
  <2>2. CASE e = [ui EXCEPT !.list = "none", !.listing = FALSE]
    <3>1. PICK m \in Cloud \cup Urls \cup {"none"} : m = ui.model
        BY <1>1 DEF SetupUi
    <3>2. PICK l \in Urls \cup {"none"} : l = "none"
        OBVIOUS
    <3> HIDE DEF e
    <3>3. e = [ui EXCEPT !.list = l, !.listing = FALSE, !.model = m]
        BY <1>1, <2>2, <3>1, <3>2, Zenon DEF SetupUi
    <3> QED
        BY <3>1, <3>2, <3>3
  <2> QED
      BY <2>1, <2>2 DEF Listed
<1> HIDE DEF e
<1>5. /\ e \in SetupUi
      /\ e.step = ui.step /\ e.provider = ui.provider /\ e.key = ui.key
      /\ e.model = m /\ e.url = ui.url /\ e.list = l /\ e.listing = FALSE
      /\ e.offline = ui.offline /\ e.testing = ui.testing
      /\ e.configuring = ui.configuring /\ e.slips = ui.slips
    BY <1>1, <1>4, Zenon DEF SetupUi
<1> USE DEF e
<1>6. calls \in CallTable /\ Of("models") \subseteq Slots
    BY DEF Inv, TypeOK, CallTable, Of
<1>7. /\ Of("models")' = Of("models") \ {s}
      /\ \A t \in Of("models") \ {s} : calls'[t] = calls[t]
    BY <1>2, <1>6, Ended
<1>8. PlaceInv'
    BY <1>1, <1>3, <1>4, <1>5, <1>7 DEF SetupInv, PlaceInv, Source
<1>9. KeyInv'
    BY <1>1, <1>5 DEF SetupInv, KeyInv
<1>10. ui.model # "none" => ui'.model # "none"
    BY <1>1, <1>3, <1>4, <1>5
<1> QED
    BY <1>1, <1>2, <1>5, <1>8, <1>9, <1>10, SetupAnswered

LEMMA UnlistedStep ==
    ASSUME Inv, NEW s \in Slots, Unlisted(s)
    PROVE  Inv'
<1> DEFINE e == ui'
<1>1. OnSetup /\ ui \in SetupUi /\ SetupInv /\ s \in Of("models") /\ Done(s) /\ Local
    BY ModelsCall DEF Unlisted
<1>2. e = [ui EXCEPT !.offline = TRUE, !.listing = FALSE]
    BY DEF Unlisted
<1> HIDE DEF e
<1>3. /\ e \in SetupUi
      /\ e.step = ui.step /\ e.provider = ui.provider /\ e.key = ui.key
      /\ e.model = ui.model /\ e.url = ui.url /\ e.list = ui.list
      /\ e.listing = FALSE /\ e.offline = TRUE /\ e.testing = ui.testing
      /\ e.configuring = ui.configuring /\ e.slips = ui.slips
    BY <1>1, <1>2, Zenon DEF SetupUi
<1> USE DEF e
<1>4. calls \in CallTable /\ Of("models") \subseteq Slots
    BY DEF Inv, TypeOK, CallTable, Of
<1>5. /\ Of("models")' = Of("models") \ {s}
      /\ \A t \in Of("models") \ {s} : calls'[t] = calls[t]
    BY <1>1, <1>4, Ended
<1>6. PlaceInv'
    BY <1>1, <1>3, <1>5 DEF SetupInv, PlaceInv, Source
<1>7. KeyInv'
    BY <1>1, <1>3 DEF SetupInv, KeyInv
<1> QED
    BY <1>1, <1>3, <1>6, <1>7, SetupAnswered

\* The end of a call that leaves the list and the model alone.
LEMMA PlaceKept ==
    ASSUME Inv, OnSetup, NEW k \in {"ping", "begin", "configure"}, NEW s \in Of(k), Done(s),
           ui'.step = ui.step, ui'.provider = ui.provider, ui'.key = ui.key, ui'.model = ui.model,
           ui'.url = ui.url, ui'.list = ui.list, ui'.listing = ui.listing,
           ui'.offline = ui.offline, ui'.slips = ui.slips
    PROVE  PlaceInv' /\ KeyInv'
<1>1. calls \in CallTable /\ SetupInv /\ s \in Slots
    BY DEF Inv, TypeOK, CallTable, ConsoleInv, Of
<1>2. Of("models")' = Of("models") /\ \A t \in Of("models") : calls'[t] = calls[t]
    BY <1>1, Ended DEF Of
<1>3. PlaceInv'
    BY <1>1, <1>2 DEF SetupInv, PlaceInv, Source
<1>4. KeyInv'
    BY <1>1 DEF SetupInv, KeyInv
<1> QED
    BY <1>3, <1>4

LEMMA PingedStep ==
    ASSUME Inv, NEW s \in Slots, Pinged(s)
    PROVE  Inv'
<1> DEFINE e == ui'
<1>1. OnSetup /\ ui \in SetupUi /\ s \in Of("ping") /\ Done(s) /\ Local
  <2>1. ui # Nil /\ page \in Home("ping") /\ s \in Of("ping")
      BY CallIn DEF Pinged, Is, Lasting
  <2> QED
      BY <2>1 DEF Pinged, Inv, TypeOK, Home, OnSetup
<1>2. e = [ui EXCEPT !.testing = FALSE]
    BY DEF Pinged
<1> HIDE DEF e
<1>3. /\ e \in SetupUi
      /\ e.step = ui.step /\ e.provider = ui.provider /\ e.key = ui.key
      /\ e.model = ui.model /\ e.url = ui.url /\ e.list = ui.list
      /\ e.listing = ui.listing /\ e.offline = ui.offline
      /\ e.testing = FALSE /\ e.configuring = ui.configuring
      /\ e.slips = ui.slips
    BY <1>1, <1>2, Zenon DEF SetupUi
<1> USE DEF e
<1>4. PlaceInv' /\ KeyInv'
    BY <1>1, <1>3, PlaceKept
<1> QED
    BY <1>1, <1>3, <1>4, SetupAnswered

\* A call without its page ends.
LEMMA AsideDone ==
    ASSUME Inv, Stored, page' = page, ui' = ui, NEW s \in Slots, calls[s] # Nil, ~calls[s].on,
           Done(s)
    PROVE  Inv'
<1>1. calls \in CallTable
    BY DEF Inv, TypeOK, CallTable
<1>2. \A k : s \notin Of(k)
    BY DEF Of
<1>3. \A k : Of(k)' = Of(k)
    BY <1>1, <1>2, Ended
<1>4. \A k : \A t \in Of(k) : calls'[t] = calls[t]
    BY <1>1, <1>2, Ended DEF Of
<1>5. calls' \in CallTable
    BY <1>1, Ended
<1> QED
    BY <1>3, <1>4, <1>5, Aside

LEMMA BegunStep ==
    ASSUME Inv, NEW s \in Slots, Begun(s)
    PROVE  Inv'
<1> DEFINE d == [calls[s] EXCEPT !.kind = "configure", !.arg = "ui-user"]
<1>1. calls[s] # Nil /\ calls[s].kind = "begin" /\ calls \in CallTable
    BY DEF Begun, Is, Inv, TypeOK, CallTable
<1>2. Stored
  <2>1. Minted("junior_analyst") \in Tokens
      BY DEF Minted, Token, Tokens, Subs, Roles
  <2> QED
      BY <2>1, TokenStored DEF Begun
<1>3. d \in Calls /\ d # Nil /\ d.kind = "configure" /\ d.on = calls[s].on
  <2>1. calls[s] \in [kind : {"begin"}, on : BOOLEAN, arg : {Nil}]
      BY <1>1 DEF CallTable, Calls, LoginCalls, SetupCalls, ChatCalls, AdminCalls
  <2>2. PICK u \in Subs : u = "ui-user"
      BY DEF Subs
  <2>3. PICK c \in [kind : {"begin"}, on : BOOLEAN, arg : {Nil}] : c = calls[s]
      BY <2>1
  <2>4. d = [c EXCEPT !.kind = "configure", !.arg = u]
      BY <2>2, <2>3
  <2> HIDE DEF d
  <2>5. d \in [kind : {"configure"}, on : BOOLEAN, arg : Subs] /\ d.kind = "configure" /\ d.on = c.on
      BY <2>4, Zenon
  <2>6. d \in Calls
      BY <2>5 DEF Calls, SetupCalls
  <2> QED
      BY <2>3, <2>5, <2>6, NilAssumption
<1>4. calls' = [calls EXCEPT ![s] = d] /\ page' = page /\ ui' = ui
    BY DEF Begun
<1> HIDE DEF d
<1>5. calls' \in CallTable /\ calls'[s] = d /\ \A t \in Slots \ {s} : calls'[t] = calls[t]
    BY <1>1, <1>3, <1>4 DEF CallTable
<1>6. CASE calls[s].on
  <2>1. s \in Of("begin") /\ OnSetup /\ ui \in SetupUi /\ SetupInv
    <3>1. s \in Of("begin") /\ ui # Nil /\ page \in Home("begin")
        BY <1>1, <1>6, CallIn
    <3> QED
        BY <3>1 DEF Inv, TypeOK, ConsoleInv, Home, OnSetup
  <2>2. /\ Of("configure")' = Of("configure") \cup {s}
        /\ \A k : k \notin {"begin", "configure"} => Of(k)' = Of(k)
      BY <1>1, <1>3, <1>5, <1>6 DEF Of
  <2>3. /\ Of("begin")' \subseteq Of("begin")
        /\ s \notin Of("begin")'
        /\ \A k : \A t \in Of(k) \ {s} : calls'[t] = calls[t]
      BY <1>1, <1>3, <1>5 DEF Of
  <2>4. s \notin Of("models")
      BY <1>1 DEF Of
  <2>5. HomeInv'
    <3>1. ASSUME NEW k \in Kinds, Of(k)' # {} PROVE ui' # Nil /\ page' \in Home(k)
      <4>1. CASE k = "configure"
          BY <1>4, <2>1, <4>1 DEF Home, OnSetup
      <4>2. CASE k # "configure"
          BY <1>4, <2>2, <2>3, <3>1, <4>2 DEF Inv, ConsoleInv, HomeInv
      <4> QED
          BY <4>1, <4>2
    <3> QED
        BY <3>1 DEF HomeInv
  <2>6. PlaceInv' /\ KeyInv'
      BY <1>4, <2>1, <2>2, <2>3, <2>4 DEF SetupInv, PlaceInv, KeyInv
  <2>7. SetupInv'
      BY <1>4, <2>1, <2>2, <2>6 DEF SetupInv
  <2> QED
      BY <1>2, <1>4, <1>5, <2>1, <2>5, <2>7, OnSetupPage DEF OnSetup
<1>7. CASE ~calls[s].on
  <2>1. \A k : Of(k)' = Of(k)
      BY <1>3, <1>5, <1>7 DEF Of
  <2>2. \A k : \A t \in Of(k) : calls'[t] = calls[t]
      BY <1>5, <1>7 DEF Of
  <2> QED
      BY <1>2, <1>4, <1>5, <2>1, <2>2, Aside
<1> QED
    BY <1>6, <1>7

LEMMA NotLaunchedStep ==
    ASSUME Inv, NEW s \in Slots, NotLaunched(s)
    PROVE  Inv'
<1> DEFINE e == ui'
<1>1. PICK k \in {"begin", "configure"} : calls[s] # Nil /\ calls[s].kind = k
    BY DEF NotLaunched, Is
<1>2. Done(s) /\ Local
    BY DEF NotLaunched
<1>3. CASE calls[s].on
  <2>1. s \in Of(k) /\ OnSetup /\ ui \in SetupUi
    <3>1. s \in Of(k) /\ ui # Nil /\ page \in Home(k)
        BY <1>1, <1>3, CallIn
    <3> QED
        BY <3>1 DEF Inv, TypeOK, Home, OnSetup
  <2>2. e = [ui EXCEPT !.configuring = FALSE]
      BY <1>3 DEF NotLaunched
  <2> HIDE DEF e
  <2>3. /\ e \in SetupUi
      /\ e.step = ui.step /\ e.provider = ui.provider /\ e.key = ui.key
      /\ e.model = ui.model /\ e.url = ui.url /\ e.list = ui.list
      /\ e.listing = ui.listing /\ e.offline = ui.offline
      /\ e.testing = ui.testing /\ e.configuring = FALSE
      /\ e.slips = ui.slips
      BY <2>1, <2>2, Zenon DEF SetupUi
  <2> USE DEF e
  <2>4. PlaceInv' /\ KeyInv'
      BY <1>2, <2>1, <2>3, PlaceKept
  <2> QED
      BY <1>2, <2>1, <2>3, <2>4, SetupAnswered
<1>4. CASE ~calls[s].on
    BY <1>1, <1>2, <1>4, LocalStored, AsideDone DEF NotLaunched, Local
<1> QED
    BY <1>3, <1>4

LEMMA OpenSetupStep == Inv /\ OpenSetup => Inv'
<1> SUFFICES ASSUME Inv, OpenSetup PROVE Inv'
    OBVIOUS
<1> DEFINE e == ui'
<1>1. page = "setup" /\ ui = Nil /\ UNCHANGED calls /\ Local
    BY DEF OpenSetup
<1>2. PICK u \in Urls : u = DefaultUrl
    BY UrlsAssumption DEF DefaultUrl
<1>3. 1 \in 1..3
    OBVIOUS
<1>4. e = [step |-> 1, provider |-> "ollama", key |-> "none",
           model |-> "none", url |-> u, list |-> "none",
           listing |-> FALSE, offline |-> FALSE,
           testing |-> FALSE, configuring |-> FALSE, slips |-> {}]
    BY <1>2 DEF OpenSetup
<1> HIDE DEF e
<1>5. /\ e \in SetupUi
      /\ e.step = 1 /\ e.provider = "ollama" /\ e.key = "none" /\ e.model = "none"
      /\ e.list = "none" /\ e.listing = FALSE /\ e.testing = FALSE /\ e.configuring = FALSE
    BY <1>3, <1>4 DEF SetupUi, Providers, Cloud
<1> USE DEF e
<1>6. \A k \in Kinds : Of(k)' = {}
    BY <1>1, NoneOf DEF Of
<1>7. HomeInv'
    BY <1>6 DEF HomeInv
<1>8. Of("models")' = {}
    BY <1>6 DEF Kinds
<1>9. SetupInv'
    BY <1>5, <1>8 DEF SetupInv, PlaceInv, KeyInv, RequiresKey, Cloud
<1> QED
    BY <1>1, <1>5, <1>7, <1>9, LocalStored, OnSetupPage DEF Local, Inv, TypeOK, CallTable

-----------------------------------------------------------------------------
(* The sign-in pages, and the steps from page to page.                     *)

LEMMA OpenFormStep == Inv /\ OpenForm => Inv'
<1> SUFFICES ASSUME Inv, OpenForm PROVE Inv'
    OBVIOUS
<1>1. page \in {"login", "register"} /\ ui = Nil /\ UNCHANGED <<jwt, role, sid, page, calls>>
    BY DEF OpenForm
<1>2. ui' \in FormUi /\ ui'.loading = FALSE
    BY DEF OpenForm, FormUi
<1>3. \A k \in Kinds : Of(k)' = {}
    BY <1>1, NoneOf DEF Of
<1>4. HomeInv'
    BY <1>3 DEF HomeInv
<1>5. FormInv'
    BY <1>2 DEF FormInv
<1> QED
    BY <1>1, <1>2, <1>4, <1>5, LocalStored, OnFormPage DEF Inv, TypeOK, CallTable

\* A form is sent.
LEMMA SubmitStep ==
    ASSUME Inv, page \in {"login", "register"}, ui # Nil, NEW t \in Tokens,
           ui' = [ui EXCEPT !.loading = TRUE], Issue("login", t),
           UNCHANGED <<jwt, role, sid, page>>
    PROVE  Inv'
<1> DEFINE e == ui'
<1>1. ui \in FormUi /\ calls \in CallTable
    BY DEF Inv, TypeOK, CallTable
<1>2. e = [ui EXCEPT !.loading = TRUE]
    OBVIOUS
<1> HIDE DEF e
<1>3. e \in FormUi /\ e.loading = TRUE
    BY <1>1, <1>2, Zenon DEF FormUi
<1> USE DEF e
<1>4. Arg("login", t) /\ "login" \in Kinds /\ page \in Home("login")
    BY DEF Arg, Kinds, Home
<1>5. calls' \in CallTable /\ Of("login")' # {} /\ \A o : o # "login" => Of(o)' = Of(o)
    BY <1>1, <1>4, Issued
<1>6. ui' # Nil
    BY <1>3, NilAssumption
<1>7. HomeInv'
    BY <1>4, <1>5, <1>6, HomeIssued
<1>8. FormInv'
    BY <1>5 DEF FormInv
<1> QED
    BY <1>3, <1>5, <1>7, <1>8, LocalStored, OnFormPage

LEMMA SubmitLoginStep ==
    ASSUME Inv, NEW a \in Accounts, SubmitLogin(a)
    PROVE  Inv'
<1>1. Token(a, RoleOf(a)) \in Tokens
    BY DEF Token, Tokens, RoleOf, Subs, Roles
<1> QED
    BY <1>1, SubmitStep DEF SubmitLogin, LoginForm

LEMMA SubmitRegisterStep ==
    ASSUME Inv, NEW a \in Analysts, NEW r \in Personas, SubmitRegister(a, r)
    PROVE  Inv'
<1>1. Token(a, r) \in Tokens
    BY DEF Token, Tokens, Accounts, Subs, Roles
<1> QED
    BY <1>1, SubmitStep DEF SubmitRegister, RegisterForm

LEMMA NotSignedStep ==
    ASSUME Inv, NEW s \in Slots, NotSigned(s)
    PROVE  Inv'
<1> DEFINE e == ui'
<1>1. calls[s] # Nil /\ calls[s].kind = "login" /\ Done(s) /\ UNCHANGED <<jwt, role, sid, page>>
    BY DEF NotSigned
<1>2. CASE calls[s].on
  <2>1. ui # Nil /\ page \in Home("login")
      BY <1>1, <1>2, CallIn
  <2>2. ui \in FormUi /\ page \in {"login", "register"} /\ calls \in CallTable
      BY <2>1 DEF Home, Inv, TypeOK, CallTable
  <2>3. e = [ui EXCEPT !.loading = FALSE]
      BY <1>2 DEF NotSigned
  <2> HIDE DEF e
  <2>4. e \in FormUi /\ e.loading = FALSE
      BY <2>2, <2>3, Zenon DEF FormUi
  <2> USE DEF e
  <2>5. calls' \in CallTable /\ \A k : Of(k)' \subseteq Of(k)
      BY <1>1, <2>2, Ended
  <2>6. ui' # Nil
      BY <2>4, NilAssumption
  <2>7. HomeInv'
      BY <1>1, <2>5, <2>6, HomeKept
  <2>8. FormInv'
      BY <2>4 DEF FormInv
  <2> QED
      BY <1>1, <2>2, <2>4, <2>5, <2>7, <2>8, LocalStored, OnFormPage
<1>3. CASE ~calls[s].on
    BY <1>1, <1>3, LocalStored, AsideDone DEF NotSigned
<1> QED
    BY <1>2, <1>3

LEMMA SignedStep ==
    ASSUME Inv, NEW s \in Slots, Signed(s)
    PROVE  Inv'
<1> DEFINE cs == [calls EXCEPT ![s] = Nil]
<1>1. /\ calls[s] # Nil /\ calls[s].kind = "login"
      /\ Store(calls[s].arg) /\ sid' = sid /\ Goto("setup", cs)
    BY DEF Signed
<1>2. calls[s].arg \in Tokens
    BY <1>1, CallIn DEF Arg
<1>3. Stored
    BY <1>1, <1>2, TokenStored
<1>4. cs \in CallTable /\ "setup" \in Pages
    BY DEF Inv, TypeOK, CallTable, Pages
<1>5. CASE page # "setup"
    BY <1>1, <1>3, <1>4, <1>5, GotoStep
<1>6. CASE page = "setup"
  <2>1. ~calls[s].on
      BY <1>1, <1>6, CallIn DEF Home
  <2>2. Done(s) /\ page' = page /\ ui' = ui
      BY <1>1, <1>6 DEF Goto, Done
  <2> QED
      BY <1>1, <1>3, <2>1, <2>2, AsideDone
<1> QED
    BY <1>5, <1>6

LEMMA ConfiguredStep ==
    ASSUME Inv, NEW s \in Slots, Configured(s)
    PROVE  Inv'
<1> DEFINE cs == [calls EXCEPT ![s] = Nil]
<1>1. /\ calls[s] # Nil /\ calls[s].kind = "configure"
      /\ sid' = calls[s].arg /\ jwt' = jwt /\ role' = role /\ Goto("chat", cs)
    BY DEF Configured, Is
<1>2. calls[s].arg \in Subs
    BY <1>1, CallIn DEF Arg
<1>3. Stored
    BY <1>1, <1>2 DEF Stored, Inv, TypeOK, ConsoleInv, SessionInv
<1>4. cs \in CallTable /\ "chat" \in Pages
    BY DEF Inv, TypeOK, CallTable, Pages
<1>5. CASE page # "chat"
    BY <1>1, <1>3, <1>4, <1>5, GotoStep
<1>6. CASE page = "chat"
  <2>1. ~calls[s].on
      BY <1>1, <1>6, CallIn DEF Home
  <2>2. Done(s) /\ page' = page /\ ui' = ui
      BY <1>1, <1>6 DEF Goto, Done
  <2> QED
      BY <1>1, <1>3, <2>1, <2>2, AsideDone
<1> QED
    BY <1>5, <1>6

LEMMA VisitStep ==
    ASSUME Inv, NEW p \in Pages, Visit(p)
    PROVE  Inv'
BY LocalStored, GotoStep DEF Visit, Inv, TypeOK, CallTable

LEMMA TurnAwayStep == Inv /\ TurnAway => Inv'
BY LocalStored, GotoStep DEF TurnAway, Inv, TypeOK, CallTable, Pages

-----------------------------------------------------------------------------
(* The chat page.                                                          *)

LEMMA ChatNow ==
    ASSUME Inv, OnChat
    PROVE  /\ page = "chat" /\ ui # Nil /\ ui \in ChatUi /\ calls \in CallTable
           /\ ui.loading => Of("send") # {}
           /\ SwitchInv /\ TurnsInv
BY DEF Inv, TypeOK, CallTable, ConsoleInv, ChatInv, OnChat

\* The switches are as they were.
LEMMA SwitchKept ==
    ASSUME SwitchInv, Of("switch")' = Of("switch"),
           \A s \in Of("switch") : calls'[s] = calls[s],
           ui'.overlapped = ui.overlapped, ui'.role = ui.role, ui'.jwt = ui.jwt
    PROVE  SwitchInv'
BY DEF SwitchInv

\* The turns and the sends are as they were.
LEMMA TurnsKept ==
    ASSUME TurnsInv, Of("send")' \subseteq Of("send"),
           \A s \in Of("send")' : calls'[s] = calls[s],
           ui'.turns = ui.turns,
           ui'.loading = ui.loading \/ Of("send")' = {}
    PROVE  TurnsInv'
BY DEF TurnsInv

\* The answer's turn holds the turns above it, and itself.
LEMMA OneMore ==
    ASSUME NEW asked \in Seq(Nat), NEW old \in Seq(Turns), NEW turn \in Turns,
           turn.message = asked[Len(asked)], AskedWith(asked, old, Len(old), 1)
    PROVE  AskedWith(asked, Append(old, turn), Len(old) + 1, 0)
<1> DEFINE turns == Append(old, turn)
<1>1. /\ \A k \in 1..Len(old) : turns[k] = old[k]
      /\ turns[Len(old) + 1] = turn
    BY AppendProperties
<1>2. PICK n \in Nat, m \in Nat : n = Len(old) /\ m = Len(asked)
    BY LenProperties
<1> HIDE DEF turns
<1>3. n + 1 <= m /\ \A k \in 1..n : asked[m - 1 - n + k] = old[k].message
    BY <1>2 DEF AskedWith
<1>4. ASSUME NEW k \in 1..(n + 1) PROVE asked[m - 0 - (n + 1) + k] = turns[k].message
  <2>1. CASE k \in 1..n
    <3>1. m - 0 - (n + 1) + k = m - 1 - n + k
        BY <2>1
    <3>2. turns[k].message = old[k].message
        BY <1>1, <1>2, <2>1
    <3> QED
        BY <1>3, <2>1, <3>1, <3>2
  <2>2. CASE k = n + 1
    <3>1. m - 0 - (n + 1) + k = m
        BY <2>2
    <3> QED
        BY <1>1, <1>2, <2>2, <3>1
  <2> QED
      BY <2>1, <2>2
<1>5. n + 1 + 0 <= m
    BY <1>3
<1>6. AskedWith(asked, turns, n + 1, 0)
    BY <1>2, <1>4, <1>5 DEF AskedWith
<1> QED
    BY <1>2, <1>6 DEF turns

\* A new turn is below the others.
LEMMA StillAsked ==
    ASSUME NEW asked, NEW old \in Seq(Turns), NEW turn \in Turns, NEW i \in 1..Len(old),
           AskedWith(asked, old, i, 0)
    PROVE  AskedWith(asked, Append(old, turn), i, 0)
<1> DEFINE turns == Append(old, turn)
<1>1. \A k \in 1..Len(old) : turns[k] = old[k]
    BY AppendProperties
<1>2. Len(old) \in Nat
    BY LenProperties
<1> HIDE DEF turns
<1>3. \A k \in 1..i : turns[k] = old[k]
    BY <1>1, <1>2
<1>4. AskedWith(asked, turns, i, 0)
    BY <1>3 DEF AskedWith
<1> QED
    BY <1>4 DEF turns

LEMMA OpenChatStep == Inv /\ OpenChat => Inv'
<1> SUFFICES ASSUME Inv, OpenChat PROVE Inv'
    OBVIOUS
<1> DEFINE e == ui'
<1>1. page = "chat" /\ ui = Nil /\ UNCHANGED calls /\ Local
    BY DEF OpenChat
<1>2. sid \in Subs /\ jwt \in Tokens /\ role \in Roles /\ role = jwt.role
    BY DEF OpenChat, Inv, TypeOK, ConsoleInv, SessionInv
<1>3. PICK none \in Seq(Turns) : none = <<>>
    BY EmptySeq
<1>4. e = [owner |-> sid, jwt |-> jwt, role |-> role, turns |-> none, loading |-> FALSE,
           sent |-> 0, before |-> 0, overlapped |-> FALSE]
    BY <1>3 DEF OpenChat
<1> HIDE DEF e
<1>5. /\ e \in ChatUi
      /\ e.jwt = jwt /\ e.role = role /\ e.turns = none /\ e.loading = FALSE
      /\ e.sent = 0 /\ e.before = 0
    BY <1>2, <1>4 DEF ChatUi
<1> USE DEF e
<1>6. \A k \in Kinds : Of(k)' = {}
    BY <1>1, NoneOf DEF Of
<1>7. HomeInv'
    BY <1>6 DEF HomeInv
<1>8. Of("send")' = {} /\ Of("switch")' = {}
    BY <1>6 DEF Kinds
<1>9. SwitchInv'
    BY <1>2, <1>5, <1>8 DEF SwitchInv
<1>10. TurnsInv'
  <2>1. Len(none) = 0
      BY <1>3
  <2> QED
      BY <1>5, <1>8, <2>1 DEF TurnsInv
<1>11. ChatInv'
    BY <1>5, <1>9, <1>10 DEF ChatInv
<1> QED
    BY <1>1, <1>5, <1>7, <1>11, LocalStored, OnChatPage DEF Local, Inv, TypeOK, CallTable

\* What a message under way holds.
LEMMA SendOut ==
    ASSUME Inv, NEW s \in Of("send")
    PROVE  calls[s].arg.messages \in Seq(Nat) \ {<<>>}
<1>1. s \in Slots /\ Is(s, "send")
    BY DEF Of, Is
<1>2. Arg("send", calls[s].arg)
    BY <1>1, CallIn DEF Is
<1> QED
    BY <1>2 DEF Arg

LEMMA NewChatStep == Inv /\ NewChat => Inv'
<1> SUFFICES ASSUME Inv, NewChat PROVE Inv'
    OBVIOUS
<1> DEFINE e == ui'
<1>1. OnChat /\ UNCHANGED calls /\ Local
    BY DEF NewChat
<1>2. /\ page = "chat" /\ ui # Nil /\ ui \in ChatUi /\ calls \in CallTable
      /\ ui.loading => Of("send") # {}
      /\ SwitchInv /\ TurnsInv
    BY <1>1, ChatNow
<1>3. PICK none \in Seq(Turns) : none = <<>>
    BY EmptySeq
<1>4. e = [ui EXCEPT !.turns = none, !.before = ui.sent]
    BY <1>3 DEF NewChat
<1> HIDE DEF e
<1>5. /\ e \in ChatUi
      /\ e.owner = ui.owner /\ e.jwt = ui.jwt /\ e.role = ui.role
      /\ e.turns = none /\ e.loading = ui.loading /\ e.sent = ui.sent
      /\ e.before = ui.sent /\ e.overlapped = ui.overlapped
    BY <1>2, <1>3, <1>4, Zenon DEF ChatUi
<1> USE DEF e
<1>6. \A k : Of(k)' = Of(k)
    BY <1>1 DEF Of
<1>7. SwitchInv'
    BY <1>1, <1>2, <1>5, <1>6, SwitchKept
<1>8. TurnsInv'
  <2>1. Len(none) = 0
      BY <1>3
  <2>2. ASSUME NEW s \in Of("send")
        PROVE  AskedWith(calls[s].arg.messages, none, Len(none), 1)
    <3>1. calls[s].arg.messages \in Seq(Nat) \ {<<>>}
        BY <1>1, SendOut
    <3>2. 0 + 1 <= Len(calls[s].arg.messages)
        BY <3>1, EmptySeq, LenProperties
    <3> QED
        BY <2>1, <3>2 DEF AskedWith
  <2> QED
      BY <1>1, <1>2, <1>5, <1>6, <2>1, <2>2 DEF TurnsInv
<1>9. ui' # Nil
    BY <1>5, NilAssumption
<1>10. HomeInv'
    BY <1>1, <1>6, <1>9, HomeKept DEF Local
<1>11. ChatInv'
    BY <1>2, <1>5, <1>6, <1>7, <1>8 DEF ChatInv
<1> QED
    BY <1>1, <1>2, <1>5, <1>10, <1>11, LocalStored, OnChatPage DEF Local

LEMMA SendStep == Inv /\ Send => Inv'
<1> SUFFICES ASSUME Inv, Send PROVE Inv'
    OBVIOUS
<1> DEFINE e == ui'
           messages == History \o <<ui.sent + 1>>
           a == Request(messages)
<1>1. OnChat /\ ~ui.loading /\ Local /\ Issue("send", a)
    BY DEF Send, Input
<1>2. /\ page = "chat" /\ ui # Nil /\ ui \in ChatUi /\ calls \in CallTable
      /\ SwitchInv /\ TurnsInv
    BY <1>1, ChatNow
<1>3. PICK n \in Nat : n = ui.sent + 1 /\ ui.sent \in Nat
    BY <1>2 DEF ChatUi
<1>4. e = [ui EXCEPT !.loading = TRUE, !.sent = n]
    BY <1>3 DEF Send
<1> HIDE DEF e
<1>5. /\ e \in ChatUi
      /\ e.owner = ui.owner /\ e.jwt = ui.jwt /\ e.role = ui.role
      /\ e.turns = ui.turns /\ e.loading = TRUE /\ e.sent = n
      /\ e.before = ui.before /\ e.overlapped = ui.overlapped
    BY <1>2, <1>3, <1>4, Zenon DEF ChatUi
<1>6. /\ messages \in Seq(Nat) \ {<<>>}
      /\ Len(ui.turns) \in Nat /\ Len(messages) = Len(ui.turns) + 1
      /\ \A k \in 1..Len(ui.turns) : messages[k] = ui.turns[k].message
  <2>1. /\ History \in Seq(Nat) /\ Len(ui.turns) \in Nat
        /\ Len(History) = Len(ui.turns)
        /\ \A k \in 1..Len(ui.turns) : History[k] = ui.turns[k].message
    <3>1. ui.turns \in Seq(Turns)
        BY <1>2 DEF ChatUi
    <3>2. \A i \in 1..Len(ui.turns) : ui.turns[i].message \in Nat
      <4>1. ASSUME NEW i \in 1..Len(ui.turns) PROVE ui.turns[i] \in Turns
          BY <3>1, ElementOfSeq
      <4> QED
          BY <4>1 DEF Turns
    <3>3. Len(ui.turns) \in Nat
        BY <3>1, LenProperties
    <3> HIDE DEF e
    <3> QED
        BY <3>2, <3>3 DEF History
  <2>2. messages = History \o <<n>>
      BY <1>3
  <2> HIDE DEF messages, e
  <2> QED
      BY <1>3, <2>1, <2>2
<1>7. Arg("send", a) /\ a.messages = messages /\ "send" \in Kinds /\ "chat" \in Home("send")
  <2> HIDE DEF messages
  <2> QED
      BY <1>6 DEF Arg, Request, Kinds, Home
<1> HIDE DEF messages, a
<1>8. PICK s \in Slots :
          /\ calls'[s].arg = a
          /\ \A t \in Slots \ {s} : calls'[t] = calls[t]
          /\ Of("send")' = Of("send") \cup {s}
          /\ calls[s] = Nil
    BY <1>1, <1>2, <1>7, Issued
<1>9. calls' \in CallTable /\ \A o : o # "send" => Of(o)' = Of(o)
    BY <1>1, <1>2, <1>7, Issued
<1>10. \A k : \A t \in Of(k) : calls'[t] = calls[t]
    BY <1>8 DEF Of
<1> USE DEF e
<1>11. SwitchInv'
    BY <1>2, <1>5, <1>9, <1>10, SwitchKept
<1>12. TurnsInv'
  <2>1. Of("send")' = {s}
      BY <1>1, <1>2, <1>8 DEF TurnsInv
  <2>2. calls'[s].arg.messages = messages
      BY <1>7, <1>8
  <2>3. AskedWith(messages, ui.turns, Len(ui.turns), 1)
    <3>1. PICK l \in Nat : l = Len(ui.turns) /\ Len(messages) = l + 1
        BY <1>6
    <3>2. ASSUME NEW k \in 1..l PROVE messages[l + 1 - 1 - l + k] = ui.turns[k].message
      <4>1. l + 1 - 1 - l + k = k
          OBVIOUS
      <4> QED
          BY <1>6, <3>1, <4>1
    <3>3. l + 1 <= l + 1
        OBVIOUS
    <3> QED
        BY <3>1, <3>2, <3>3 DEF AskedWith
  <2> QED
      BY <1>2, <1>5, <2>1, <2>2, <2>3 DEF TurnsInv
<1>13. ui' # Nil
    BY <1>5, NilAssumption
<1>14. HomeInv'
    BY <1>1, <1>2, <1>7, <1>9, <1>13, HomeIssued DEF Local
<1>15. ChatInv'
    BY <1>8, <1>11, <1>12 DEF ChatInv
<1> QED
    BY <1>1, <1>2, <1>5, <1>9, <1>14, <1>15, LocalStored, OnChatPage DEF Local

LEMMA SwitchRoleStep ==
    ASSUME Inv, NEW r \in Personas, SwitchRole(r)
    PROVE  Inv'
<1> DEFINE e == ui'
           a == [role |-> r, prev |-> ui.role]
<1>1. OnChat /\ Local /\ Issue("switch", a)
    BY DEF SwitchRole, Persona
<1>2. /\ page = "chat" /\ ui # Nil /\ ui \in ChatUi /\ calls \in CallTable
      /\ ui.loading => Of("send") # {}
      /\ SwitchInv /\ TurnsInv
    BY <1>1, ChatNow
<1>3. PICK o \in BOOLEAN : o <=> ui.overlapped \/ Of("switch") # {}
    OBVIOUS
<1>4. PICK q \in Roles : q = r
    BY DEF Roles
<1>5. e = [ui EXCEPT !.role = q, !.overlapped = o]
  <2>1. o = (ui.overlapped \/ Busy("switch"))
      BY <1>2, <1>3, BusyOf DEF ChatUi
  <2> QED
      BY <1>4, <2>1 DEF SwitchRole
<1> HIDE DEF e
<1>6. /\ e \in ChatUi
      /\ e.owner = ui.owner /\ e.jwt = ui.jwt /\ e.role = q
      /\ e.turns = ui.turns /\ e.loading = ui.loading /\ e.sent = ui.sent
      /\ e.before = ui.before /\ e.overlapped = o
    BY <1>2, <1>3, <1>4, <1>5, Zenon DEF ChatUi
<1>7. /\ Arg("switch", a) /\ a.role = r /\ a.prev = ui.role
      /\ "switch" \in Kinds /\ "chat" \in Home("switch")
    BY <1>2, <1>4 DEF Arg, Kinds, Home, ChatUi
<1> HIDE DEF a
<1>8. PICK s \in Slots :
          /\ calls'[s].arg = a
          /\ \A t \in Slots \ {s} : calls'[t] = calls[t]
          /\ Of("switch")' = Of("switch") \cup {s}
          /\ calls[s] = Nil
    BY <1>1, <1>2, <1>7, Issued
<1>9. calls' \in CallTable /\ \A k : k # "switch" => Of(k)' = Of(k)
    BY <1>1, <1>2, <1>7, Issued
<1>10. \A t \in Of("send") : calls'[t] = calls[t]
    BY <1>8 DEF Of
<1> USE DEF e
<1>11. SwitchInv'
    BY <1>2, <1>3, <1>4, <1>6, <1>7, <1>8 DEF SwitchInv
<1>12. TurnsInv'
    BY <1>2, <1>6, <1>9, <1>10, TurnsKept
<1>13. ui' # Nil
    BY <1>6, NilAssumption
<1>14. HomeInv'
    BY <1>1, <1>2, <1>7, <1>9, <1>13, HomeIssued DEF Local
<1>15. ChatInv'
    BY <1>2, <1>6, <1>9, <1>11, <1>12 DEF ChatInv
<1> QED
    BY <1>1, <1>2, <1>6, <1>9, <1>14, <1>15, LocalStored, OnChatPage DEF Local

\* A message is on its way only for the chat page.
LEMMA SendCall ==
    ASSUME Inv, NEW s \in Slots, Is(s, "send"), Done(s)
    PROVE  /\ OnChat /\ s \in Of("send")
           /\ calls[s].arg \in [mine : BOOLEAN, messages : Seq(Nat) \ {<<>>}]
           /\ calls' \in CallTable
           /\ \A k : Of(k)' \subseteq Of(k)
           /\ Of("switch")' = Of("switch")
           /\ \A t \in Slots \ {s} : calls'[t] = calls[t]
           /\ s \notin Of("send")' /\ s \notin Of("switch")
<1>1. ui # Nil /\ page \in Home("send") /\ s \in Of("send") /\ Arg("send", calls[s].arg)
    BY CallIn DEF Is, Lasting
<1>2. calls \in CallTable
    BY DEF Inv, TypeOK, CallTable
<1>3. s \notin Of("switch")
    BY DEF Is, Of
<1>4. /\ calls' \in CallTable
      /\ \A k : Of(k)' = Of(k) \ {s}
      /\ \A t \in Slots \ {s} : calls'[t] = calls[t]
    BY <1>2, Ended
<1>5. OnChat
    BY <1>1 DEF Inv, TypeOK, Home, OnChat
<1>6. calls[s].arg \in [mine : BOOLEAN, messages : Seq(Nat) \ {<<>>}]
    BY <1>1 DEF Arg
<1> QED
    BY <1>1, <1>3, <1>4, <1>5, <1>6

LEMMA AnsweredStep ==
    ASSUME Inv, NEW s \in Slots, Answered(s)
    PROVE  Inv'
<1> DEFINE e == ui'
<1>1. Is(s, "send") /\ Done(s) /\ Local
    BY DEF Answered
<1>2. /\ OnChat /\ s \in Of("send")
      /\ calls[s].arg \in [mine : BOOLEAN, messages : Seq(Nat) \ {<<>>}]
      /\ calls' \in CallTable
      /\ \A k : Of(k)' \subseteq Of(k)
      /\ Of("switch")' = Of("switch")
      /\ \A t \in Slots \ {s} : calls'[t] = calls[t]
      /\ s \notin Of("send")' /\ s \notin Of("switch")
    BY <1>1, SendCall
<1>3. /\ page = "chat" /\ ui # Nil /\ ui \in ChatUi
      /\ SwitchInv /\ TurnsInv
    BY <1>2, ChatNow
<1>4. PICK ms \in Seq(Nat) \ {<<>>} : ms = calls[s].arg.messages
    BY <1>2
<1>5. PICK turn \in Turns :
          /\ turn = [message |-> ms[Len(ms)], messages |-> ms]
          /\ turn.message = ms[Len(ms)] /\ turn.messages = ms
  <2>1. ms \in Seq(Nat) /\ ms # <<>>
      BY <1>4
  <2>2. Len(ms) \in 1..Len(ms)
      BY <2>1, EmptySeq
  <2>3. ms[Len(ms)] \in Nat
      BY <2>1, <2>2, ElementOfSeq
  <2>4. PICK n \in Nat : n = ms[Len(ms)]
      BY <2>3
  <2>5. [message |-> n, messages |-> ms] \in Turns
      BY <2>1 DEF Turns
  <2> QED
      BY <2>4, <2>5
<1>6. ui.turns \in Seq(Turns)
    BY <1>3 DEF ChatUi
<1>7. PICK turns \in Seq(Turns) :
          /\ turns = Append(ui.turns, turn)
          /\ Len(turns) = Len(ui.turns) + 1 /\ Len(ui.turns) \in Nat
          /\ \A i \in 1..Len(ui.turns) : turns[i] = ui.turns[i]
          /\ turns[Len(ui.turns) + 1] = turn
  <2> DEFINE turns == Append(ui.turns, turn)
  <2>1. /\ turns \in Seq(Turns) /\ Len(turns) = Len(ui.turns) + 1
        /\ \A i \in 1..Len(ui.turns) : turns[i] = ui.turns[i]
        /\ turns[Len(ui.turns) + 1] = turn
      BY <1>6, AppendProperties
  <2>2. Len(ui.turns) \in Nat
      BY <1>6, LenProperties
  <2> QED
      BY <2>1, <2>2
<1>8. e = [ui EXCEPT !.turns = turns, !.loading = FALSE]
    BY <1>4, <1>5, <1>7 DEF Answered
<1> HIDE DEF e
<1>9. /\ e \in ChatUi
      /\ e.owner = ui.owner /\ e.jwt = ui.jwt /\ e.role = ui.role
      /\ e.turns = turns /\ e.loading = FALSE /\ e.sent = ui.sent
      /\ e.before = ui.before /\ e.overlapped = ui.overlapped
    BY <1>3, <1>7, <1>8, Zenon DEF ChatUi
<1> USE DEF e
<1>10. Of("switch") \subseteq Slots /\ Of("send") \subseteq Slots
    BY DEF Of
<1>11. SwitchInv'
    BY <1>2, <1>3, <1>9, <1>10, SwitchKept
<1>12. TurnsInv'
  <2>1. Of("send")' = {}
      BY <1>2, <1>3 DEF TurnsInv
  <2>2. AskedWith(ms, turns, Len(ui.turns) + 1, 0)
      BY <1>2, <1>3, <1>4, <1>5, <1>6, <1>7, OneMore DEF TurnsInv
  <2>3. \A i \in 1..Len(ui.turns) : AskedWith(ui.turns[i].messages, turns, i, 0)
      BY <1>3, <1>6, <1>7, StillAsked DEF TurnsInv
  <2>4. ASSUME NEW i \in 1..Len(turns) PROVE AskedWith(turns[i].messages, turns, i, 0)
    <3>1. i \in 1..Len(ui.turns) \/ i = Len(ui.turns) + 1
        BY <1>7
    <3>2. CASE i \in 1..Len(ui.turns)
        BY <1>7, <2>3, <3>2
    <3>3. CASE i = Len(ui.turns) + 1
        BY <1>5, <1>7, <2>2, <3>3
    <3> QED
        BY <3>1, <3>2, <3>3
  <2> QED
      BY <1>9, <2>1, <2>4 DEF TurnsInv
<1>13. ui' # Nil
    BY <1>9, NilAssumption
<1>14. HomeInv'
    BY <1>1, <1>2, <1>13, HomeKept DEF Local
<1>15. ChatInv'
    BY <1>9, <1>11, <1>12 DEF ChatInv
<1> QED
    BY <1>1, <1>2, <1>3, <1>9, <1>14, <1>15, LocalStored, OnChatPage DEF Local

LEMMA UnansweredStep ==
    ASSUME Inv, NEW s \in Slots, Unanswered(s)
    PROVE  Inv'
<1> DEFINE e == ui'
<1>1. Is(s, "send") /\ Done(s) /\ Local
    BY DEF Unanswered
<1>2. /\ OnChat /\ s \in Of("send")
      /\ calls' \in CallTable
      /\ \A k : Of(k)' \subseteq Of(k)
      /\ Of("switch")' = Of("switch")
      /\ \A t \in Slots \ {s} : calls'[t] = calls[t]
      /\ s \notin Of("send")' /\ s \notin Of("switch")
    BY <1>1, SendCall
<1>3. /\ page = "chat" /\ ui # Nil /\ ui \in ChatUi
      /\ SwitchInv /\ TurnsInv
    BY <1>2, ChatNow
<1>4. e = [ui EXCEPT !.loading = FALSE]
    BY DEF Unanswered
<1> HIDE DEF e
<1>5. /\ e \in ChatUi
      /\ e.owner = ui.owner /\ e.jwt = ui.jwt /\ e.role = ui.role
      /\ e.turns = ui.turns /\ e.loading = FALSE /\ e.sent = ui.sent
      /\ e.before = ui.before /\ e.overlapped = ui.overlapped
    BY <1>3, <1>4, Zenon DEF ChatUi
<1> USE DEF e
<1>6. Of("switch") \subseteq Slots /\ Of("send") \subseteq Slots
    BY DEF Of
<1>7. SwitchInv'
    BY <1>2, <1>3, <1>5, <1>6, SwitchKept
<1>8. TurnsInv'
  <2>1. Of("send")' = {}
      BY <1>2, <1>3 DEF TurnsInv
  <2> QED
      BY <1>2, <1>3, <1>5, <2>1, TurnsKept
<1>9. ui' # Nil
    BY <1>5, NilAssumption
<1>10. HomeInv'
    BY <1>1, <1>2, <1>9, HomeKept DEF Local
<1>11. ChatInv'
    BY <1>5, <1>7, <1>8 DEF ChatInv
<1> QED
    BY <1>1, <1>2, <1>3, <1>5, <1>10, <1>11, LocalStored, OnChatPage DEF Local

\* A switch of the page that is open ends.
LEMMA SwitchEnds ==
    ASSUME Inv, NEW s \in Slots, Is(s, "switch"), calls[s].on, Done(s), Stored, page' = page,
           ui' \in ChatUi, ui'.turns = ui.turns, ui'.loading = ui.loading, ui'.sent = ui.sent,
           ui'.before = ui.before, ui'.overlapped = ui.overlapped,
           ~ui.overlapped => ui'.role = ui'.jwt.role
    PROVE  Inv'
<1>1. s \in Of("switch") /\ OnChat
    BY CallIn DEF Is, Home, OnChat
<1>2. /\ page = "chat" /\ ui # Nil /\ ui \in ChatUi /\ calls \in CallTable
      /\ ui.loading => Of("send") # {}
      /\ SwitchInv /\ TurnsInv
    BY <1>1, ChatNow
<1>3. /\ calls' \in CallTable
      /\ \A k : Of(k)' = Of(k) \ {s}
      /\ \A t \in Slots \ {s} : calls'[t] = calls[t]
    BY <1>2, Ended
<1>4. s \notin Of("send") /\ Of("send") \subseteq Slots
    BY DEF Is, Of
<1>5. Of("send")' = Of("send") /\ \A t \in Of("send") : calls'[t] = calls[t]
    BY <1>3, <1>4
<1>6. SwitchInv'
  <2>1. ~ui.overlapped => Of("switch")' = {}
      BY <1>1, <1>2, <1>3 DEF SwitchInv
  <2> QED
      BY <2>1 DEF SwitchInv
<1>7. TurnsInv'
    BY <1>2, <1>5, TurnsKept
<1>8. ui' # Nil
    BY NilAssumption
<1>9. HomeInv'
    BY <1>3, <1>8, HomeKept
<1>10. ChatInv'
    BY <1>2, <1>5, <1>6, <1>7 DEF ChatInv
<1> QED
    BY <1>2, <1>3, <1>9, <1>10, OnChatPage

LEMMA SwitchedStep ==
    ASSUME Inv, NEW s \in Slots, Switched(s)
    PROVE  Inv'
<1> DEFINE e == ui'
           r == calls[s].arg.role
<1>1. Is(s, "switch") /\ Done(s) /\ sid' = sid /\ page' = page /\ Store(Minted(r))
    BY DEF Switched
<1>2. calls[s].arg \in [role : Roles, prev : Roles]
    BY <1>1, CallIn DEF Is, Arg
<1>3. PICK t \in Tokens : t = Minted(r) /\ t.role = r
  <2>1. PICK q \in Roles : q = r
      BY <1>2
  <2>2. Minted(q) \in Tokens /\ Minted(q).role = q
      BY DEF Minted, Token, Tokens, Subs
  <2> QED
      BY <2>1, <2>2
<1>4. Stored /\ jwt' = t
    BY <1>1, <1>3, TokenStored DEF Store
<1>5. CASE calls[s].on
  <2>1. s \in Of("switch") /\ OnChat
      BY <1>1, <1>5, CallIn DEF Is, Home, OnChat
  <2>2. ui \in ChatUi /\ SwitchInv
      BY <2>1, ChatNow
  <2>3. e = [ui EXCEPT !.jwt = t]
      BY <1>4, <1>5 DEF Switched
  <2> HIDE DEF e
  <2>4. /\ e \in ChatUi
      /\ e.owner = ui.owner /\ e.jwt = t /\ e.role = ui.role
      /\ e.turns = ui.turns /\ e.loading = ui.loading /\ e.sent = ui.sent
      /\ e.before = ui.before /\ e.overlapped = ui.overlapped
      BY <2>2, <2>3, Zenon DEF ChatUi
  <2>5. ~ui.overlapped => e.role = e.jwt.role
      BY <1>3, <2>1, <2>2, <2>4 DEF SwitchInv
  <2> USE DEF e
  <2> QED
      BY <1>1, <1>4, <1>5, <2>4, <2>5, SwitchEnds
<1>6. CASE ~calls[s].on
    BY <1>1, <1>4, <1>6, AsideDone DEF Switched, Is
<1> QED
    BY <1>5, <1>6

LEMMA NotSwitchedStep ==
    ASSUME Inv, NEW s \in Slots, NotSwitched(s)
    PROVE  Inv'
<1> DEFINE e == ui'
<1>1. Is(s, "switch") /\ Done(s) /\ Local
    BY DEF NotSwitched
<1>2. PICK r \in Roles : r = calls[s].arg.prev
    BY <1>1, CallIn DEF Is, Arg
<1>3. Stored
    BY <1>1, LocalStored DEF Local
<1>4. CASE calls[s].on
  <2>1. s \in Of("switch") /\ OnChat
      BY <1>1, <1>4, CallIn DEF Is, Home, OnChat
  <2>2. ui \in ChatUi /\ SwitchInv
      BY <2>1, ChatNow
  <2>3. e = [ui EXCEPT !.role = r]
      BY <1>2, <1>4 DEF NotSwitched
  <2> HIDE DEF e
  <2>4. /\ e \in ChatUi
      /\ e.owner = ui.owner /\ e.jwt = ui.jwt /\ e.role = r
      /\ e.turns = ui.turns /\ e.loading = ui.loading /\ e.sent = ui.sent
      /\ e.before = ui.before /\ e.overlapped = ui.overlapped
      BY <2>2, <2>3, Zenon DEF ChatUi
  <2>5. ~ui.overlapped => e.role = e.jwt.role
      BY <1>2, <2>1, <2>2, <2>4 DEF SwitchInv
  <2> USE DEF e
  <2> QED
      BY <1>1, <1>3, <1>4, <2>4, <2>5, SwitchEnds DEF Local
<1>5. CASE ~calls[s].on
    BY <1>1, <1>3, <1>5, AsideDone DEF NotSwitched, Is, Local
<1> QED
    BY <1>4, <1>5

-----------------------------------------------------------------------------
(* The audit page.                                                         *)

LEMMA AdminNow ==
    ASSUME Inv, page = "admin", ui # Nil
    PROVE  /\ ui \in AdminUi
           /\ ui.loading => Of("logs") # {}
           /\ ui.verifying => Of("verify") # {}
           /\ ui.access = "ok" => jwt \in Tokens /\ ui.token \in Tokens
           /\ DateInv
BY DEF Inv, TypeOK, ConsoleInv, AdminInv, AdminUi

\* A log is asked for.
LEMMA FetchLogsStep ==
    ASSUME Inv, page = "admin", Local, jwt \in Tokens, NEW token \in Tokens,
           NEW state \in AdminUi, state.access = "ok", FetchLogs(state, token),
           state.verifying => Of("verify") # {}
    PROVE  Inv'
<1> DEFINE e == ui'
           a == [date |-> state.date, token |-> token]
<1>1. PICK o \in BOOLEAN : o <=> state.overlapped \/ Of("logs") # {}
    OBVIOUS
<1>2. PICK held \in Tokens \cup {Nil} :
          /\ held = jwt
          /\ e = [state EXCEPT !.loading = TRUE, !.error = FALSE, !.token = held, !.overlapped = o]
  <2>1. o = (state.overlapped \/ Busy("logs"))
      BY <1>1, BusyOf DEF AdminUi
  <2> QED
      BY <2>1 DEF FetchLogs
<1> HIDE DEF e
<1>3. /\ e \in AdminUi /\ e.date = state.date /\ e.loading = TRUE /\ e.access = "ok"
      /\ e.verifying = state.verifying /\ e.token = held /\ e.overlapped = o
    BY <1>2, Zenon DEF AdminUi
<1>4. Issue("logs", a)
    BY DEF FetchLogs
<1>5. Arg("logs", a) /\ a.date = state.date /\ "logs" \in Kinds /\ "admin" \in Home("logs")
    BY DEF Arg, Kinds, Home, AdminUi
<1>6. calls \in CallTable /\ Of("logs") \subseteq Slots
    BY DEF Inv, TypeOK, CallTable, Of
<1> HIDE DEF a
<1>7. PICK s \in Slots : calls'[s].arg = a /\ Of("logs")' = Of("logs") \cup {s}
    BY <1>4, <1>5, <1>6, Issued
<1>8. calls' \in CallTable /\ \A k : k # "logs" => Of(k)' = Of(k)
    BY <1>4, <1>5, <1>6, Issued
<1> USE DEF e
<1>9. ui' # Nil
    BY <1>3, NilAssumption
<1>10. HomeInv'
    BY <1>5, <1>8, <1>9, HomeIssued DEF Local
<1>11. DateInv'
    BY <1>1, <1>3, <1>5, <1>7 DEF DateInv
<1>12. jwt' # Nil /\ ui'.token # Nil
    BY <1>2, <1>3, NilAssumption DEF Local
<1>13. AdminInv'
    BY <1>3, <1>7, <1>8, <1>11, <1>12 DEF AdminInv
<1> QED
    BY <1>3, <1>8, <1>10, <1>13, LocalStored, OnAdminPage DEF Local

\* The page before its access is known.
Checking ==
    [date : Dates, logs : Dates \cup {"none"}, loading : BOOLEAN, error : BOOLEAN,
     access : {"checking", "denied", "ok"}, verdict : Dates \cup {"none"},
     verifying : BOOLEAN, token : Tokens \cup {Nil}, overlapped : BOOLEAN, hushed : BOOLEAN]

LEMMA EffectStep ==
    ASSUME Inv, page = "admin", Local, NEW state \in Checking, Effect(state),
           state.loading => Of("logs") # {},
           state.verifying => Of("verify") # {}
    PROVE  Inv'
<1> DEFINE e == ui'
<1>1. CASE role # "admin" \/ jwt = Nil
  <2>1. PICK held \in Tokens \cup {Nil} :
            e = [state EXCEPT !.access = "denied", !.token = held] /\ UNCHANGED calls
      BY <1>1 DEF Effect, Inv, TypeOK
  <2> HIDE DEF e
  <2>2. /\ e \in AdminUi /\ e.access = "denied"
        /\ e.loading = state.loading /\ e.verifying = state.verifying
      BY <2>1, Zenon DEF AdminUi, Checking
  <2> USE DEF e
  <2>3. calls' \in CallTable /\ \A k : Of(k)' = Of(k)
      BY <2>1 DEF Inv, TypeOK, CallTable, Of
  <2>4. ui' # Nil
      BY <2>2, NilAssumption
  <2>5. HomeInv'
      BY <2>3, <2>4, HomeKept DEF Local
  <2>6. AdminInv'
      BY <2>2, <2>3 DEF AdminInv, DateInv
  <2> QED
      BY <2>2, <2>3, <2>5, <2>6, LocalStored, OnAdminPage DEF Local
<1>2. CASE role = "admin" /\ jwt # Nil
  <2>1. PICK st : st = [state EXCEPT !.access = "ok"]
      OBVIOUS
  <2>2. st \in AdminUi /\ st.access = "ok" /\ st.verifying = state.verifying
      BY <2>1, Zenon DEF AdminUi, Checking
  <2>3. FetchLogs(st, jwt)
      BY <1>2, <2>1 DEF Effect
  <2>4. jwt \in Tokens
      BY <1>2 DEF Inv, TypeOK
  <2> QED
      BY <2>2, <2>3, <2>4, FetchLogsStep
<1> QED
    BY <1>1, <1>2

LEMMA OpenAdminStep == Inv /\ OpenAdmin => Inv'
<1> SUFFICES ASSUME Inv, OpenAdmin PROVE Inv'
    OBVIOUS
<1> DEFINE state == [date |-> Today, logs |-> "none", loading |-> FALSE,
                     error |-> FALSE, access |-> "checking", verdict |-> "none",
                     verifying |-> FALSE, token |-> jwt, overlapped |-> FALSE,
                     hushed |-> FALSE]
<1>1. page = "admin" /\ Effect(state) /\ Local
    BY DEF OpenAdmin
<1>2. Today \in Dates
    BY DatesAssumption DEF Today
<1>3. state \in Checking /\ state.loading = FALSE /\ state.verifying = FALSE
    BY <1>2 DEF Checking, Inv, TypeOK
<1> HIDE DEF state
<1> QED
    BY <1>1, <1>3, EffectStep

LEMMA PickDateStep ==
    ASSUME Inv, NEW d \in Dates, PickDate(d)
    PROVE  Inv'
<1>1. page = "admin" /\ ui # Nil /\ Local
    BY DEF PickDate, OnAdmin
<1>2. PICK state : state = [ui EXCEPT !.date = d]
    OBVIOUS
<1>3. Effect(state)
    BY <1>2 DEF PickDate
<1>4. ui \in AdminUi /\ (ui.loading => Of("logs") # {}) /\ (ui.verifying => Of("verify") # {})
    BY <1>1, AdminNow
<1>5. state \in Checking /\ state.loading = ui.loading /\ state.verifying = ui.verifying
    BY <1>2, <1>4, Zenon DEF AdminUi, Checking
<1> QED
    BY <1>1, <1>3, <1>4, <1>5, EffectStep

LEMMA RefreshLogsStep == Inv /\ RefreshLogs => Inv'
<1> SUFFICES ASSUME Inv, RefreshLogs PROVE Inv'
    OBVIOUS
<1>1. /\ page = "admin" /\ ui # Nil /\ ui.access = "ok" /\ Local
      /\ FetchLogs(ui, ui.token)
    BY DEF RefreshLogs, CanRefresh, OnAdmin
<1>2. /\ ui \in AdminUi /\ jwt \in Tokens /\ ui.token \in Tokens
      /\ ui.verifying => Of("verify") # {}
    BY <1>1, AdminNow
<1>3. PICK state \in AdminUi : state = ui
    BY <1>2
<1>4. FetchLogs(state, ui.token) /\ state.access = "ok" /\ (state.verifying => Of("verify") # {})
    BY <1>1, <1>2, <1>3
<1> QED
    BY <1>1, <1>2, <1>4, FetchLogsStep

LEMMA VerifyStep == Inv /\ Verify => Inv'
<1> SUFFICES ASSUME Inv, Verify PROVE Inv'
    OBVIOUS
<1> DEFINE e == ui'
           a == [date |-> ui.date, token |-> ui.token]
<1>1. page = "admin" /\ ui # Nil /\ ui.access = "ok" /\ Local /\ Issue("verify", a)
    BY DEF Verify, CanVerify, OnAdmin
<1>2. /\ ui \in AdminUi
      /\ ui.loading => Of("logs") # {}
      /\ jwt \in Tokens /\ ui.token \in Tokens
      /\ DateInv
    BY <1>1, AdminNow
<1>3. PICK h \in BOOLEAN : h = (ui.hushed \/ ui.error)
    OBVIOUS
<1>4. PICK held \in Tokens \cup {Nil} :
          /\ held = jwt
          /\ e = [ui EXCEPT !.verifying = TRUE, !.error = FALSE, !.token = held, !.hushed = h]
    BY <1>2, <1>3 DEF Verify
<1> HIDE DEF e
<1>5. /\ e \in AdminUi
      /\ e.date = ui.date /\ e.logs = ui.logs /\ e.loading = ui.loading
      /\ e.error = FALSE /\ e.access = ui.access /\ e.verdict = ui.verdict
      /\ e.verifying = TRUE /\ e.token = held /\ e.overlapped = ui.overlapped
      /\ e.hushed = h
    BY <1>2, <1>4, Zenon DEF AdminUi
<1>6. Arg("verify", a) /\ "verify" \in Kinds /\ "admin" \in Home("verify")
    BY <1>2 DEF Arg, Kinds, Home, AdminUi
<1>7. calls \in CallTable
    BY DEF Inv, TypeOK, CallTable
<1> HIDE DEF a
<1>8. PICK s \in Slots :
          /\ calls[s] = Nil
          /\ \A t \in Slots \ {s} : calls'[t] = calls[t]
          /\ Of("verify")' = Of("verify") \cup {s}
    BY <1>1, <1>6, <1>7, Issued
<1>9. calls' \in CallTable /\ \A k : k # "verify" => Of(k)' = Of(k)
    BY <1>1, <1>6, <1>7, Issued
<1>10. \A t \in Of("logs") : calls'[t] = calls[t]
    BY <1>8 DEF Of
<1> USE DEF e
<1>11. ui' # Nil
    BY <1>5, NilAssumption
<1>12. HomeInv'
    BY <1>1, <1>6, <1>9, <1>11, HomeIssued DEF Local
<1>13. DateInv'
  <2>1. Of("logs")' = Of("logs")
      BY <1>9
  <2>2. DateInv /\ \A t \in Of("logs") : calls'[t] = calls[t]
      BY <1>2, <1>10
  <2>3. ui.error \/ ui.hushed => e.hushed
      BY <1>3, <1>5
  <2> QED
      BY <1>5, <2>1, <2>2, <2>3 DEF DateInv
<1>14. jwt' # Nil /\ ui'.token # Nil
    BY <1>1, <1>2, <1>4, <1>5, NilAssumption DEF Local
<1>15. AdminInv'
    BY <1>2, <1>5, <1>8, <1>9, <1>13, <1>14 DEF AdminInv
<1> QED
    BY <1>1, <1>5, <1>9, <1>12, <1>15, LocalStored, OnAdminPage DEF Local

\* A call of the audit page ends.
LEMMA AdminAnswered ==
    ASSUME Inv, NEW k \in {"logs", "verify"}, NEW s \in Slots, Is(s, k), Done(s), Local,
           ui' \in AdminUi, ui'.date = ui.date, ui'.access = ui.access, ui'.token = jwt,
           ui'.overlapped = ui.overlapped, ui'.hushed = ui.hushed,
           ui'.loading => ui.loading /\ k # "logs",
           ui'.verifying => ui.verifying /\ k # "verify",
           k = "verify" => ui'.loading = ui.loading /\ ui'.logs = ui.logs /\ (ui.error => ui'.error),
           k = "logs" => ui'.error \/ ui'.logs = calls[s].arg.date
    PROVE  Inv'
<1>1. s \in Of(k) /\ ui # Nil /\ page = "admin"
    BY CallIn DEF Is, Lasting, Home
<1>2. /\ ui \in AdminUi
      /\ ui.loading => Of("logs") # {}
      /\ ui.verifying => Of("verify") # {}
      /\ ui.access = "ok" => jwt \in Tokens /\ ui.token \in Tokens
      /\ DateInv
    BY <1>1, AdminNow
<1>3. calls \in CallTable
    BY DEF Inv, TypeOK, CallTable
<1>4. /\ calls' \in CallTable
      /\ \A t \in Slots \ {s} : calls'[t] = calls[t]
      /\ \A o : Of(o)' = Of(o) \ {s}
    BY <1>3, Ended
<1>5. \A o : o # k => Of(o)' = Of(o)
    BY <1>4 DEF Is, Of
<1>6. Of("logs")' \subseteq Slots
    BY <1>4 DEF Of
<1>7. ui' # Nil
    BY NilAssumption
<1>8. HomeInv'
    BY <1>4, <1>7, HomeKept DEF Local
<1>9. DateInv'
  <2>1. CASE k = "logs"
      BY <1>1, <1>2, <1>4, <1>6, <2>1 DEF DateInv
  <2>2. CASE k = "verify"
      BY <1>1, <1>2, <1>4, <1>6, <2>2 DEF DateInv
  <2> QED
      BY <2>1, <2>2
<1>10. AdminInv'
    BY <1>2, <1>5, <1>9, NilAssumption DEF AdminInv, Local
<1> QED
    BY <1>1, <1>4, <1>8, <1>10, LocalStored, OnAdminPage DEF Local

\* The page that waits for an answer.
LEMMA AdminWaits ==
    ASSUME Inv, NEW k \in {"logs", "verify"}, NEW s \in Slots, Is(s, k)
    PROVE  ui \in AdminUi /\ calls[s].arg.date \in Dates
<1>1. ui # Nil /\ page \in Home(k) /\ Arg(k, calls[s].arg)
    BY CallIn DEF Is, Lasting
<1>2. page = "admin"
    BY <1>1 DEF Home
<1>3. calls[s].arg \in [date : Dates, token : Tokens]
    BY <1>1 DEF Arg
<1> QED
    BY <1>1, <1>2, <1>3, AdminNow

LEMMA LoggedStep ==
    ASSUME Inv, NEW s \in Slots, Logged(s)
    PROVE  Inv'
<1> DEFINE e == ui'
<1>1. Is(s, "logs") /\ Done(s) /\ Local
    BY DEF Logged
<1>2. ui \in AdminUi /\ calls[s].arg.date \in Dates
    BY <1>1, AdminWaits
<1>3. PICK d \in Dates : d = calls[s].arg.date
    BY <1>2
<1>4. PICK k \in Tokens \cup {Nil} :
          k = jwt /\ e = [ui EXCEPT !.logs = d, !.loading = FALSE, !.token = k]
    BY <1>3 DEF Logged, Inv, TypeOK
<1> HIDE DEF e
<1>5. /\ e \in AdminUi
      /\ e.date = ui.date /\ e.logs = d /\ e.loading = FALSE
      /\ e.error = ui.error /\ e.access = ui.access /\ e.verdict = ui.verdict
      /\ e.verifying = ui.verifying /\ e.overlapped = ui.overlapped
      /\ e.token = k /\ e.hushed = ui.hushed
    BY <1>2, <1>4, Zenon DEF AdminUi
<1> USE DEF e
<1> QED
    BY <1>1, <1>3, <1>5, <1>4, AdminAnswered

LEMMA NotLoggedStep ==
    ASSUME Inv, NEW s \in Slots, NotLogged(s)
    PROVE  Inv'
<1> DEFINE e == ui'
<1>1. Is(s, "logs") /\ Done(s) /\ Local
    BY DEF NotLogged
<1>2. ui \in AdminUi
    BY <1>1, AdminWaits
<1>3. PICK k \in Tokens \cup {Nil} :
          k = jwt /\ e = [ui EXCEPT !.error = TRUE, !.loading = FALSE, !.token = k]
    BY DEF NotLogged, Inv, TypeOK
<1> HIDE DEF e
<1>4. /\ e \in AdminUi
      /\ e.date = ui.date /\ e.logs = ui.logs /\ e.loading = FALSE
      /\ e.error = TRUE /\ e.access = ui.access /\ e.verdict = ui.verdict
      /\ e.verifying = ui.verifying /\ e.overlapped = ui.overlapped
      /\ e.token = k /\ e.hushed = ui.hushed
    BY <1>2, <1>3, Zenon DEF AdminUi
<1> USE DEF e
<1> QED
    BY <1>1, <1>4, <1>3, AdminAnswered

LEMMA VerifiedStep ==
    ASSUME Inv, NEW s \in Slots, Verified(s)
    PROVE  Inv'
<1> DEFINE e == ui'
<1>1. Is(s, "verify") /\ Done(s) /\ Local
    BY DEF Verified
<1>2. ui \in AdminUi /\ calls[s].arg.date \in Dates
    BY <1>1, AdminWaits
<1>3. PICK d \in Dates : d = calls[s].arg.date
    BY <1>2
<1>4. PICK k \in Tokens \cup {Nil} :
          k = jwt /\ e = [ui EXCEPT !.verdict = d, !.verifying = FALSE, !.token = k]
    BY <1>3 DEF Verified, Inv, TypeOK
<1> HIDE DEF e
<1>5. /\ e \in AdminUi
      /\ e.date = ui.date /\ e.logs = ui.logs /\ e.loading = ui.loading
      /\ e.error = ui.error /\ e.access = ui.access /\ e.verdict = d
      /\ e.verifying = FALSE /\ e.overlapped = ui.overlapped
      /\ e.token = k /\ e.hushed = ui.hushed
    BY <1>2, <1>4, Zenon DEF AdminUi
<1> USE DEF e
<1> QED
    BY <1>1, <1>5, <1>4, AdminAnswered

LEMMA NotVerifiedStep ==
    ASSUME Inv, NEW s \in Slots, NotVerified(s)
    PROVE  Inv'
<1> DEFINE e == ui'
<1>1. Is(s, "verify") /\ Done(s) /\ Local
    BY DEF NotVerified
<1>2. ui \in AdminUi
    BY <1>1, AdminWaits
<1>3. PICK v \in Dates \cup {"none"} : v = "none"
    OBVIOUS
<1>4. PICK k \in Tokens \cup {Nil} :
          k = jwt /\ e = [ui EXCEPT !.verdict = v, !.error = TRUE, !.verifying = FALSE, !.token = k]
    BY <1>3 DEF NotVerified, Inv, TypeOK
<1> HIDE DEF e
<1>5. /\ e \in AdminUi
      /\ e.date = ui.date /\ e.logs = ui.logs /\ e.loading = ui.loading
      /\ e.error = TRUE /\ e.access = ui.access /\ e.verdict = v
      /\ e.verifying = FALSE /\ e.overlapped = ui.overlapped
      /\ e.token = k /\ e.hushed = ui.hushed
    BY <1>2, <1>4, Zenon DEF AdminUi
<1> USE DEF e
<1> QED
    BY <1>1, <1>5, <1>4, AdminAnswered

-----------------------------------------------------------------------------
(* The theorems.                                                           *)

LEMMA InvInit == Init => Inv
<1> SUFFICES ASSUME Init PROVE Inv
    OBVIOUS
<1>1. jwt = Nil /\ role = "junior_analyst" /\ sid = Nil /\ page = "login" /\ ui = Nil /\ calls = NoCalls
    BY DEF Init, SessionInit
<1>2. calls \in CallTable /\ \A s \in Slots : calls[s] = Nil
    BY <1>1 DEF NoCalls, CallTable
<1>3. TypeOK
    BY <1>1, <1>2 DEF TypeOK, CallTable, Roles, Pages
<1>4. HomeInv
    BY <1>2 DEF HomeInv, Of
<1> QED
    BY <1>1, <1>3, <1>4
       DEF Inv, ConsoleInv, SessionInv, FormInv, SetupInv, ChatInv, AdminInv, OnSetup, OnChat

LEMMA UserStep == Inv /\ User => Inv'
<1> SUFFICES ASSUME Inv, User PROVE Inv'
    OBVIOUS
<1>1. ASSUME NEW p \in Pages, Visit(p) PROVE Inv'
    BY <1>1, VisitStep
<1>2. ASSUME NEW a \in Accounts, SubmitLogin(a) PROVE Inv'
    BY <1>2, SubmitLoginStep
<1>3. ASSUME NEW a \in Analysts, NEW r \in Personas, SubmitRegister(a, r) PROVE Inv'
    BY <1>3, SubmitRegisterStep
<1>4. ASSUME NEW p \in Providers, ChooseProvider(p) PROVE Inv'
    BY <1>4, ChooseProviderStep
<1>5. ASSUME NEW u \in Urls, EditUrl(u) PROVE Inv'
    BY <1>5, EditUrlStep
<1>6. ASSUME NEW r \in Personas, SwitchRole(r) PROVE Inv'
    BY <1>6, SwitchRoleStep
<1>7. ASSUME NEW d \in Dates, PickDate(d) PROVE Inv'
    BY <1>7, PickDateStep
<1> QED
    BY <1>1, <1>2, <1>3, <1>4, <1>5, <1>6, <1>7, ToStep2Step, BackToStep1Step, ToStep3Step,
       RefreshStep, TypeKeyStep, ChooseModelStep, PingStep, LaunchStep, NewChatStep, SendStep,
       RefreshLogsStep, VerifyStep DEF User

LEMMA AnswerStep ==
    ASSUME Inv, NEW s \in Slots, Answer(s)
    PROVE  Inv'
BY SignedStep, NotSignedStep, ListedStep, UnlistedStep, PingedStep, BegunStep, ConfiguredStep,
   NotLaunchedStep, AnsweredStep, UnansweredStep, SwitchedStep, NotSwitchedStep, LoggedStep,
   NotLoggedStep, VerifiedStep, NotVerifiedStep DEF Answer

LEMMA InvNext == Inv /\ [Next]_vars => Inv'
<1> SUFFICES ASSUME Inv, [Next]_vars PROVE Inv'
    OBVIOUS
<1>1. CASE Open
    BY <1>1, OpenFormStep, OpenSetupStep, OpenChatStep, TurnAwayStep, OpenAdminStep DEF Open
<1>2. CASE User
    BY <1>2, UserStep
<1>3. CASE \E s \in Slots : Answer(s)
    BY <1>3, AnswerStep
<1>4. CASE UNCHANGED vars
  <2>1. Stored /\ page' = page /\ ui' = ui /\ calls' = calls
      BY <1>4, LocalStored DEF vars
  <2>2. calls' \in CallTable /\ \A k : Of(k)' = Of(k)
      BY <2>1 DEF Inv, TypeOK, CallTable, Of
  <2> QED
      BY <2>1, <2>2, Aside
<1> QED
    BY <1>1, <1>2, <1>3, <1>4 DEF Next

\* The inductive invariant.
THEOREM InvHolds == Spec => []Inv
BY InvInit, InvNext, PTL DEF Spec

\* Every variable, and the state of every page, is of its type: no answer of
\* a call is applied to the state of another page.
THEOREM TypeCorrect == Spec => []TypeOK
<1>1. Inv => TypeOK
    BY DEF Inv
<1> QED
    BY <1>1, InvHolds, PTL

\* No page stays busy: its spinner is on only while a call of its own is under
\* way (setLoading, setTesting, setConfiguring in the finally blocks of the
\* pages).
THEOREM SpinnersHaveCalls == Spec => []BusyHasCall
<1>1. Inv => BusyHasCall
    BY BusyOf
       DEF Inv, ConsoleInv, TypeOK, Pages, FormInv, SetupInv, ChatInv, AdminInv, OnSetup, OnChat,
           BusyHasCall
<1> QED
    BY <1>1, InvHolds, PTL

\* handleFinish (app/setup/page.tsx) sends a model of the provider and place
\* shown, and a key typed for the provider, but for the named slips.
THEOREM LaunchesFit == Spec => []LaunchFits
<1>1. Inv => LaunchFits
  <2> SUFFICES ASSUME Inv PROVE LaunchFits
      OBVIOUS
  <2>1. CASE OnStep(3)
    <3>1. SetupInv /\ OnSetup /\ ui.step = 3
        BY <2>1 DEF Inv, ConsoleInv, OnStep
    <3>2. ui.model = Source(ui.provider, ui.url) \/ "moved" \in ui.slips
        BY <3>1 DEF SetupInv, PlaceInv
    <3>3. \/ ~RequiresKey(ui.provider)
          \/ ui.key = ui.provider
          \/ "rekeyed" \in ui.slips
        BY <3>1 DEF SetupInv, KeyInv
    <3> QED
        BY <3>2, <3>3 DEF LaunchFits
  <2>2. CASE ~OnStep(3)
      BY <2>2 DEF LaunchFits
  <2> QED
      BY <2>1, <2>2
<1> QED
    BY <1>1, InvHolds, PTL

\* handleRoleChange (app/chat/page.tsx): with no switch under way the persona
\* shown is the token's, unless switches overlapped.
THEOREM PersonaIsTokens == Spec => []ShownRoleIsTokens
<1>1. Inv => ShownRoleIsTokens
    BY BusyOf DEF Inv, ConsoleInv, ChatInv, SwitchInv, ShownRoleIsTokens
<1> QED
    BY <1>1, InvHolds, PTL

\* handleSend (app/chat/page.tsx) is called from a render that is not behind
\* the thread: every turn was asked with the turns above it.
THEOREM TurnsInContext == Spec => []AskedWithThread
<1>1. Inv => AskedWithThread
  <2> SUFFICES ASSUME Inv, OnChat PROVE AskedWithThread
      BY DEF AskedWithThread
  <2>1. ui \in ChatUi /\ TurnsInv
      BY ChatNow
  <2>2. Len(ui.turns) \in Nat
      BY <2>1, LenProperties DEF ChatUi
  <2>3. Len(Thread) = Len(ui.turns)
      BY <2>2 DEF Thread
  <2>4. \A k \in 1..Len(ui.turns) : Thread[k] = ui.turns[k].message
      BY <2>2 DEF Thread
  <2>5. ASSUME NEW i \in 1..Len(ui.turns)
        PROVE  /\ i <= Len(ui.turns[i].messages)
               /\ \A k \in 1..i :
                     ui.turns[i].messages[Len(ui.turns[i].messages) - i + k] = Thread[k]
    <3>1. \A k \in 1..i : k \in 1..Len(ui.turns)
        BY <2>2
    <3>2. AskedWith(ui.turns[i].messages, ui.turns, i, 0)
        BY <2>1 DEF TurnsInv
    <3>3. ui.turns[i].messages \in Seq(Nat)
      <4>1. ui.turns \in Seq(Turns)
          BY <2>1 DEF ChatUi
      <4>2. ui.turns[i] \in Turns
          BY <4>1, ElementOfSeq
      <4> QED
          BY <4>2 DEF Turns
    <3>4. PICK m \in Nat : m = Len(ui.turns[i].messages)
        BY <3>3, LenProperties
    <3>5. i + 0 <= m /\ \A k \in 1..i : ui.turns[i].messages[m - 0 - i + k] = ui.turns[k].message
        BY <3>2, <3>4 DEF AskedWith
    <3>6. i <= m /\ m - 0 = m
        BY <3>5
    <3> QED
        BY <2>4, <3>1, <3>4, <3>5, <3>6
  <2> QED
      BY <2>3, <2>5 DEF AskedWithThread
<1> QED
    BY <1>1, InvHolds, PTL

\* The audit page (app/admin/page.tsx) at rest and without an error shows the
\* log of its date, unless fetches overlapped or a check hid an error.
THEOREM LogIsOfDate == Spec => []LogsOfDate
<1>1. Inv => LogsOfDate
    BY DEF Inv, ConsoleInv, AdminInv, DateInv, LogsOfDate, OnAdmin
<1> QED
    BY <1>1, InvHolds, PTL

=============================================================================
