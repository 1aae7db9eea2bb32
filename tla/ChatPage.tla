------------------------------ MODULE ChatPage ------------------------------
(***************************************************************************)
(* The chat page (app/chat/page.tsx) with its input                        *)
(* (components/ChatInterface.tsx) and the inspector beside it              *)
(* (components/TokenizationPanel.tsx).  A message is its number.  A turn   *)
(* keeps what the gateway returned with it: the messages of the user that  *)
(* were in the request, the whole conversation's.  before (the last        *)
(* message sent before New Chat) and overlapped are not in the code.       *)
(***************************************************************************)
EXTENDS SetupPage

CONSTANTS
    MaxMessages     \* messages sent on one visit of the page

Turns == [message : Nat, messages : Seq(Nat)]

ChatUi ==
    [owner : Subs, jwt : Tokens, role : Roles, turns : Seq(Turns), loading : BOOLEAN,
     sent : Nat, before : Nat, overlapped : BOOLEAN]

ChatCalls ==
    [kind : {"send"}, on : {TRUE}, arg : [mine : BOOLEAN, messages : Seq(Nat) \ {<<>>}]]
        \cup [kind : {"switch"}, on : BOOLEAN, arg : [role : Roles, prev : Roles]]

OnChat == page = "chat" /\ ui # Nil

\* The mount effect: without a session or a token, back to the set-up.
OpenChat ==
    /\ page = "chat" /\ ui = Nil
    /\ sid # Nil /\ jwt # Nil
    /\ ui' = [owner |-> sid, jwt |-> jwt, role |-> role, turns |-> <<>>,
              loading |-> FALSE, sent |-> 0, before |-> 0, overlapped |-> FALSE]
    /\ UNCHANGED calls /\ Local

TurnAway ==
    /\ page = "chat" /\ ui = Nil
    /\ sid = Nil \/ jwt = Nil
    /\ Goto("setup", calls)
    /\ UNCHANGED <<jwt, role, sid>>

\* handleNewChat: the conversation goes, a send under way does not.
NewChat ==
    /\ OnChat
    /\ ui' = [ui EXCEPT !.turns = <<>>, !.before = ui.sent]
    /\ UNCHANGED calls /\ Local

\* Mutant of Input: the button stays on.
InputAlways == OnChat

\* The input: its button is off while a message is on its way.
Input == OnChat /\ ~ui.loading

\* The messages of the user in the turns of the render.
History == [i \in 1..Len(ui.turns) |-> ui.turns[i].message]

\* sendChat: the gateway takes it if the session is the token's own.
Request(messages) == [mine |-> ui.owner = ui.jwt.sub, messages |-> messages]

\* handleSend: the request holds the turns of the render it is called from.
Send ==
    /\ Input
    /\ ui.sent < MaxMessages
    /\ ui' = [ui EXCEPT !.loading = TRUE, !.sent = @ + 1]
    /\ Issue("send", Request(History \o <<ui.sent + 1>>))
    /\ Local

\* The persona bar has a button for every role, the active one's included.
Persona(r) == OnChat /\ r \in Personas

\* handleRoleChange: the new role is shown at once.
SwitchRole(r) ==
    /\ Persona(r)
    /\ ui' = [ui EXCEPT !.role = r, !.overlapped = @ \/ Busy("switch")]
    /\ Issue("switch", [role |-> r, prev |-> ui.role])
    /\ Local
-----------------------------------------------------------------------------
\* The gateway answers the owner of the session.
Answered(s) ==
    /\ Is(s, "send")
    /\ LET asked == calls[s].arg
           turn == [message |-> asked.messages[Len(asked.messages)],
                    messages |-> asked.messages]
       IN  /\ asked.mine
           /\ ui' = [ui EXCEPT !.turns = Append(@, turn), !.loading = FALSE]
    /\ Done(s) /\ Local

Unanswered(s) ==
    /\ Is(s, "send")
    /\ ui' = [ui EXCEPT !.loading = FALSE]
    /\ Done(s) /\ Local

\* updateRole has its token; the page reads it back from localStorage.
Switched(s) ==
    /\ Is(s, "switch")
    /\ Mintable(calls[s].arg.role)
    /\ Store(Minted(calls[s].arg.role))
    /\ ui' = IF calls[s].on THEN [ui EXCEPT !.jwt = jwt'] ELSE ui
    /\ Done(s)
    /\ UNCHANGED <<sid, page>>

\* Mutant of NotSwitched: the role stays as it was chosen.
NotSwitchedKeepRole(s) ==
    /\ Is(s, "switch")
    /\ Done(s) /\ UNCHANGED ui /\ Local

\* The role of before the click is shown again.
NotSwitched(s) ==
    /\ Is(s, "switch")
    /\ ui' = IF calls[s].on THEN [ui EXCEPT !.role = calls[s].arg.prev] ELSE ui
    /\ Done(s) /\ Local

-----------------------------------------------------------------------------
\* The thread: the turns in the order of their answers.
Thread == [i \in 1..Len(ui.turns) |-> ui.turns[i].message]

\* What the inspector shows as received by the model: the first message of
\* the user in the request.
LlmReceived(turn) == turn.messages[1]

\* The persona the page shows is the one its token was issued for, so that
\* the gateway restores what the page says the persona may see, unless one
\* switch was started before another had ended.
ShownRoleIsTokens ==
    (OnChat /\ ~Busy("switch") /\ ~ui.overlapped) => ui.role = ui.jwt.role

\* The model answered every turn with the turns shown above it as its last
\* messages, in their order: handleSend takes them from the render it is
\* called from, and that render is never behind the thread, although answers
\* and New Chat change the thread while a request is under way.
AskedWithThread ==
    OnChat => \A i \in 1..Len(Thread) :
        LET asked == ui.turns[i].messages
        IN  /\ i <= Len(asked)
            /\ \A k \in 1..i : asked[Len(asked) - i + k] = Thread[k]

\* "conversation cleared" (app/chat/page.tsx:80): after New Chat no turn of
\* the conversation before is shown or sent again.  The code breaks this when
\* a message is on its way.
ClearedStaysCleared ==
    OnChat => \A i \in 1..Len(Thread) : Thread[i] > ui.before

\* "Click any message to inspect how PII was tokenized"
\* (components/TokenizationPanel.tsx:131): what is shown of a turn is the
\* turn's own message.  The code breaks this from the second message on.
InspectorShowsTurn ==
    OnChat => \A i \in 1..Len(Thread) : LlmReceived(ui.turns[i]) = Thread[i]
=============================================================================
