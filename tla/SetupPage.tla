----------------------------- MODULE SetupPage ------------------------------
(***************************************************************************)
(* The set-up page (app/setup/page.tsx): three steps, a provider with its  *)
(* key or URL and model, a list of models that is fetched when the user    *)
(* gets to Ollama's second step, a ping of the gateway, and the launch.    *)
(*                                                                         *)
(* A model's name is abstracted to where it comes from: the cloud provider *)
(* whose default or whose field it is, or the Ollama URL that has it.  A   *)
(* key is abstracted to the provider it was typed for.  slips, which is    *)
(* not in the code, records what the user did that the page's closures do  *)
(* not expect.                                                             *)
(***************************************************************************)
EXTENDS WebSession

CONSTANTS Urls      \* Ollama URLs the user may type

ASSUME UrlsAssumption == Urls # {} /\ "none" \notin Urls

Cloud == {"anthropic", "openai"}

Providers == Cloud \cup {"ollama"}

DefaultUrl == CHOOSE u \in Urls : TRUE

\* Where the models of a provider are; PROVIDERS gives only the cloud ones a
\* default.
Source(provider, url) == IF provider = "ollama" THEN url ELSE provider

Default(provider) == IF provider = "ollama" THEN "none" ELSE provider

RequiresKey(provider) == provider \in Cloud

SetupUi ==
    [step : 1..3, provider : Providers, key : Cloud \cup {"none"},
     model : Cloud \cup Urls \cup {"none"}, url : Urls, list : Urls \cup {"none"},
     listing : BOOLEAN, offline : BOOLEAN, testing : BOOLEAN, configuring : BOOLEAN,
     slips : SUBSET {"moved", "rekeyed"}]

SetupCalls ==
    [kind : {"models"}, on : {TRUE}, arg : [url : Urls, unset : BOOLEAN]]
        \cup [kind : {"ping"}, on : {TRUE}, arg : {Nil}]
        \cup [kind : {"begin"}, on : BOOLEAN, arg : {Nil}]
        \cup [kind : {"configure"}, on : BOOLEAN, arg : Subs]

OnSetup == page = "setup" /\ ui # Nil

OnStep(n) == OnSetup /\ ui.step = n

Local == UNCHANGED <<jwt, role, sid, page>>

OpenSetup ==
    /\ page = "setup" /\ ui = Nil
    /\ ui' = [step |-> 1, provider |-> "ollama", key |-> "none",
              model |-> "none", url |-> DefaultUrl, list |-> "none",
              listing |-> FALSE, offline |-> FALSE,
              testing |-> FALSE, configuring |-> FALSE, slips |-> {}]
    /\ UNCHANGED calls /\ Local

\* The cards of the first step; a click on the card that is chosen changes
\* nothing.
Card(p) == OnStep(1) /\ p \in Providers \ {ui.provider}

\* Mutant of ChooseProvider: without the effect, the old model stays.
ChooseProviderKeepModel(p) ==
    /\ Card(p)
    /\ ui' = [ui EXCEPT !.provider = p,
                  !.slips = @ \cup (IF Busy("models") THEN {"moved"} ELSE {})
                              \cup (IF ui.key # "none" THEN {"rekeyed"} ELSE {})]
    /\ UNCHANGED calls /\ Local

\* A click on a provider's card, and the effect that follows it.
ChooseProvider(p) ==
    /\ Card(p)
    /\ ui' = [ui EXCEPT !.provider = p, !.model = Default(p),
                  !.slips = @ \cup (IF Busy("models") THEN {"moved"} ELSE {})
                              \cup (IF ui.key # "none" THEN {"rekeyed"} ELSE {})]
    /\ UNCHANGED calls /\ Local

\* fetchOllamaModels: it will know the model of the render that called it.
Fetch(state) ==
    /\ ui' = [state EXCEPT !.listing = TRUE, !.offline = FALSE]
    /\ Issue("models", [url |-> ui.url, unset |-> ui.model = "none"])

\* To the second step, from the first or the third: Ollama's models are
\* fetched again.
ToStep2 ==
    /\ OnSetup /\ ui.step # 2
    /\ IF ui.provider = "ollama" THEN Fetch([ui EXCEPT !.step = 2])
       ELSE ui' = [ui EXCEPT !.step = 2] /\ UNCHANGED calls
    /\ Local

Refresh ==
    /\ OnStep(2) /\ ui.provider = "ollama"
    /\ Fetch(ui) /\ Local

\* Back, or the first of the step indicators.
BackToStep1 ==
    /\ OnSetup /\ ui.step > 1
    /\ ui' = [ui EXCEPT !.step = 1]
    /\ UNCHANGED calls /\ Local

\* The field is filled, or emptied.
TypeKey ==
    /\ OnStep(2) /\ RequiresKey(ui.provider)
    /\ \E key \in {ui.provider, "none"} : ui' = [ui EXCEPT !.key = key]
    /\ UNCHANGED calls /\ Local

EditUrl(u) ==
    /\ OnStep(2) /\ ui.provider = "ollama" /\ u # ui.url
    /\ ui' = [ui EXCEPT !.url = u,
                  !.slips = @ \cup (IF \/ Busy("models") \/ ui.model # "none"
                                       \/ ui.list # "none" /\ ~ui.offline
                                    THEN {"moved"} ELSE {})]
    /\ UNCHANGED calls /\ Local

\* A name is typed or deleted, or picked from the list on the page.
ChooseModel ==
    /\ OnStep(2)
    /\ \/ /\ ui.provider = "ollama" => ui.offline /\ ~ui.listing
          /\ \E model \in {Source(ui.provider, ui.url), "none"} :
                ui' = [ui EXCEPT !.model = model]
       \/ /\ ui.provider = "ollama" /\ ~ui.listing /\ ~ui.offline
          /\ ui.list # "none"
          /\ ui' = [ui EXCEPT !.model = ui.list]
    /\ UNCHANGED calls /\ Local

ToStep3 ==
    /\ OnStep(2)
    /\ ui.model # "none"
    /\ RequiresKey(ui.provider) => ui.key # "none"
    /\ ui' = [ui EXCEPT !.step = 3]
    /\ UNCHANGED calls /\ Local

\* handleTest, up to its answer.
Ping ==
    /\ OnStep(3) /\ ~ui.testing
    /\ ui' = [ui EXCEPT !.testing = TRUE]
    /\ Issue("ping", Nil)
    /\ Local

\* handleFinish up to its first await: a session needs a token first.  The
\* configuration it will send is the one the page shows when it is clicked.
Launch ==
    /\ OnStep(3) /\ ~ui.configuring
    /\ ui.model # "none"
    /\ ui' = [ui EXCEPT !.configuring = TRUE]
    /\ IF jwt = Nil THEN Issue("begin", Nil) ELSE Issue("configure", jwt.sub)
    /\ Local
-----------------------------------------------------------------------------
\* The answers.

Is(s, kind) == calls[s] # Nil /\ calls[s].kind = kind

\* listOllamaModels resolves with the models of the URL it was asked about,
\* or with none.
Listed(s) ==
    /\ Is(s, "models")
    /\ LET asked == calls[s].arg IN
       \/ ui' = [ui EXCEPT !.list = asked.url, !.listing = FALSE,
                     !.model = IF asked.unset THEN asked.url ELSE @]
       \/ ui' = [ui EXCEPT !.list = "none", !.listing = FALSE]
    /\ Done(s) /\ Local

\* Mutant of Unlisted: the spinner is left on.
UnlistedStuck(s) ==
    /\ Is(s, "models")
    /\ ui' = [ui EXCEPT !.offline = TRUE]
    /\ Done(s) /\ Local

Unlisted(s) ==
    /\ Is(s, "models")
    /\ ui' = [ui EXCEPT !.offline = TRUE, !.listing = FALSE]
    /\ Done(s) /\ Local

\* healthCheck never throws; its result is shown on the third step.
Pinged(s) ==
    /\ Is(s, "ping")
    /\ ui' = [ui EXCEPT !.testing = FALSE]
    /\ Done(s) /\ Local

\* initSession has its token: it is stored, and the launch goes on with what
\* localStorage holds then.
Begun(s) ==
    /\ Is(s, "begin")
    /\ Store(Minted("junior_analyst"))
    /\ calls' = [calls EXCEPT ![s] =
           [@ EXCEPT !.kind = "configure", !.arg = "ui-user"]]
    /\ UNCHANGED <<sid, page, ui>>

\* The gateway binds the session to the token's subject; the page goes on to
\* the chat.
Configured(s) ==
    /\ Is(s, "configure")
    /\ sid' = calls[s].arg
    /\ Goto("chat", [calls EXCEPT ![s] = Nil])
    /\ UNCHANGED <<jwt, role>>

NotLaunched(s) ==
    /\ Is(s, "begin") \/ Is(s, "configure")
    /\ ui' = IF calls[s].on THEN [ui EXCEPT !.configuring = FALSE] ELSE ui
    /\ Done(s) /\ Local
-----------------------------------------------------------------------------
\* What the launch button of the third step would send is a model of the
\* provider and place shown, and for a cloud provider a key that was typed for
\* it, unless the user changed the provider or the URL while a list of models
\* was on its way, the URL while a model was set or a list shown, or the
\* provider while a key was set.
LaunchFits ==
    OnStep(3) =>
        /\ \/ ui.model = Source(ui.provider, ui.url)
           \/ "moved" \in ui.slips
        /\ \/ ~RequiresKey(ui.provider)
           \/ ui.key = ui.provider
           \/ "rekeyed" \in ui.slips
=============================================================================
