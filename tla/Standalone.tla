----------------------------- MODULE Standalone -----------------------------
(***************************************************************************)
(* The parts that are checked on their own: the waitlist of the public     *)
(* site, the tokenizer that runs in the browser, the dataset of the chat   *)
(* page, the open detector library, the gateway's redaction of a message,  *)
(* its rotation of secrets and its chat handler.  Their models share no    *)
(* state, so a behaviour is one of a single part, chosen at its start.     *)
(***************************************************************************)
EXTENDS Waitlist, BrowserTokenizer, CsvTable, DetectorRegistry, Redaction, KeyRotation,
        ChatGateway

VARIABLE part

webVars == <<waitlistVars, tokenizerVars, csvVars, detectorVars>>
gatewayVars == <<redactionVars, rotationVars, chatVars>>
vars == <<part, webVars, gatewayVars>>

Init ==
    /\ part \in {"waitlist", "tokenizer", "dataset", "detectors", "redaction", "rotation",
                "chat"}
    /\ WaitlistInit
    /\ TokenizerInit
    /\ CsvInit
    /\ IF part = "detectors" THEN DetectorInit ELSE DetectorIdle
    /\ IF part = "redaction" THEN RedactionInit ELSE RedactionIdle
    /\ RotationInit
    /\ part # "rotation" => env.encryption = 0
    /\ ChatInit

Next ==
    \/ /\ part = "waitlist"
       /\ WaitlistNext
       /\ UNCHANGED <<part, tokenizerVars, csvVars, detectorVars, gatewayVars>>
    \/ /\ part = "tokenizer"
       /\ TokenizerNext
       /\ UNCHANGED <<part, waitlistVars, csvVars, detectorVars, gatewayVars>>
    \/ /\ part = "dataset"
       /\ CsvNext
       /\ UNCHANGED <<part, waitlistVars, tokenizerVars, detectorVars, gatewayVars>>
    \/ /\ part = "detectors"
       /\ DetectorNext
       /\ UNCHANGED <<part, waitlistVars, tokenizerVars, csvVars, gatewayVars>>
    \/ /\ part = "redaction"
       /\ RedactionNext
       /\ UNCHANGED <<part, webVars, rotationVars, chatVars>>
    \/ /\ part = "rotation"
       /\ RotationNext
       /\ UNCHANGED <<part, webVars, redactionVars, chatVars>>
    \/ /\ part = "chat"
       /\ ChatNext
       /\ UNCHANGED <<part, webVars, redactionVars, rotationVars>>

Spec == Init /\ [][Next]_vars
=============================================================================
