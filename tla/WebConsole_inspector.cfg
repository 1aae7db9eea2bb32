\* Two messages of one conversation.
CONSTANTS
    Nil = Nil
    ann = ann
    root = root
    here = here
    there = there
    today = today
    before = before
    Analysts = {ann}
    Admins = {root}
    Personas = {"senior_analyst", "admin"}
    Urls = {here, there}
    Dates = {today, before}
    MaxCalls = 2
    MaxMessages = 2
SPECIFICATION Spec
INVARIANT InspectorShowsTurn
CHECK_DEADLOCK FALSE
