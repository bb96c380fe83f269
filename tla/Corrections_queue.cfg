CONSTANTS
    Leads = {l1, l2}
    Ids = {c1, c2}
    NoId = NoId
    Prompts = {a, b}
    Actors = {"stop", "interrupt", "crash", "resume", "trouble"}
SPECIFICATION FairSpec
INVARIANTS SentOnce NobodyMisled ClosedIsSettled
PROPERTIES PendingIsHandled
CHECK_DEADLOCK FALSE
