CONSTANTS
    First = r1
    Runners = {r1, r2}
    Recoverers = {}
    Nobody = Nobody
    FirstHost = "background"
    ResumeHosts = {"daemon"}
    Contracts = {"commands"}
    Ends = {"completed", "backend_error", "workdir_escape", "empty_diff"}
    Actors = {"abort", "crash", "resume", "stop", "decide", "reverify"}
SPECIFICATION FairSpec
INVARIANTS AtMostOneDriver
PROPERTIES EndedIsClaimed CompletedIsVerified ReverifyStopsAtDecision
CHECK_DEADLOCK FALSE
