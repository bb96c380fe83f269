CONSTANTS
    First = r1
    Runners = {r1, r2}
    Recoverers = {}
    Nobody = Nobody
    FirstHost = "background"
    ResumeHosts = {"resume", "background"}
    Contracts = {"declared"}
    Ends = {"completed", "budget_exceeded", "disallowed_path", "backend_stream_ended"}
    Actors = {"crash", "resume", "refuse", "settle", "stall"}
SPECIFICATION Spec
INVARIANTS AtMostOneTerminal
PROPERTIES SettledRunIsDead
CHECK_DEADLOCK FALSE
