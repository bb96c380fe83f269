CONSTANTS
    First = r1
    Runners = {r1}
    Recoverers = {q1, q2}
    Nobody = Nobody
    FirstHost = "background"
    ResumeHosts = {}
    Contracts = {"commands", "declared"}
    Ends = {"completed", "backend_error", "backend_stream_ended"}
    Actors = {"scorecard", "crash", "decide", "reverify"}
SPECIFICATION Spec
INVARIANTS OneDelivery OutcomeIsEarned AcceptedStands ChainWellFormed
PROPERTIES RecoveredWorkersGone DecisionStaysValid
SYMMETRY RecovererSymmetry
CHECK_DEADLOCK FALSE
