CONSTANTS
    Procs = {p1, p2}
    NoLock = NoLock
    Unread = Unread
    TimeoutMs = 0
    StaleMs = 1
    Crashes = TRUE
    UnlinkFails = TRUE
    Stalls = FALSE
    Kinds = {"note", "declare", "claim", "proved"}
    MaxCalls = 3
SPECIFICATION Spec
SYMMETRY ProcSymmetry
INVARIANTS MutualExclusion ProofStillCurrent
PROPERTIES ImplementsAtomic
CHECK_DEADLOCK FALSE
