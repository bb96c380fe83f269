CONSTANTS
    Verifiers = {v1, v2}
    NoLease = NoLease
    Faults = {"crash", "stall", "hang", "io", "break"}
    MaxFailures = 2
SPECIFICATION FairSpec
PROPERTIES TakesTurns WaitEnds TwoHoldersHeal
CHECK_DEADLOCK FALSE
