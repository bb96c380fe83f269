CONSTANTS
    Procs = {p1, p2}
    NoLock = NoLock
    TimeoutMs = 0
    StaleMs = 1
    Crashes = TRUE
    UnlinkFails = TRUE
    Stalls = TRUE
SPECIFICATION PersistentLockSpec
PROPERTIES AcquireReturns OrphanRecovered
