CONSTANTS
    r1 = r1
    r2 = r2
    w1 = w1
    w2 = w2
    w3 = w3
    m1 = m1
    k1 = k1
    k2 = k2
    shared = shared
    long1 = long1
    Writers = {w1, w2, w3, m1}
    Foreground = {w2}
    Migrators = {m1}
    Dying = {m1}
    Faults = {"slow", "io", "eperm"}
    Runs = {r1, r2}
    OldRuns = {r1}
    RunOf <- MCRunOf
    Keys = {k1, k2}
    KeyOf <- MCKeyOf
    Buckets = {shared, long1}
    Chain <- MCChain
    Caches <- MCCaches
    Flat = Flat
    NoFile = NoFile
    NoRecord = NoRecord
    Half = Half
    NoBucket = NoBucket
SPECIFICATION Spec
INVARIANTS OneOwner OneBucket RightBucket NoSecondFounding NothingLost
CHECK_DEADLOCK FALSE
