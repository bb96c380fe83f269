CONSTANTS
    Dispatches = {d1, d2}
    Declaring = {d1}
    Resuming = {d2}
    Leased = {d2}
    Serves = {s1, s2, s3}
    First = s1
    Recycler = recycle
    Nobody = Nobody
    NoLock = NoLock
    NoLook = NoLook
    IdlePolls = 1
    Crashing = {s2}
    Dying = {d1, recycle}
    Faults = {"slow", "nospawn"}
SPECIFICATION FairSpec
PROPERTIES CutTurnsAreLate SurplusLeaves IdleServeExits
CHECK_DEADLOCK FALSE
