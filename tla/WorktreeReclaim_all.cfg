CONSTANTS
    outer = outer
    inner = inner
    next = next
    Runs = {outer, inner, next}
    Place <- MCPlace
    Roots = {outer}
    Inside <- MCInside
    Acts = {"hand", "git", "crash"}
    MaxCommits = 2
    MaxContent = 1
    MaxPlans = 1
SPECIFICATION Spec
INVARIANT NoCommitLost
PROPERTIES NoCollateral LiveKeepsTree
CHECK_DEADLOCK FALSE
