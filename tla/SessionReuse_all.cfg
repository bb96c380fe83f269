CONSTANTS
    Runs = {r1, r2, r3}
    Root = r1
    NoRun = NoRun
    Base = Base
    Modes = {"lead_workspace", "run_lineage"}
    Faults = {"crash", "stop", "close"}
SPECIFICATION Spec
INVARIANTS OneDriver NeverForks TreeIsOwn
PROPERTIES FailedIsAbandoned CloseTakesOnlyFinished
SYMMETRY RunSymmetry
CHECK_DEADLOCK FALSE
