CONSTANTS
    Runs = {r1, r2, r3}
    Root = r1
    NoRun = NoRun
    Base = Base
    Modes = {"run_lineage"}
    Faults = {}
SPECIFICATION Spec
INVARIANTS DeliveryKeepsBranch
SYMMETRY RunSymmetry
CHECK_DEADLOCK FALSE
