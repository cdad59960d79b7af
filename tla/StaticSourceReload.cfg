SPECIFICATION Spec
CONSTANTS
    Runs = {run1, run2}
    None = None
    MaxConf = 2
INVARIANTS ChangesApplied
CHECK_DEADLOCK FALSE
