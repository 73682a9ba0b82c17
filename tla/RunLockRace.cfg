SPECIFICATION Spec
CONSTANTS
    Procs = {a, b, c, d}
    Remote = {d}
    None = None
CHECK_DEADLOCK FALSE
INVARIANTS Exclusive
