SPECIFICATION Spec
CONSTANTS
    Ranks = {r0, r1}
    Limits = {2, 3}
    CheckpointEvery = 2
    EvalEvery = 3
    EvalAtStart = TRUE
    EvalAtEnd = TRUE
    MaxLaunches = 3
    None = None
CHECK_DEADLOCK FALSE
INVARIANTS StoppedIsCheckpointed
