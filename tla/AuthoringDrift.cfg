CONSTANTS
    Procs = {p1, p2}
    Inputs = {i1, i2}
    MaxAttempts = 3
    None = None
SPECIFICATION Spec
PROPERTY DriftMeansChangedInput
