CONSTANTS
    Ranks = {r0, r1}
    Zero = r0
    MaxGeneration = 2
    MaxAttempts = 3
    None = None
SPECIFICATION Spec
INVARIANTS SaveInv FailsOnlyForCause
PROPERTY ImplementsRegistry
CHECK_DEADLOCK FALSE
