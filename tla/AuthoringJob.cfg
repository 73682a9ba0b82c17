\* Two processes, two sets of inputs, a budget of two attempts.
CONSTANTS
    Procs = {p1, p2}
    Inputs = {i1, i2}
    MaxAttempts = 2
    None = None
\* The proposer's run: two pipes of at most three bytes, one of which may be kept.
    Limit = 1
    MaxBytes = 3
SPECIFICATION LiveSpec
INVARIANTS JobInv OncePerAttempt ProposerIsTrue
PROPERTIES RefusedOnlyForCause ImplementsChain CallsEnd
