CONSTANTS
    EncoderSteps = 1
    SelectorSteps = 1
    ConditionalSteps = 6
    NoZSteps = 1
    CheckpointEvery = 2
    Launches = {a}
    None = None
    Torn = Torn
SPECIFICATION Spec
INVARIANT StableRunsOutrankSpikes
CHECK_DEADLOCK FALSE
