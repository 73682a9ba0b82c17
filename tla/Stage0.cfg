CONSTANTS
    EncoderSteps = 1
    SelectorSteps = 1
    ConditionalSteps = 3
    NoZSteps = 1
    CheckpointEvery = 2
    Launches = {a, b}
    None = None
    Torn = Torn
    Authors = {a1, a2}
    Selectors = {s1, s2}
    Outputs = {p1, p2}
    Choices = {c1, c2}
SPECIFICATION MCSpec
INVARIANTS
    ResumesWell
    FilesAreTrue
PROPERTIES
    ImplementsOneTimeTest
    SerialDecided
    OpenedOnce
CHECK_DEADLOCK FALSE
