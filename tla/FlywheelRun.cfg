\* The loop: three launches of two or three generations.
SPECIFICATION MCSpec
CONSTANTS
    Ranks = {r0, r1}
    Limits = {2, 3}
    CheckpointEvery = 2
    EvalEvery = 3
    EvalAtStart = TRUE
    EvalAtEnd = TRUE
    MaxLaunches = 3
\* The collection: three decisions in two worlds, one rare physical event.
    Worlds = {w0, w1}
    Hold = 2
    ChunkSteps = 2
    EpisodeSteps = 6
    EliteDivisor = 2
    SegmentSteps = 1
    MaxOddities = 1
\* The transfer and the lift of a bottle, by frames; every count at least two
\* that a single frame or step could satisfy by accident.
    FramesPerStep = 2
    GraspFrames = 2
    ReleaseFrames = 2
    SettleFrames = 2
    TransferSteps = 6
    DropSteps = 2
    HoldSteps = 2
    ApproachSteps = 1
    MinCloseStep = 1
    MaxClose = 4
    StableSteps = 2
    ConfirmSteps = 1
    MaxLift = 2
    MaxHold = 1
    LiftSteps = 11
    None = None
SYMMETRY Symmetry
CHECK_DEADLOCK FALSE
INVARIANTS TrainingLine ArchiveMatchesModel LastGoodIsAncestor BoundedLoss StopWithinOneGeneration
           AbortsOnlyForCause RecordIsTrue TransferIsSound GraspIsSound
PROPERTY RowsAreFinal
