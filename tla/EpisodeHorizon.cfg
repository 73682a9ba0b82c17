SPECIFICATION Spec
CONSTANTS
    Worlds = {w0, w1}
    Hold = 2
    ChunkSteps = 2
    EpisodeSteps = 4
    EliteDivisor = 2
    SegmentSteps = 1
    MaxOddities = 1
    None = None
INVARIANT HorizonOutcomeCounts
CHECK_DEADLOCK FALSE
