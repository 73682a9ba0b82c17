\* Archive: two launches of four generations, up to four successes in all.
CONSTANTS
    MaxGenerations = 4
    ReplayPerRank = 1
    Successes = {0, 2}
    MaxRetained = 4
    MaxLaunches = 2
\* Run lock
    Procs = {a, b, c, d}
    Remote = {d}
\* Update
    Ranks = {r1, r2}
    MaxItems = 5
    Requested = 2
    BatchSize = 1
    Accumulation = 2
\* Gate
    Suite = {e1, e2}
    Foreign = {x1, x2}
    Distances = {0, 2}
    TolerableDrop = 1
    DistanceTolerance = 1
    MaxAccepted = 3
\* Curriculum
    MaxUnit = 3
    MasteredFloor = 1
    HardFloor = 1
    TotalSlots = 5
\* Control
    Period = 5
    Frames = {2}
    Horizon = 5
    ReplanHorizon = 2
    MaxOverlap = 3
    FrozenSteps = 2
    MaxSteps = 6
    Latencies = {2, 4, 5}
    MaxTicks = 30
\* Store
    StoreProcs = {p1, p2}
    Roots = {r1}
    Manifests = {m1}
    Authorities = {a1, a2}
    AuthorityKeys = {ka}
    BoundaryKeys = {kb}
    MaxSignatures = 4
\* Memory
    Successful = {1, 2, 3, 4}
    Latents = {0, 2, 4}
    Capacity = 3
    Novelty = 2
    MaxDraw = 2
\* Modes
    Found = {1, 2, 3, 4}
    ModeLatents = {0, 1, 3}
    Radius = 2
    MaxRecords = 3
    MergeSize = 2
    None = None
SPECIFICATION MCSpec
INVARIANTS ArchiveInv PlansContinue Exclusive  LossIsBounded CurriculumIsSound RootIsSound OccupancyRestores
PROPERTIES RefusedOnlyForCause ControlIsSound LoopsEnd RecoveryCompletes MemoryIsSound
CHECK_DEADLOCK FALSE
