SPECIFICATION SourceSpec
CONSTANTS
    Parts = {"queues", "packets"}
    NumIngests = 2
    Programs <- AllPrograms
    EBPs = {{1}, {1, 2}}
    MaxEBPs = 2
    Garbage = Garbage
    Partitions = {1, 2}
    NULL = NULL
    Explicit = Explicit
    Streams = {481, 482}
    Video = 481
    Boundaries <- FollowingBoundaries
    EventIds = {1, 2}
    Packets <- SmallPackets
    MaxPackets = 5
    Delta = 1
    Preroll = 3
    TimeToLive = 2
    Lag = 4
INVARIANTS StreamsAreMatched BoundariesAreOfTheStream SplicesAreJudged TriggersAnswered FailuresAreReported
CHECK_DEADLOCK FALSE
