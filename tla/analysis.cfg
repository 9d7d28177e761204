SPECIFICATION FairSpec
CONSTANTS
    NumFiles = 3
    NumStreams = 1
    Partitions = {1, 2}
    EBPs <- OneStreamEBPs
    Arrivals <- OneStreamEach
    Jitter = 0
    NULL = NULL
INVARIANTS VerdictIsOfTheInputs QueuesAreDrained
PROPERTIES AnalysisEnds
