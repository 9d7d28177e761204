SPECIFICATION Spec
CONSTANTS
    NumFiles = 2
    NumStreams = 1
    Partitions = {1, 2}
    EBPs <- SplicedEBPs
    Arrivals <- Spliced
    Jitter = 0
    NULL = NULL
INVARIANTS VerdictIsOfTheInputs
