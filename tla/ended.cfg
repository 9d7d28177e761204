SPECIFICATION IngestSpec
CONSTANTS
    BufSz = 3
    Width = 3
    MaxRequest = 2
    MayWakeSpuriously = FALSE
    MaxBytes = 7
    MaxDatagram = 2
INVARIANTS NullMeansAllProcessed
CHECK_DEADLOCK FALSE
