SPECIFICATION SendingSpec
CONSTANTS
    BufSz = 3
    Width = 3
    MaxRequest = 2
    MayWakeSpuriously = FALSE
    MaxBytes = 7
    MaxDatagram = 2
INVARIANTS SpaceStillThere IngestReadsItAll
PROPERTIES ExitCompletes PrereadEnds
CHECK_DEADLOCK FALSE
