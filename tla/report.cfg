SPECIFICATION Spec
CONSTANTS
    NumIngests = 1
    NumStreams = 1
    Reporters <- MCReporters
    MaxReports = 2
    MaxAdders = 2
    StartLength = 1
    MaxAbsent = 1
    MaxFailing = 1
INVARIANTS ThingsStillThere EntriesStillThere FlagsSinceClear
CHECK_DEADLOCK FALSE
