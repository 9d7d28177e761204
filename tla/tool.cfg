SPECIFICATION Spec
CONSTANTS
    NumIngests = 2
    NumStreams = 1
    Reporters <- Movers
    MaxReports = 1
    MaxAdders = 1
    StartLength = 1
    MaxAbsent = 1
    MaxFailing = 0
INVARIANTS ThingsStillThere
PROPERTIES ToolEnds
CHECK_DEADLOCK FALSE
