SPECIFICATION Spec
CONSTANTS
    NumIngests = 2
    NumStreams = 1
    Reporters <- Movers
    MaxReports = 2
    MaxAdders = 2
    StartLength = 1
    MaxAbsent = 1
    MaxFailing = 0
INVARIANTS AbsentStreamIsLegal
CHECK_DEADLOCK FALSE
