SPECIFICATION Spec
CONSTANTS
    d1 = d1
    d2 = d2
    p1 = p1
    p2 = p2
    Drivers = {d1, d2}
    Paths = {p1}
    PathOf <- OnePath
    Loops = {TRUE, FALSE}
    NoDriver = NoDriver
    NoRecord = NoRecord
    MaxAttempts = 2
    MaxRequests = 2
    MaxCrashes = 1
    MaxFailures = 2
    MaxMoves = 1
INVARIANTS TypeOK OneRequest NoBlindSubmit FilesAreTrue SnapshotReloads
PROPERTIES SnapshotForward
CHECK_DEADLOCK FALSE
