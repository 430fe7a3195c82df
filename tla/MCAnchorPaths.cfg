SPECIFICATION Spec
CONSTANTS
    d1 = d1
    d2 = d2
    p1 = p1
    p2 = p2
    Drivers = {d1, d2}
    Paths = {p1, p2}
    PathOf <- TwoPaths
    Loops = {FALSE}
    NoDriver = NoDriver
    NoRecord = NoRecord
    MaxAttempts = 1
    MaxRequests = 2
    MaxCrashes = 0
    MaxFailures = 1
    MaxMoves = 1
PROPERTIES AcceptedStops
CHECK_DEADLOCK FALSE
