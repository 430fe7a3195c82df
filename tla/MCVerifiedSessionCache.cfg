SPECIFICATION FairSpec
CONSTANTS
    Workspaces = {w1}
    Bodies = {b1, b2}
    Resumers = {r1, r2}
    Writers = {c1, c2}
    NoKey = NoKey
    NoSession = NoSession
    NoThread = NoThread
    Capacity = 1
    Permits = 1
    MaxWrites = 2
    FirstBody = b1
    MaxPanics = 1
INVARIANTS TypeOK EntriesAreReplayed FlightsAccounted
PROPERTIES ResumeReturnsHead FlightLands
CHECK_DEADLOCK FALSE
