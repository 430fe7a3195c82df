SPECIFICATION Spec
CONSTANTS
    a1 = a1
    a2 = a2
    b1 = b1
    bad = bad
    va = va
    vb = vb
    c1 = c1
    NoVote = NoVote
    NoPackage = NoPackage
    Packages <- MCPackages
    ValidPackages <- MCValidPackages
    Voters <- MCVoters
    NullifierOf <- MCNullifierOf
    Candidates <- MCCandidates
    SelectionsOf <- MCSelectionsOf
    MaxImports = 1
    MaxRequests = 1
    MaxStarts = 1
    MaxCrashes = 0
PROPERTIES
    CommittedBallotStays
CHECK_DEADLOCK FALSE
