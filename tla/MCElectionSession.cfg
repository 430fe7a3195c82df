SPECIFICATION Spec
CONSTANTS
    a1 = a1
    a2 = a2
    b0 = b0
    bad = bad
    va = va
    vb = vb
    alice = alice
    bob = bob
    NoVote = NoVote
    Packages <- MCPackages
    ValidPackages <- MCValidPackages
    Voters <- MCVoters
    NullifierOf <- MCNullifierOf
    Candidates <- MCCandidates
    SelectionsOf <- MCSelectionsOf
    MaxPackages = 4
INVARIANTS
    TypeOK
    OneVotePerNullifier
    FirstValidCounts
    ReplayReconstructs
    DigestIndexConsistent
    TallyCountsVoters
PROPERTIES
    SealedAndAppendOnly
    ImplementsRegister
CHECK_DEADLOCK FALSE
