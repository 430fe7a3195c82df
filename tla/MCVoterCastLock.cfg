SPECIFICATION Spec
CONSTANTS
    k1 = k1
    k2 = k2
    b1 = b1
    b2 = b2
    c1 = c1
    Instances = {i}
    Credentials <- MCCredentials
    Shared = {k1}
    Packages <- MCPackages
    Prover <- MCProver
    Paths = {f}
    Descriptors = {d1}
    NoCredential = NoCredential
    NoPackage = NoPackage
    NoPath = NoPath
    NoDescriptor = NoDescriptor
    Foreign = Foreign
    MaxCrashes = 1
    MaxFailures = 1
    MaxMeddling = 1
    MaxResets = 1
    MaxMishaps = 2
INVARIANTS TypeOK RecordIsTrue PendingCanFinish ReleasedIsRecorded
PROPERTIES RecordForward NoOverwrite
SYMMETRY MCSymmetry
CHECK_DEADLOCK FALSE
