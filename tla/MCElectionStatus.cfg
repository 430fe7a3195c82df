SPECIFICATION Spec
CONSTANTS
    MaxExports = 1
    MaxAnswers = 1
    MaxFailures = 1
    MaxHeartbeats = 1
    MaxRestarts = 1
    MaxEvents = 2
INVARIANTS
    TypeOK
    SessionCoversRecord
PROPERTIES
    KnowledgeForward
    FenceForward
CHECK_DEADLOCK FALSE
