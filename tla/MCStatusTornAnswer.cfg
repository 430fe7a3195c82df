SPECIFICATION Spec
CONSTANTS
    MaxExports = 0
    MaxAnswers = 2
    MaxFailures = 0
    MaxHeartbeats = 0
    MaxRestarts = 0
    MaxEvents = 0
INVARIANTS
    UniqueGenerations
CHECK_DEADLOCK FALSE
