SPECIFICATION Spec
CONSTANTS
    MaxWrites = 3
    MaxTime = 4
    MaxFailures = 1
CHECK_DEADLOCK FALSE
INVARIANTS
    TypeOK
    RecordedMeansSameUnlessDeleted
PROPERTIES
    Converges
