SPECIFICATION Spec
CONSTANTS
    MaxWrites = 2
    MaxTime = 3
    MaxFailures = 0
CHECK_DEADLOCK FALSE
PROPERTIES
    RemoteDeleteReplicates
