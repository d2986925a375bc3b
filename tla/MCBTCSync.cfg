SPECIFICATION Spec
CONSTANTS
    Tx <- MCTx
    Inputs <- MCInputs
    Outputs <- MCOutputs
    Replaceable = {}
    LockTime <- MCLockTime
    GapLimit <- MCGapLimit
    Mined <- MCMined
    Height0 = 1
    MaxInv = 2
    Recent = 3
    Spare = 1
    Relayed = {"t2", "t3", "t4"}
    MaxDrops = 1
CHECK_DEADLOCK FALSE
INVARIANTS
    TypeOK
    NoMissedPayment
    NoMissedSpend
PROPERTIES
    SyncCompletes
