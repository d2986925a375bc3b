SPECIFICATION Spec
CONSTANTS
    Token = {}
    Ether = Ether
    NotAssigned = 99
    MaxTx = 3
    MaxMined = 1
    MaxBlock = 1
INVARIANTS HandedOutOnce
CHECK_DEADLOCK FALSE
