SPECIFICATION Spec
CONSTANTS
    Token = {T1}
    Ether = Ether
    NotAssigned = 99
    MaxTx = 2
    MaxMined = 2
    MaxBlock = 2
INVARIANTS
    TypeOK OneWalletPerHolding InOneWallet EtherHashesUnique OnceUnlessStale
    BlockedInOrder
PROPERTIES
    IdentityKept
CHECK_DEADLOCK FALSE
