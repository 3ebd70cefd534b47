SPECIFICATION RuntimeSpec
CONSTANTS
    MaxBlockNumber = 2
    NoValue = NoValue
    Account = {alice, bob}
    SudoKey = alice
    InitialBalance <- MCInitialBalance
    Call <- MCCall
    TransactionLength = 100
    OnInitialize <- MCOnInitialize
    Multipliers = {1, 10, 20}
    MaxBlocks = 2
    MaxNonce = 2
INVARIANTS
    WeightWithinLimits
    ReplayNeedsRemoval
    NoDust
    Conserved
    NeverBelowStored
CHECK_DEADLOCK FALSE
