SPECIFICATION XcmSpec
CONSTANTS
    r1 = r1
    l1 = l1
    t1 = t1
    RobotId = {r1}
    Location = {l1}
    TaskDefinition = {t1}
    MaxGlobalCommands = 1
    NoLocation = NoLocation
    NoOrigin = NoOrigin
    Unlimited = Unlimited
    Endowed <- MCEndowed
    Programs <- MCPrograms
    MaxMessages = 2
INVARIANTS
    XcmTypeOK
    ExecutionIsPaidFor
    NoImpersonation
    NoRelayReserveTransfer
    XcmConserved
PROPERTY
    OnlyOwnFunds
CHECK_DEADLOCK FALSE
