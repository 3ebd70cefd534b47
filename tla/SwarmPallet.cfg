CONSTANTS
    RobotId = {r0, r1}
    Location = {here, there}
    TaskDefinition = {task}
    MaxGlobalCommands = 2
    NoLocation = NoLocation
    MaxEnqueued = 3
SPECIFICATION MCSpec
INVARIANTS
    PalletTypeOK
    FifoDelivery
    PulledByRegistered
PROPERTY
    FifoSpec
