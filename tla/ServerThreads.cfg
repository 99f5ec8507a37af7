CONSTANTS
    MaxConnections = 2
    MaxDescriptors = 3
SPECIFICATION Spec
INVARIANTS TypeOK DescriptorOwnership LeakOnlyAfterFailure OwnStream StopJoinsAll
CHECK_DEADLOCK FALSE
PROPERTIES  StopReturns ClientAccepted
