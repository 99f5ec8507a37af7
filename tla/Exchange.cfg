CONSTANTS
    Configs <- MCConfigs
    ForeignDatagrams <- MCForeignDatagrams
    Requests <- MCRequests
    ForeignBytes <- MCForeignBytes
    BusResponses <- MCBusResponses
    Providers = {"uds", "can"}
    SegmentSizes = {7, 4095}
    MaxWrites = 3
SPECIFICATION Spec
INVARIANTS TypeOK StreamFidelity AnsweredInOrder ClientReadsReplies IdentityIntact FieldReadsInBounds
PROPERTIES  ClientReconnects
CHECK_DEADLOCK FALSE
