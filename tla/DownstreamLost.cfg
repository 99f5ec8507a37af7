\* The callback of the next request is cleared with the last one.
CONSTANTS
    MaxRequests = 2
SPECIFICATION FairSpec
PROPERTIES ResponseForwarded
CHECK_DEADLOCK FALSE
