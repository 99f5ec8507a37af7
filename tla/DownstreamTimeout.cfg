\* A downstream device that never answers.
CONSTANTS
    Conn = {c1}
    NoConn = NoConn
    Addr = {a1}
    NoAddr = NoAddr
    Requests = {"RoutingActivationRequest", "DiagnosticMessage"}
    Disturbances = {}
    RetryCount = 1
    DiagAcks = {"ack"}
    DownstreamResults = {"Pending"}
    MaxOutstanding = 1
    MaxRetry = 2
    MaxOvertakes = 0
SPECIFICATION FairSpec
PROPERTIES DownstreamWaitEnds
CHECK_DEADLOCK FALSE
