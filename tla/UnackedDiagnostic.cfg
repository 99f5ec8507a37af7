\* A diagnostic message that arrives during an alive check.
CONSTANTS
    Conn = {c1}
    NoConn = NoConn
    Addr = {a1}
    NoAddr = NoAddr
    Requests = {"RoutingActivationRequest", "DiagnosticMessage"}
    Disturbances = {}
    RetryCount = 1
    DiagAcks = {"ack"}
    DownstreamResults = {}
    MaxOutstanding = 1
    MaxRetry = 2
    MaxOvertakes = 0
SPECIFICATION Spec
PROPERTIES DiagnosticAcknowledged
CHECK_DEADLOCK FALSE
