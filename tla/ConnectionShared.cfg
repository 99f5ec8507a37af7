\* Two connections on the shared timer manager; a thread may be overtaken inside
\* transitionTo once.
CONSTANTS
    Conn = {c1, c2}
    NoConn = NoConn
    Addr = {a1}
    NoAddr = NoAddr
    Requests = {"RoutingActivationRequest"}
    Disturbances = {}
    RetryCount = 2
    DiagAcks = {"ack"}
    DownstreamResults = {}
    MaxOutstanding = 1
    MaxRetry = 2
    MaxOvertakes = 1
SPECIFICATION Spec
SYMMETRY Symmetry
INVARIANTS NoStrayTimer ClosedExactlyOnce
PROPERTIES CloseReasonStable LifecycleRefined TimersUsed
CHECK_DEADLOCK FALSE
