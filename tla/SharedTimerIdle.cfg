\* Two connections on the shared timer manager: an idle one is not closed.
CONSTANTS
    Conn = {c1, c2}
    NoConn = NoConn
    Addr = {a1}
    NoAddr = NoAddr
    Requests = {}
    Disturbances = {}
    RetryCount = 1
    DiagAcks = {"ack"}
    DownstreamResults = {}
    MaxOutstanding = 1
    MaxRetry = 2
    MaxOvertakes = 0
SPECIFICATION FairSpec
PROPERTIES IdleConnectionCloses
CHECK_DEADLOCK FALSE
