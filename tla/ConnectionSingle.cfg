\* One connection with a downstream handler: its threads overlap everywhere but
\* inside transitionTo.
CONSTANTS
    Conn = {c1}
    NoConn = NoConn
    Addr = {a1, a2}
    NoAddr = NoAddr
    Requests = {"RoutingActivationRequest", "DiagnosticMessage", "AliveCheckResponse", "Other"}
    Disturbances = {"leave", "stop"}
    RetryCount = 1
    DiagAcks = {"ack", "nack"}
    DownstreamResults = {"Pending", "Handled", "Error"}
    MaxOutstanding = 1
    MaxRetry = 2
    MaxOvertakes = 0
SPECIFICATION FairSpec
INVARIANTS TypeOK WatchedStateHasTimer RetryBounded ServedOnlyRoutedClient RoutingBeforeService
PROPERTIES RoutedAddressStable IdleConnectionCloses LifecycleRefined
CHECK_DEADLOCK FALSE
