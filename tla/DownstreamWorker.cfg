\* Up to four requests of one client.
CONSTANTS
    MaxRequests = 4
SPECIFICATION FairSpec
PROPERTIES ResponsesInOrder InterfaceImplemented CloseReturns
CHECK_DEADLOCK FALSE
