\* stop() while the timer thread goes to sleep.
CONSTANTS
    Id = {t1}
    MaxGen = 1
SPECIFICATION FairSpec
PROPERTIES StopReturns
CHECK_DEADLOCK FALSE
