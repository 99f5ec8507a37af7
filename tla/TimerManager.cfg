\* Two timer ids, two calls of addTimer.
CONSTANTS
    Id = {t1, t2}
    MaxGen = 2
SPECIFICATION FairSpec
INVARIANTS TypeOK OneShotOnce RemovedOneShotSilent NoLostWakeUp
PROPERTIES RemovedTimerDrains TimersImplemented DueTimerFires
CHECK_DEADLOCK FALSE
