SPECIFICATION FairMonitoringSpec
CONSTANTS
    Monitor = {m1, m2, m3}
    Watchers = {m1, m2}
    Timeout = 1
    MaxTime = 3
    MaxChanges = 2
INVARIANT EventsReal
PROPERTY Converges
CHECK_DEADLOCK FALSE
