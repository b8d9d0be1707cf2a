CONSTANTS
    PoolSize = 2
    MaxDatagrams = 3
    TimerIds <- MCTimerIds
SPECIFICATION Spec
PROPERTY DatagramsRead
PROPERTY ReadUntilBlocked
