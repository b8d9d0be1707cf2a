CONSTANTS
    PoolSize = 1
    MaxDatagrams = 2
    TimerIds <- MCTimerIds
SPECIFICATION Spec
INVARIANT NoTimerAfterDestroy
