CONSTANTS
    MaxStarts = 2
SPECIFICATION Spec
INVARIANT WaitsOnlyWhenIdle
PROPERTY DestructorReturns
PROPERTY SlicesEncoded
