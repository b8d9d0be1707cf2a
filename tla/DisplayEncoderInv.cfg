CONSTANTS
    MaxStarts = 2
SPECIFICATION Spec
INVARIANT EInv
