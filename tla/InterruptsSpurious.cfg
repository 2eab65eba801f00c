CONSTANTS
    Spurious = {7, 15}
    MaxDepth = 3
SPECIFICATION Spec
INVARIANT NothingLeftInService
