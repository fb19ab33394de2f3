CONSTANTS
    Targets = 4
    Dead = {0, 1}
    DialLimit = 1
    MaxRestarts = 1
    MaxFaults = 2
SPECIFICATION Spec
INVARIANT NoDuplicateDials
PROPERTY Reconnects
