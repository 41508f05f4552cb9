CONSTANTS
    MaxMessages = 2
    MaxRestarts = 1
SPECIFICATION Spec
INVARIANTS AtLeastOnce
