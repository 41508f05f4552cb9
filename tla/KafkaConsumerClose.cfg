CONSTANTS
    MaxMessages = 1
    MaxRestarts = 0
SPECIFICATION FairSpec
PROPERTIES CloseEnds
