CONSTANTS
    MaxMessages = 3
    MaxRestarts = 2
SPECIFICATION FairSpec
INVARIANTS NoMessageUnseen
PROPERTIES EveryMessageTried CancelEnds
