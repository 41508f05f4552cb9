CONSTANTS
    t1 = t1
    t2 = t2
    main = main
    admin = admin
    Tasks = {t1, t2}
    Calls = {main, admin}
    Waits = {main}
SPECIFICATION FairSpec
INVARIANTS NoDoubleCleanup NoTaskLost CompletedMeansDone
PROPERTIES WaitReturns
