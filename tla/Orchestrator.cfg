CONSTANTS
    a = a
    b = b
    StepKeys = {a, b}
    MaxWorkers = 2
    MaxItems = 2
    MaxCalls = 3
    MaxRuns = 2
SPECIFICATION FairSpec
PROPERTIES NilMeansSuccess BatchResultsMatchInputs ImplementsPool RunReturns
