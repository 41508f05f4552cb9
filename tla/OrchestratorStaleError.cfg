CONSTANTS
    a = a
    StepKeys = {a}
    MaxWorkers = 1
    MaxItems = 2
    MaxCalls = 2
    MaxRuns = 2
SPECIFICATION Spec
PROPERTIES SuccessMeansNil
