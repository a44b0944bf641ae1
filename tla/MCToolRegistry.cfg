CONSTANTS
    Words = {"pi"}
    Values = {v1, v2}
    Operands <- MCOperands
    NotANumber = NotANumber
    MinInt <- MCMinInt
    MaxInt = 3
    Profiles = {TRUE, FALSE}
SPECIFICATION Spec
INVARIANTS
    RecallReturnsLastStored
    CalculatorResult
PROPERTY FailedCallChangesNothing
CHECK_DEADLOCK FALSE
