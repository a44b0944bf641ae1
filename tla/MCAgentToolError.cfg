CONSTANTS
    MaxTokens = 4096
    PromptLength = 207
    Inputs <- MCInputs
    ReplyLengths = {40, 260}
    MaxPushes = 10
    Words = {"k"}
    Values = {"v"}
    NotANumber = NotANumber
    MinInt <- MCMinInt
    MaxInt = 3
    Profiles = {TRUE}
SPECIFICATION Spec
INVARIANT ToolOutcomeRecorded
CHECK_DEADLOCK FALSE
