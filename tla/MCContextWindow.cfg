CONSTANTS
    Role = {"System", "User"}
    Lengths = {3, 8, 20}
    MaxTokens = 4
    MaxPushes = 5
SPECIFICATION Spec
INVARIANTS
    TokenAccounting
    OverLimitOnlyBySystem
    SystemNeverEvicted
    RetainedIsRecent
PROPERTIES
    PushReturns
    ImplementsAtomicPush
CHECK_DEADLOCK FALSE
