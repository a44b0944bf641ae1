CONSTANTS
    Faults <- AllFaults
    OtherIrqs = {7}
    MaxKeys = 3
    KbdSize = 2
SPECIFICATION LiveSpec
INVARIANTS
    SpinsOnlyAfterOverflow
    HandlersDoNotNest
    InServiceUntilEoi
    NoLostKey
    EchoedInOrder
PROPERTIES
    EveryKeyEchoed
    ReachesRunLoop
