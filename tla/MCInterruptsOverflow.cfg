CONSTANTS
    Faults = {"stack_overflow"}
    OtherIrqs = {}
    MaxKeys = 0
    KbdSize = 1
SPECIFICATION LiveSpec
PROPERTY DoubleFaultReported
