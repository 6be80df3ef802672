SPECIFICATION Spec
CONSTANTS
    Schema <- MCSchema
    Sent <- MCSent
    Later <- MCLater
    NewFields <- MCNewFields
    Memory <- MCMemory
    Plenty = 1000
INVARIANTS GivenTwice
CHECK_DEADLOCK FALSE
