SPECIFICATION Spec
CONSTANTS
    Schema <- MCSchema
    Sent <- MCSent
    Later <- MCLater
    NewFields <- MCNewFields
    Memory <- MCMemory
    Plenty = 1000
INVARIANTS SizeIsExact RoundTrip AcceptedIsWhole RequiredThere PartsMerged NothingLost FieldFound
CHECK_DEADLOCK FALSE
