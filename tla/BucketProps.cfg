SPECIFICATION Spec
CONSTANTS
    Initial <- Initials
    OwnRecords <- Records
    Foreign <- OthersChanges
    MaxSets = 3
    MaxGets = 2
CHECK_DEADLOCK FALSE
INVARIANTS FreesMarked
PROPERTIES RestoresMarked LeavesRest ReadsBack
