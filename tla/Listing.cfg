SPECIFICATION FairSpec
CONSTANTS
    Keys = {1, 2, 3}
    Types = {"default", "custom"}
    DefaultType = "default"
    Uses <- PassingUses
    PageSize = 2
    MaxChanges = 1
    MaxFailures = 1
INVARIANTS InOrder Complete OnlyOfType HeapReachable
PROPERTIES Ends
