SPECIFICATION Spec
CONSTANTS
    BodySizes = {0, 2}
    MaxCalls = 3
INVARIANTS OneRequestPerCall FailedIsUnread
