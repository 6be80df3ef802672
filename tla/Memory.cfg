SPECIFICATION Spec
CONSTANTS
    Requests <- MCRequests
    Replies <- MCReplies
    MaxCalls = 2
    MaxChunks = 2
INVARIANTS OutIsLive OnlyKnownLeaks OnlyKnownWild
CHECK_DEADLOCK FALSE
