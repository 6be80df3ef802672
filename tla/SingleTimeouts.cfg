SPECIFICATION FairSpec
CONSTANTS
    Ops <- SingleOps
    RespCode <- SingleRespCode
    Callback <- SingleCallback
    ErrorCode <- mc_RpbErrorResp
    Fds = {1, 2}
    MaxCalls = 3
    MaxChunks = 1
    RecvTimeout = TRUE
    SendTimeout = TRUE
    UnpackMayFail = FALSE
    ReconnectOn <- OnFailedConnection
    BareConnect = TRUE
INVARIANTS IInv OwnReplies SuccessIsComplete NoRequestAfterTorn LastErrorIsLive
PROPERTIES ErrorTextIsOwn KeepsContract CallReturns
