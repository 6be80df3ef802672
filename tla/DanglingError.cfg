SPECIFICATION Spec
CONSTANTS
    Ops <- SingleOps
    RespCode <- SingleRespCode
    Callback <- SingleCallback
    ErrorCode <- mc_RpbErrorResp
    Fds = {1, 2}
    MaxCalls = 2
    MaxChunks = 1
    RecvTimeout = FALSE
    SendTimeout = FALSE
    UnpackMayFail = TRUE
    ReconnectOn <- OnAnyFailure
    BareConnect = FALSE
INVARIANTS LastErrorIsLive
