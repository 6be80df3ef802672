SPECIFICATION Spec
CONSTANTS
    Ops <- StreamOps
    RespCode <- StreamRespCode
    Callback <- StreamCallback
    ErrorCode <- mc_RpbErrorResp
    Fds = {1, 2}
    MaxCalls = 2
    MaxChunks = 2
    RecvTimeout = TRUE
    SendTimeout = FALSE
    UnpackMayFail = FALSE
    ReconnectOn <- OnAnyFailure
    BareConnect = FALSE
INVARIANTS SuccessIsComplete
