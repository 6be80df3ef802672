------------------------------- MODULE RiakPb -------------------------------
(* The message descriptors of riak.pb-c.c:
   errors, server information, buckets and their properties. *)
EXTENDS ProtobufDescriptor

RpbErrorResp == Message(<<
    Field("errmsg", 1, "required", "BYTES"),
    Field("errcode", 2, "required", "UINT32")>>, <<<<1, 0>>, <<0, 2>>>>)

RpbGetServerInfoResp == Message(<<
    Field("node", 1, "optional", "BYTES"),
    Field("server_version", 2, "optional", "BYTES")>>, <<<<1, 0>>, <<0, 2>>>>)

RpbPair == Message(<<
    Field("key", 1, "required", "BYTES"),
    Field("value", 2, "optional", "BYTES")>>, <<<<1, 0>>, <<0, 2>>>>)

RpbGetBucketReq == Message(<<
    Field("bucket", 1, "required", "BYTES"),
    Field("type", 2, "optional", "BYTES")>>, <<<<1, 0>>, <<0, 2>>>>)

RpbGetBucketResp == Message(<<
    Sub("props", 1, "required", "RpbBucketProps")>>, <<<<1, 0>>, <<0, 1>>>>)

RpbSetBucketReq == Message(<<
    Field("bucket", 1, "required", "BYTES"),
    Sub("props", 2, "required", "RpbBucketProps"),
    Field("type", 3, "optional", "BYTES")>>, <<<<1, 0>>, <<0, 3>>>>)

RpbResetBucketReq == Message(<<
    Field("bucket", 1, "required", "BYTES"),
    Field("type", 2, "optional", "BYTES")>>, <<<<1, 0>>, <<0, 2>>>>)

RpbGetBucketTypeReq == Message(<<
    Field("type", 1, "required", "BYTES")>>, <<<<1, 0>>, <<0, 1>>>>)

RpbSetBucketTypeReq == Message(<<
    Field("type", 1, "required", "BYTES"),
    Sub("props", 2, "required", "RpbBucketProps")>>, <<<<1, 0>>, <<0, 2>>>>)

RpbModFun == Message(<<
    Field("module", 1, "required", "BYTES"),
    Field("function", 2, "required", "BYTES")>>, <<<<1, 0>>, <<0, 2>>>>)

RpbCommitHook == Message(<<
    Sub("modfun", 1, "optional", "RpbModFun"),
    Field("name", 2, "optional", "BYTES")>>, <<<<1, 0>>, <<0, 2>>>>)

RpbBucketProps_RpbReplMode == Enum(<<"FALSE", "REALTIME", "FULLSYNC", "TRUE">>, <<<<0, 0>>, <<0, 4>>>>)

RpbBucketProps == Message(<<
    Field("n_val", 1, "optional", "UINT32"),
    Field("allow_mult", 2, "optional", "BOOL"),
    Field("last_write_wins", 3, "optional", "BOOL"),
    Sub("precommit", 4, "repeated", "RpbCommitHook"),
    Default("has_precommit", 5, "BOOL", FALSE),
    Sub("postcommit", 6, "repeated", "RpbCommitHook"),
    Default("has_postcommit", 7, "BOOL", FALSE),
    Sub("chash_keyfun", 8, "optional", "RpbModFun"),
    Sub("linkfun", 9, "optional", "RpbModFun"),
    Field("old_vclock", 10, "optional", "UINT32"),
    Field("young_vclock", 11, "optional", "UINT32"),
    Field("big_vclock", 12, "optional", "UINT32"),
    Field("small_vclock", 13, "optional", "UINT32"),
    Field("pr", 14, "optional", "UINT32"), Field("r", 15, "optional", "UINT32"),
    Field("w", 16, "optional", "UINT32"), Field("pw", 17, "optional", "UINT32"),
    Field("dw", 18, "optional", "UINT32"),
    Field("rw", 19, "optional", "UINT32"),
    Field("basic_quorum", 20, "optional", "BOOL"),
    Field("notfound_ok", 21, "optional", "BOOL"),
    Field("backend", 22, "optional", "BYTES"),
    Field("search", 23, "optional", "BOOL"),
    Enumerated("repl", 24, "optional", "RpbBucketProps_RpbReplMode"),
    Field("search_index", 25, "optional", "BYTES"),
    Field("datatype", 26, "optional", "BYTES"),
    Field("consistent", 27, "optional", "BOOL")>>, <<<<1, 0>>, <<0, 27>>>>)

RpbAuthReq == Message(<<
    Field("user", 1, "required", "BYTES"),
    Field("password", 2, "required", "BYTES")>>, <<<<1, 0>>, <<0, 2>>>>)
=============================================================================
