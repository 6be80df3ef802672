------------------------------ MODULE RiakKvPb ------------------------------
(* The message descriptors of riak_kv.pb-c.c:
   objects, listings, map/reduce, secondary indexes and counters. *)
EXTENDS ProtobufDescriptor

RpbGetClientIdResp == Message(<<
    Field("client_id", 1, "required", "BYTES")>>, <<<<1, 0>>, <<0, 1>>>>)

RpbSetClientIdReq == Message(<<
    Field("client_id", 1, "required", "BYTES")>>, <<<<1, 0>>, <<0, 1>>>>)

RpbGetReq == Message(<<
    Field("bucket", 1, "required", "BYTES"),
    Field("key", 2, "required", "BYTES"), Field("r", 3, "optional", "UINT32"),
    Field("pr", 4, "optional", "UINT32"),
    Field("basic_quorum", 5, "optional", "BOOL"),
    Field("notfound_ok", 6, "optional", "BOOL"),
    Field("if_modified", 7, "optional", "BYTES"),
    Field("head", 8, "optional", "BOOL"),
    Field("deletedvclock", 9, "optional", "BOOL"),
    Field("timeout", 10, "optional", "UINT32"),
    Field("sloppy_quorum", 11, "optional", "BOOL"),
    Field("n_val", 12, "optional", "UINT32"),
    Field("type", 13, "optional", "BYTES")>>, <<<<1, 0>>, <<0, 13>>>>)

RpbGetResp == Message(<<
    Sub("content", 1, "repeated", "RpbContent"),
    Field("vclock", 2, "optional", "BYTES"),
    Field("unchanged", 3, "optional", "BOOL")>>, <<<<1, 0>>, <<0, 3>>>>)

RpbPutReq == Message(<<
    Field("bucket", 1, "required", "BYTES"),
    Field("key", 2, "optional", "BYTES"),
    Field("vclock", 3, "optional", "BYTES"),
    Sub("content", 4, "required", "RpbContent"),
    Field("w", 5, "optional", "UINT32"), Field("dw", 6, "optional", "UINT32"),
    Field("return_body", 7, "optional", "BOOL"),
    Field("pw", 8, "optional", "UINT32"),
    Field("if_not_modified", 9, "optional", "BOOL"),
    Field("if_none_match", 10, "optional", "BOOL"),
    Field("return_head", 11, "optional", "BOOL"),
    Field("timeout", 12, "optional", "UINT32"),
    Field("asis", 13, "optional", "BOOL"),
    Field("sloppy_quorum", 14, "optional", "BOOL"),
    Field("n_val", 15, "optional", "UINT32"),
    Field("type", 16, "optional", "BYTES")>>, <<<<1, 0>>, <<0, 16>>>>)

RpbPutResp == Message(<<
    Sub("content", 1, "repeated", "RpbContent"),
    Field("vclock", 2, "optional", "BYTES"),
    Field("key", 3, "optional", "BYTES")>>, <<<<1, 0>>, <<0, 3>>>>)

RpbDelReq == Message(<<
    Field("bucket", 1, "required", "BYTES"),
    Field("key", 2, "required", "BYTES"), Field("rw", 3, "optional", "UINT32"),
    Field("vclock", 4, "optional", "BYTES"),
    Field("r", 5, "optional", "UINT32"), Field("w", 6, "optional", "UINT32"),
    Field("pr", 7, "optional", "UINT32"), Field("pw", 8, "optional", "UINT32"),
    Field("dw", 9, "optional", "UINT32"),
    Field("timeout", 10, "optional", "UINT32"),
    Field("sloppy_quorum", 11, "optional", "BOOL"),
    Field("n_val", 12, "optional", "UINT32"),
    Field("type", 13, "optional", "BYTES")>>, <<<<1, 0>>, <<0, 13>>>>)

RpbListBucketsReq == Message(<<
    Field("timeout", 1, "optional", "UINT32"),
    Field("stream", 2, "optional", "BOOL"),
    Field("type", 3, "optional", "BYTES")>>, <<<<1, 0>>, <<0, 3>>>>)

RpbListBucketsResp == Message(<<
    Field("buckets", 1, "repeated", "BYTES"),
    Field("done", 2, "optional", "BOOL")>>, <<<<1, 0>>, <<0, 2>>>>)

RpbListKeysReq == Message(<<
    Field("bucket", 1, "required", "BYTES"),
    Field("timeout", 2, "optional", "UINT32"),
    Field("type", 3, "optional", "BYTES")>>, <<<<1, 0>>, <<0, 3>>>>)

RpbListKeysResp == Message(<<
    Field("keys", 1, "repeated", "BYTES"),
    Field("done", 2, "optional", "BOOL")>>, <<<<1, 0>>, <<0, 2>>>>)

RpbMapRedReq == Message(<<
    Field("request", 1, "required", "BYTES"),
    Field("content_type", 2, "required", "BYTES")>>, <<<<1, 0>>, <<0, 2>>>>)

RpbMapRedResp == Message(<<
    Field("phase", 1, "optional", "UINT32"),
    Field("response", 2, "optional", "BYTES"),
    Field("done", 3, "optional", "BOOL")>>, <<<<1, 0>>, <<0, 3>>>>)

RpbIndexReq_IndexQueryType == Enum(<<"eq", "range">>, <<<<0, 0>>, <<0, 2>>>>)

RpbIndexReq == Message(<<
    Field("bucket", 1, "required", "BYTES"),
    Field("index", 2, "required", "BYTES"),
    Enumerated("qtype", 3, "required", "RpbIndexReq_IndexQueryType"),
    Field("key", 4, "optional", "BYTES"),
    Field("range_min", 5, "optional", "BYTES"),
    Field("range_max", 6, "optional", "BYTES"),
    Field("return_terms", 7, "optional", "BOOL"),
    Field("stream", 8, "optional", "BOOL"),
    Field("max_results", 9, "optional", "UINT32"),
    Field("continuation", 10, "optional", "BYTES"),
    Field("timeout", 11, "optional", "UINT32"),
    Field("type", 12, "optional", "BYTES"),
    Field("term_regex", 13, "optional", "BYTES"),
    Field("pagination_sort", 14, "optional", "BOOL")>>, <<<<1, 0>>, <<0, 14>>>>)

RpbIndexResp == Message(<<
    Field("keys", 1, "repeated", "BYTES"),
    Sub("results", 2, "repeated", "RpbPair"),
    Field("continuation", 3, "optional", "BYTES"),
    Field("done", 4, "optional", "BOOL")>>, <<<<1, 0>>, <<0, 4>>>>)

RpbCSBucketReq == Message(<<
    Field("bucket", 1, "required", "BYTES"),
    Field("start_key", 2, "required", "BYTES"),
    Field("end_key", 3, "optional", "BYTES"),
    Default("start_incl", 4, "BOOL", TRUE),
    Default("end_incl", 5, "BOOL", FALSE),
    Field("continuation", 6, "optional", "BYTES"),
    Field("max_results", 7, "optional", "UINT32"),
    Field("timeout", 8, "optional", "UINT32"),
    Field("type", 9, "optional", "BYTES")>>, <<<<1, 0>>, <<0, 9>>>>)

RpbCSBucketResp == Message(<<
    Sub("objects", 1, "repeated", "RpbIndexObject"),
    Field("continuation", 2, "optional", "BYTES"),
    Field("done", 3, "optional", "BOOL")>>, <<<<1, 0>>, <<0, 3>>>>)

RpbIndexObject == Message(<<
    Field("key", 1, "required", "BYTES"),
    Sub("object", 2, "required", "RpbGetResp")>>, <<<<1, 0>>, <<0, 2>>>>)

RpbContent == Message(<<
    Field("value", 1, "required", "BYTES"),
    Field("content_type", 2, "optional", "BYTES"),
    Field("charset", 3, "optional", "BYTES"),
    Field("content_encoding", 4, "optional", "BYTES"),
    Field("vtag", 5, "optional", "BYTES"),
    Sub("links", 6, "repeated", "RpbLink"),
    Field("last_mod", 7, "optional", "UINT32"),
    Field("last_mod_usecs", 8, "optional", "UINT32"),
    Sub("usermeta", 9, "repeated", "RpbPair"),
    Sub("indexes", 10, "repeated", "RpbPair"),
    Field("deleted", 11, "optional", "BOOL")>>, <<<<1, 0>>, <<0, 11>>>>)

RpbLink == Message(<<
    Field("bucket", 1, "optional", "BYTES"),
    Field("key", 2, "optional", "BYTES"),
    Field("tag", 3, "optional", "BYTES")>>, <<<<1, 0>>, <<0, 3>>>>)

RpbCounterUpdateReq == Message(<<
    Field("bucket", 1, "required", "BYTES"),
    Field("key", 2, "required", "BYTES"),
    Field("amount", 3, "required", "SINT64"),
    Field("w", 4, "optional", "UINT32"), Field("dw", 5, "optional", "UINT32"),
    Field("pw", 6, "optional", "UINT32"),
    Field("returnvalue", 7, "optional", "BOOL")>>, <<<<1, 0>>, <<0, 7>>>>)

RpbCounterUpdateResp == Message(<<
    Field("value", 1, "optional", "SINT64")>>, <<<<1, 0>>, <<0, 1>>>>)

RpbCounterGetReq == Message(<<
    Field("bucket", 1, "required", "BYTES"),
    Field("key", 2, "required", "BYTES"), Field("r", 3, "optional", "UINT32"),
    Field("pr", 4, "optional", "UINT32"),
    Field("basic_quorum", 5, "optional", "BOOL"),
    Field("notfound_ok", 6, "optional", "BOOL")>>, <<<<1, 0>>, <<0, 6>>>>)

RpbCounterGetResp == Message(<<
    Field("value", 1, "optional", "SINT64")>>, <<<<1, 0>>, <<0, 1>>>>)
=============================================================================
