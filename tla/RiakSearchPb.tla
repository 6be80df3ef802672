---------------------------- MODULE RiakSearchPb ----------------------------
(* The message descriptors of riak_search.pb-c.c: Riak Search queries. *)
EXTENDS ProtobufDescriptor

RpbSearchDoc == Message(<<
    Sub("fields", 1, "repeated", "RpbPair")>>, <<<<1, 0>>, <<0, 1>>>>)

RpbSearchQueryReq == Message(<<
    Field("q", 1, "required", "BYTES"), Field("index", 2, "required", "BYTES"),
    Field("rows", 3, "optional", "UINT32"),
    Field("start", 4, "optional", "UINT32"),
    Field("sort", 5, "optional", "BYTES"),
    Field("filter", 6, "optional", "BYTES"),
    Field("df", 7, "optional", "BYTES"), Field("op", 8, "optional", "BYTES"),
    Field("fl", 9, "repeated", "BYTES"),
    Field("presort", 10, "optional", "BYTES")>>, <<<<1, 0>>, <<0, 10>>>>)

RpbSearchQueryResp == Message(<<
    Sub("docs", 1, "repeated", "RpbSearchDoc"),
    Field("max_score", 2, "optional", "FLOAT"),
    Field("num_found", 3, "optional", "UINT32")>>, <<<<1, 0>>, <<0, 3>>>>)
=============================================================================
