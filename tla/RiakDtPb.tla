------------------------------ MODULE RiakDtPb ------------------------------
(* The message descriptors of riak_dt.pb-c.c:
   data types (riack has no function for them yet). *)
EXTENDS ProtobufDescriptor

MapField_MapFieldType == Enum(<<"COUNTER", "SET", "REGISTER", "FLAG", "MAP">>, <<<<1, 0>>, <<0, 5>>>>)

MapField == Message(<<
    Field("name", 1, "required", "BYTES"),
    Enumerated("type", 2, "required", "MapField_MapFieldType")>>, <<<<1, 0>>, <<0, 2>>>>)

MapEntry == Message(<<
    Sub("field", 1, "required", "MapField"),
    Field("counter_value", 2, "optional", "SINT64"),
    Field("set_value", 3, "repeated", "BYTES"),
    Field("register_value", 4, "optional", "BYTES"),
    Field("flag_value", 5, "optional", "BOOL"),
    Sub("map_value", 6, "repeated", "MapEntry")>>, <<<<1, 0>>, <<0, 6>>>>)

DtFetchReq == Message(<<
    Field("bucket", 1, "required", "BYTES"),
    Field("key", 2, "required", "BYTES"), Field("type", 3, "required", "BYTES"),
    Field("r", 4, "optional", "UINT32"), Field("pr", 5, "optional", "UINT32"),
    Field("basic_quorum", 6, "optional", "BOOL"),
    Field("notfound_ok", 7, "optional", "BOOL"),
    Field("timeout", 8, "optional", "UINT32"),
    Field("sloppy_quorum", 9, "optional", "BOOL"),
    Field("n_val", 10, "optional", "UINT32"),
    Default("include_context", 11, "BOOL", TRUE)>>, <<<<1, 0>>, <<0, 11>>>>)

DtValue == Message(<<
    Field("counter_value", 1, "optional", "SINT64"),
    Field("set_value", 2, "repeated", "BYTES"),
    Sub("map_value", 3, "repeated", "MapEntry")>>, <<<<1, 0>>, <<0, 3>>>>)

DtFetchResp_DataType == Enum(<<"COUNTER", "SET", "MAP">>, <<<<1, 0>>, <<0, 3>>>>)

DtFetchResp == Message(<<
    Field("context", 1, "optional", "BYTES"),
    Enumerated("type", 2, "required", "DtFetchResp_DataType"),
    Sub("value", 3, "optional", "DtValue")>>, <<<<1, 0>>, <<0, 3>>>>)

CounterOp == Message(<<
    Field("increment", 1, "optional", "SINT64")>>, <<<<1, 0>>, <<0, 1>>>>)

SetOp == Message(<<
    Field("adds", 1, "repeated", "BYTES"),
    Field("removes", 2, "repeated", "BYTES")>>, <<<<1, 0>>, <<0, 2>>>>)

MapUpdate_FlagOp == Enum(<<"ENABLE", "DISABLE">>, <<<<1, 0>>, <<0, 2>>>>)

MapUpdate == Message(<<
    Sub("field", 1, "required", "MapField"),
    Sub("counter_op", 2, "optional", "CounterOp"),
    Sub("set_op", 3, "optional", "SetOp"),
    Field("register_op", 4, "optional", "BYTES"),
    Enumerated("flag_op", 5, "optional", "MapUpdate_FlagOp"),
    Sub("map_op", 6, "optional", "MapOp")>>, <<<<1, 0>>, <<0, 6>>>>)

MapOp == Message(<<
    Sub("removes", 1, "repeated", "MapField"),
    Sub("updates", 2, "repeated", "MapUpdate")>>, <<<<1, 0>>, <<0, 2>>>>)

DtOp == Message(<<
    Sub("counter_op", 1, "optional", "CounterOp"),
    Sub("set_op", 2, "optional", "SetOp"),
    Sub("map_op", 3, "optional", "MapOp")>>, <<<<1, 0>>, <<0, 3>>>>)

DtUpdateReq == Message(<<
    Field("bucket", 1, "required", "BYTES"),
    Field("key", 2, "optional", "BYTES"), Field("type", 3, "required", "BYTES"),
    Field("context", 4, "optional", "BYTES"), Sub("op", 5, "required", "DtOp"),
    Field("w", 6, "optional", "UINT32"), Field("dw", 7, "optional", "UINT32"),
    Field("pw", 8, "optional", "UINT32"),
    Default("return_body", 9, "BOOL", FALSE),
    Field("timeout", 10, "optional", "UINT32"),
    Field("sloppy_quorum", 11, "optional", "BOOL"),
    Field("n_val", 12, "optional", "UINT32"),
    Default("include_context", 13, "BOOL", TRUE)>>, <<<<1, 0>>, <<0, 13>>>>)

DtUpdateResp == Message(<<
    Field("key", 1, "optional", "BYTES"),
    Field("context", 2, "optional", "BYTES"),
    Field("counter_value", 3, "optional", "SINT64"),
    Field("set_value", 4, "repeated", "BYTES"),
    Sub("map_value", 5, "repeated", "MapEntry")>>, <<<<1, 0>>, <<0, 5>>>>)
=============================================================================
