--------------------------- MODULE RiakYokozunaPb ---------------------------
(* The message descriptors of riak_yokozuna.pb-c.c:
   Yokozuna index and schema administration (riack has no function for it). *)
EXTENDS ProtobufDescriptor

RpbYokozunaIndex == Message(<<
    Field("name", 1, "required", "BYTES"),
    Field("schema", 2, "optional", "BYTES"),
    Field("n_val", 3, "optional", "UINT32")>>, <<<<1, 0>>, <<0, 3>>>>)

RpbYokozunaIndexGetReq == Message(<<
    Field("name", 1, "optional", "BYTES")>>, <<<<1, 0>>, <<0, 1>>>>)

RpbYokozunaIndexGetResp == Message(<<
    Sub("index", 1, "repeated", "RpbYokozunaIndex")>>, <<<<1, 0>>, <<0, 1>>>>)

RpbYokozunaIndexPutReq == Message(<<
    Sub("index", 1, "required", "RpbYokozunaIndex")>>, <<<<1, 0>>, <<0, 1>>>>)

RpbYokozunaIndexDeleteReq == Message(<<
    Field("name", 1, "required", "BYTES")>>, <<<<1, 0>>, <<0, 1>>>>)

RpbYokozunaSchema == Message(<<
    Field("name", 1, "required", "BYTES"),
    Field("content", 2, "optional", "BYTES")>>, <<<<1, 0>>, <<0, 2>>>>)

RpbYokozunaSchemaPutReq == Message(<<
    Sub("schema", 1, "required", "RpbYokozunaSchema")>>, <<<<1, 0>>, <<0, 1>>>>)

RpbYokozunaSchemaGetReq == Message(<<
    Field("name", 1, "required", "BYTES")>>, <<<<1, 0>>, <<0, 1>>>>)

RpbYokozunaSchemaGetResp == Message(<<
    Sub("schema", 1, "required", "RpbYokozunaSchema")>>, <<<<1, 0>>, <<0, 1>>>>)
=============================================================================
