---------------------------- MODULE RiakMessages ----------------------------
(* All descriptors by name, for Sub and Enumerated to refer to. *)
EXTENDS RiakPb, RiakKvPb, RiakDtPb, RiakSearchPb, RiakYokozunaPb

Descriptors ==
   [RpbErrorResp |-> RpbErrorResp,
    RpbGetServerInfoResp |-> RpbGetServerInfoResp, RpbPair |-> RpbPair,
    RpbGetBucketReq |-> RpbGetBucketReq, RpbGetBucketResp |-> RpbGetBucketResp,
    RpbSetBucketReq |-> RpbSetBucketReq,
    RpbResetBucketReq |-> RpbResetBucketReq,
    RpbGetBucketTypeReq |-> RpbGetBucketTypeReq,
    RpbSetBucketTypeReq |-> RpbSetBucketTypeReq, RpbModFun |-> RpbModFun,
    RpbCommitHook |-> RpbCommitHook, RpbBucketProps |-> RpbBucketProps,
    RpbAuthReq |-> RpbAuthReq, RpbGetClientIdResp |-> RpbGetClientIdResp,
    RpbSetClientIdReq |-> RpbSetClientIdReq, RpbGetReq |-> RpbGetReq,
    RpbGetResp |-> RpbGetResp, RpbPutReq |-> RpbPutReq,
    RpbPutResp |-> RpbPutResp, RpbDelReq |-> RpbDelReq,
    RpbListBucketsReq |-> RpbListBucketsReq,
    RpbListBucketsResp |-> RpbListBucketsResp,
    RpbListKeysReq |-> RpbListKeysReq, RpbListKeysResp |-> RpbListKeysResp,
    RpbMapRedReq |-> RpbMapRedReq, RpbMapRedResp |-> RpbMapRedResp,
    RpbIndexReq |-> RpbIndexReq, RpbIndexResp |-> RpbIndexResp,
    RpbCSBucketReq |-> RpbCSBucketReq, RpbCSBucketResp |-> RpbCSBucketResp,
    RpbIndexObject |-> RpbIndexObject, RpbContent |-> RpbContent,
    RpbLink |-> RpbLink, RpbCounterUpdateReq |-> RpbCounterUpdateReq,
    RpbCounterUpdateResp |-> RpbCounterUpdateResp,
    RpbCounterGetReq |-> RpbCounterGetReq,
    RpbCounterGetResp |-> RpbCounterGetResp, MapField |-> MapField,
    MapEntry |-> MapEntry, DtFetchReq |-> DtFetchReq, DtValue |-> DtValue,
    DtFetchResp |-> DtFetchResp, CounterOp |-> CounterOp, SetOp |-> SetOp,
    MapUpdate |-> MapUpdate, MapOp |-> MapOp, DtOp |-> DtOp,
    DtUpdateReq |-> DtUpdateReq, DtUpdateResp |-> DtUpdateResp,
    RpbSearchDoc |-> RpbSearchDoc, RpbSearchQueryReq |-> RpbSearchQueryReq,
    RpbSearchQueryResp |-> RpbSearchQueryResp,
    RpbYokozunaIndex |-> RpbYokozunaIndex,
    RpbYokozunaIndexGetReq |-> RpbYokozunaIndexGetReq,
    RpbYokozunaIndexGetResp |-> RpbYokozunaIndexGetResp,
    RpbYokozunaIndexPutReq |-> RpbYokozunaIndexPutReq,
    RpbYokozunaIndexDeleteReq |-> RpbYokozunaIndexDeleteReq,
    RpbYokozunaSchema |-> RpbYokozunaSchema,
    RpbYokozunaSchemaPutReq |-> RpbYokozunaSchemaPutReq,
    RpbYokozunaSchemaGetReq |-> RpbYokozunaSchemaGetReq,
    RpbYokozunaSchemaGetResp |-> RpbYokozunaSchemaGetResp]

Enums ==
   [RpbBucketProps_RpbReplMode |-> RpbBucketProps_RpbReplMode,
    RpbIndexReq_IndexQueryType |-> RpbIndexReq_IndexQueryType,
    MapField_MapFieldType |-> MapField_MapFieldType,
    DtFetchResp_DataType |-> DtFetchResp_DataType,
    MapUpdate_FlagOp |-> MapUpdate_FlagOp]
=============================================================================
