------------------------------ MODULE MCCommand ------------------------------
(* Instances of RiackCommand for TLC. *)
EXTENDS RiackCommand, RiackOperations

(* Two functions that wait for the same response code, and one of another code
   whose answer carries nothing to unpack. *)
SingleOps == {"riack_get_bucket_props", "riack_get_bucket_type_props", "riack_ping"}
SingleRespCode == Only(ResponseCode, SingleOps)
SingleCallback == Only(CallbackKind, SingleOps)

(* A streamed answer, and one of another code. *)
StreamOps == {"riack_list_keys", "riack_ping"}
StreamRespCode == Only(ResponseCode, StreamOps)
StreamCallback == Only(CallbackKind, StreamOps)

(* After which results the application reconnects. *)
OnFailedConnection == {RIACK_ERROR_COMMUNICATION}
OnBrokenReply == {RIACK_ERROR_COMMUNICATION, RIACK_FAILED_PB_UNPACK}
OnAnyFailure == Results \ {RIACK_SUCCESS}
=============================================================================
