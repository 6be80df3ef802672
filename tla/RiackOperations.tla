--------------------------- MODULE RiackOperations ---------------------------
(***************************************************************************)
(* The API functions of riack.h as riack_perform_commmand sees them: the   *)
(* pb_command table of riack_commands.c and, per function, the kind of its *)
(* response callback.                                                      *)
(***************************************************************************)
EXTENDS Naturals

(* protocol/riak_msg_codes.h *)
mc_RpbErrorResp == 0

(* resp_msg_code of the pb_command each function passes. *)
ResponseCode ==
    [riack_ping |-> 2, riack_get_clientid |-> 4, riack_set_clientid |-> 6,
     riack_server_info |-> 8, riack_get |-> 10, riack_put |-> 12,
     riack_delete |-> 14, riack_list_buckets |-> 16, riack_list_keys |-> 18,
     riack_stream_keys |-> 18, riack_get_bucket_props |-> 20,
     riack_get_bucket_type_props |-> 20, riack_set_bucket_props |-> 22,
     riack_set_bucket_type_props |-> 22, riack_map_reduce |-> 24,
     riack_map_reduce_stream |-> 24, riack_2i_query |-> 26,
     riack_2i_query_stream |-> 26, riack_search |-> 28,
     riack_reset_bucket_props |-> 30, riack_counter_increment |-> 51,
     riack_counter_get |-> 53]

AllOps == DOMAIN ResponseCode

(* Callbacks that return RIACK_CMD_CONTINUE until has_done and done are set. *)
StreamingOps ==
    {"riack_list_keys", "riack_stream_keys", "riack_map_reduce",
     "riack_map_reduce_stream", "riack_2i_query_stream"}

(* Functions that pass no callback: the code alone is the answer. *)
PlainOps ==
    {"riack_ping", "riack_set_clientid", "riack_delete", "riack_set_bucket_props",
     "riack_set_bucket_type_props", "riack_reset_bucket_props"}

CallbackKind ==
    [op \in AllOps |-> CASE op \in StreamingOps -> "stream"
                         [] op \in PlainOps -> "none"
                         [] OTHER -> "once"]

Only(f, ops) == [op \in ops |-> f[op]]

=============================================================================
