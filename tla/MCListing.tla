------------------------------ MODULE MCListing ------------------------------
(* Values of RiackListing's constants for TLC. *)
EXTENDS RiackListing

(* Two types, so that a request that names the wrong one gets other keys.  The
   exact query only for the default type: asked of another it is answered for
   the default one, whose type it fills in without has_type (riack_2i.c:99). *)
TypedUses ==
    {"riack_list_keys", "riack_list_buckets", "riack_2i_query", "riack_2i_query_stream"}
        \X {"default", "custom"}
PassingUses == TypedUses \cup {<<"riack_2i_query_exact", "default">>}

=============================================================================
