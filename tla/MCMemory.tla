------------------------------ MODULE MCMemory ------------------------------
(* Values of RiackMemory's constants for TLC: nothing, everything, and the
   empty strings that are there and have no block. *)
EXTENDS RiackMemory

Pairs == <<[key |-> 1, value |-> <<1>>], [key |-> 1, value |-> <<>>], [key |-> 0, value |-> <<0>>]>>
Links == <<[bucket |-> <<1>>, key |-> <<0>>, tag |-> <<>>], [bucket |-> <<1>>, key |-> <<1>>, tag |-> <<1>>]>>

Bare == [charset |-> <<>>, content_encoding |-> <<>>, content_type |-> <<>>, vtag |-> <<>>,
         data |-> 0, indexes |-> <<>>, usermeta |-> <<>>, links |-> <<>>]
Plain == [Bare EXCEPT !.content_type = <<1>>, !.charset = <<0>>, !.data = 1]
Rich == [charset |-> <<1>>, content_encoding |-> <<1>>, content_type |-> <<1>>, vtag |-> <<1>>,
         data |-> 1, indexes |-> Pairs, usermeta |-> SubSeq(Pairs, 1, 1), links |-> Links]

ToPut == {[bucket |-> 1, key |-> <<>>, vclock |-> <<>>, content |-> Bare],
          [bucket |-> 1, key |-> <<1>>, vclock |-> <<1>>, content |-> Rich],
          [bucket |-> 1, key |-> <<0>>, vclock |-> <<>>, content |-> Plain]}

Objects == {[key |-> <<>>, vclock |-> <<>>, content |-> <<>>],
            [key |-> <<1>>, vclock |-> <<1>>, content |-> <<Rich, Plain>>],
            [key |-> <<0>>, vclock |-> <<0>>, content |-> <<Bare>>]}

(* The reply to a get names no key. *)
Fetched == {[o EXCEPT !.key = <<>>] : o \in Objects}

NoParams == [df |-> <<>>, op |-> <<>>, filter |-> <<>>, presort |-> <<>>, sort |-> <<>>, fl |-> <<>>]
Function == [function |-> 1, module |-> 1]
Props == [backend |-> <<1>>, search_index |-> <<>>, datatype |-> <<1>>,
          chash_keyfun |-> <<Function>>, linkfun |-> <<>>,
          precommit |-> <<[name |-> 1, modfun |-> Function], [name |-> 0, modfun |-> Function]>>,
          postcommit |-> <<>>]

Request(kind, args) == [kind |-> kind, args |-> args, wanted |-> TRUE]
Unwanted(kind, args) == [kind |-> kind, args |-> args, wanted |-> FALSE]

MCRequests ==
    {Request("get", opt) : opt \in {<<>>, <<1>>}}
    \cup {Request("put", o) : o \in ToPut}
    \cup {Unwanted("put", CHOOSE o \in ToPut : o.content = Rich)}
    \cup {Unwanted("put_simple", CHOOSE o \in ToPut : o.content = Plain)}
    \cup {Unwanted("delete", opt) : opt \in {<<>>, <<1>>}}
    \cup {Request("search", NoParams), Request("search", [NoParams EXCEPT !.df = <<1>>, !.fl = <<1, 0>>])}
    \cup {Unwanted("set_props", Props)}
    \cup {Request(kind, <<>>) : kind \in {"list_buckets", "list_keys", "map_reduce",
                                        "get_clientid", "server_info"}}

MCReplies ==
    [get |-> Fetched, put |-> Objects, put_simple |-> Objects, delete |-> {<<>>},
     set_props |-> {<<>>},
     search |-> {<<>>, <<Pairs, <<>>>>}, list_buckets |-> {<<>>, <<1, 0, 1>>},
     get_clientid |-> {0, 1},
     server_info |-> {[node |-> <<1>>, server_version |-> <<>>], [node |-> <<0>>, server_version |-> <<1>>]},
     list_keys |-> {<<>>, <<1>>, <<0, 1>>}, map_reduce |-> {<<<<1>>>>, <<<<0>>>>, <<<<>>>>}]
=============================================================================
