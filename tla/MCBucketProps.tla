---------------------------- MODULE MCBucketProps ----------------------------
(* Values of RiackBucketProps's constants for TLC. *)
EXTENDS RiackBucketProps

With(base, values) ==
    [name \in Names |-> IF name \in DOMAIN values THEN Some(values[name]) ELSE base[name]]

JsHook == [name |-> Some("f"), modfun |-> None]
ErlangHook == [name |-> None, modfun |-> Some([module |-> "m", function |-> "f"])]

List(hooks) == [flag |-> Some(TRUE), hooks |-> hooks]

(* What the node always has, with every plain property set to the same value. *)
Plain(value) == With(Absent, [name \in PlainFromRpb |-> value])

Initials ==
    {With(Plain(0),
          [repl |-> "REALTIME", linkfun |-> [module |-> "m", function |-> "f"],
           chash_keyfun |-> [module |-> "m", function |-> "f"],
           precommit |-> List(<<JsHook, ErlangHook>>), postcommit |-> List(<<>>), backend |-> "b",
           search_index |-> "i"]),
     With(Plain(1), [repl |-> "TRUE", precommit |-> List(<<>>), datatype |-> "map"]),
     Absent}

(* Own records: hooks of both kinds, replication off, some plain properties, and
   an index. *)
Own(values) ==
    [name \in Names |->
        IF name \in DOMAIN values THEN [use |-> TRUE, value |-> Some(values[name])]
        ELSE [use |-> FALSE, value |-> None]]

Records ==
    {Own([allow_mult |-> 1, n_val |-> 3, consistent |-> 1]),
     Own([precommit |-> <<[name |-> "", modfun |-> [module |-> "m", function |-> "g"]]>>,
          postcommit |-> <<[name |-> "g", modfun |-> NoModFun]>>,
          repl |-> DISABLED, backend |-> "c", search_index |-> "j"])}

OthersChanges ==
    {<<"consistent", 2>>, <<"repl", "FULLSYNC">>, <<"backend", "d">>,
     <<"search_index", "k">>}

=============================================================================
