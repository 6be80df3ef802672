---------------------------- MODULE RiackListing ----------------------------
(***************************************************************************)
(* Results that are put together: listing keys and buckets (riack_kv.c)    *)
(* and secondary index queries (riack_2i.c), with the lists they build     *)
(* (riack_helpers.c), the continuation token, and an application that asks *)
(* page after page until there is no token left, while other clients       *)
(* change what is listed.                                                  *)
(*                                                                         *)
(* A command is what RequestReply says of riack_perform_commmand: its      *)
(* messages reach the callback in order.  The node is external.            *)
(***************************************************************************)
EXTENDS Naturals, Sequences, FiniteSets, Functions

CONSTANTS
    Keys,        \* what can be listed; the order of the numbers is the node's
    Types,       \* the bucket types
    DefaultType, \* the type of a request that names none
    Uses,        \* the calls the application makes: pairs of a function and a type
    PageSize,    \* max_results of a paged query
    MaxChanges,  \* bound: changes by other clients
    MaxFailures  \* bound: commands that fail

Apis == {"riack_list_keys", "riack_list_buckets", "riack_2i_query_exact",
         "riack_2i_query", "riack_2i_query_stream"}

ASSUME ListingAssumption ==
    /\ Keys \subseteq Nat \ {0} /\ IsFiniteSet(Keys)
    /\ DefaultType \in Types
    /\ Uses \subseteq Apis \X Types
    /\ PageSize \in Nat \ {0}
    /\ MaxChanges \in Nat
    /\ MaxFailures \in Nat

VARIABLES
    listed,      \* [Types -> SUBSET Keys]: what the node would list now
    always,      \* the keys of the type asked for that have been listed all along
    ever,        \* the keys of that type that have been listed at some time
    use,         \* the function and the type the application asks for
    pc,          \* "ready", "sent", "reading", "begun", "success", "failure", "done"
    page,        \* what the node has still to send of the answer
    pageToken,   \* the continuation it sends with the last message, or None
    list,        \* what the out parameter points to: <<strings>>, or Null
    tokenIn,     \* req->continuation_token, or None
    tokenOut,    \* *continuation_token_out, or None
    got,         \* the keys the application has, in the order it was given them
    kept,        \* the first so many of which it had before this command
    heap,        \* blocks the library has allocated and nobody has freed
    broken,      \* a stream has broken off and was reported as a success
    changes, failures

nodeVars == <<listed, always, ever, changes>>
answerVars == <<page, pageToken>>
appVars == <<tokenIn, got, kept>>
vars == <<nodeVars, use, pc, answerVars, list, tokenOut, appVars, heap, broken, failures>>

None == 0
Null == <<>>

Api == use[1]
Type == use[2]

(* riack_stream_keys_ext_cb and riack_2i_query_cb with a callback of the user's. *)
Streams == Api \in {"riack_list_keys", "riack_2i_query_stream"}

(* Functions with an out parameter for the continuation. *)
Pages == Api \in {"riack_2i_query", "riack_2i_query_stream"}

(* The linked list of riack_list_keys grows; the others fill an array. *)
Links == Api = "riack_list_keys"
Arrays == Api \in {"riack_list_buckets", "riack_2i_query_exact", "riack_2i_query"}

TypeOK ==
    /\ listed \in [Types -> SUBSET Keys]
    /\ always \subseteq ever /\ ever \subseteq Keys
    /\ use \in Uses
    /\ pc \in {"ready", "sent", "reading", "begun", "success", "failure", "done"}
    /\ page \in Seq(Keys) /\ got \in Seq(Keys)
    /\ list = Null \/ (list = <<list[1]>> /\ list[1] \in Seq(Keys))
    /\ {pageToken, tokenIn, tokenOut} \subseteq Keys \cup {None}
    /\ kept \in 0 .. Len(got)
    /\ heap \in Nat
    /\ broken \in BOOLEAN
    /\ changes \in 0 .. MaxChanges /\ failures \in 0 .. MaxFailures

Init ==
    /\ listed \in [Types -> SUBSET Keys]
    /\ use \in Uses
    /\ always = listed[Type]
    /\ ever = listed[Type]
    /\ pc = "ready"
    /\ page = <<>>
    /\ pageToken = None
    /\ list = Null
    /\ tokenIn = None
    /\ tokenOut = None
    /\ got = <<>>
    /\ kept = 0
    /\ heap = 0
    /\ broken = FALSE
    /\ changes = 0
    /\ failures = 0

-----------------------------------------------------------------------------
(* Memory. *)

StringsOf(l) == IF l = Null THEN <<>> ELSE l[1]

(* Blocks behind a list: one for an array's descriptor and one for the array; one
   per link; and the bytes of every string. *)
ListBlocks(l) ==
    LET n == Len(StringsOf(l))
    IN  IF l = Null THEN 0
        ELSE IF Links THEN 2 * n
        ELSE 1 + (IF n = 0 THEN 0 ELSE 1 + n)

(* What the callback adds for k keys: links, or an array with its strings. *)
KeyBlocks(k) ==
    IF Links THEN 2 * k ELSE IF Arrays /\ k > 0 THEN 1 + k ELSE 0

(* A riack_string and its bytes. *)
TokenBlocks(token) == IF token = None THEN 0 ELSE 2

-----------------------------------------------------------------------------
(* The request. *)

(* Mutant: no function sets has_type. *)
PackedType_Never == DefaultType

(* has_type is set by riack_set_index_req_from_riack_req and by
   RIACK_SET_BUCKETTYPE_AND_TIMEOUT, not by the exact and ranged queries: a type
   without it is not packed. *)
PackedType == IF Api = "riack_2i_query_exact" THEN DefaultType ELSE Type

PackedToken == tokenIn

(* The function allocates the list of an array before it sends, and sets a linked
   list to NULL. *)
Ask ==
    /\ pc = "ready"
    /\ pc' = "sent"
    /\ kept' = Len(got)
    /\ list' = IF Arrays THEN << <<>> >> ELSE Null
    /\ heap' = heap + IF Arrays THEN 1 ELSE 0
    /\ UNCHANGED <<nodeVars, use, answerVars, tokenIn, tokenOut, got, broken, failures>>

-----------------------------------------------------------------------------
(* The node (external). *)

(* Another client adds or removes a key. *)
Change ==
    /\ pc # "done"
    /\ changes < MaxChanges
    /\ changes' = changes + 1
    /\ \E type \in Types, key \in Keys :
          \E now \in {listed[type] \cup {key}, listed[type] \ {key}} :
              /\ now # listed[type]
              /\ listed' = [listed EXCEPT ![type] = now]
    /\ always' = always \cap listed'[Type]
    /\ ever' = ever \cup listed'[Type]
    /\ UNCHANGED <<use, pc, answerVars, list, tokenOut, appVars, heap, broken, failures>>

(* A set of keys in the order of their numbers. *)
Ascending(s) == \A i, j \in DOMAIN s : i < j => s[i] < s[j]

Sorted(keys) ==
    {s \in [1 .. Cardinality(keys) -> keys] : Range(s) = keys /\ Ascending(s)}

(* The node reads the request: the next PageSize keys after the token, and a new
   token if there may be more; everything for a query that is not paged. *)
Serve ==
    /\ pc = "sent"
    /\ pc' = "reading"
    /\ \E rest \in Sorted({key \in listed[PackedType] : key > PackedToken}) :
          LET size == IF Pages /\ PageSize < Len(rest) THEN PageSize ELSE Len(rest)
          IN  /\ page' = SubSeq(rest, 1, size)
              /\ \/ Pages /\ size = PageSize /\ pageToken' = rest[size]
                 \/ ~(Pages /\ size < Len(rest)) /\ pageToken' = None
    /\ UNCHANGED <<nodeVars, use, list, tokenOut, appVars, heap, broken, failures>>

-----------------------------------------------------------------------------
(* The callbacks. *)

(* Mutant: the keys go to the head of the linked list. *)
Linked_AtHead(l, keys) == IF keys = <<>> THEN l ELSE <<keys \o StringsOf(l)>>

(* riack_string_linked_list_add for each key; an empty list stays NULL. *)
Linked(l, keys) == IF keys = <<>> THEN l ELSE <<StringsOf(l) \o keys>>

(* What a message's keys become: a longer linked list, a filled array in place of
   whatever the descriptor pointed to, or calls of the user's callback. *)
TakeKeys(keys) ==
    /\ list' = IF Links THEN Linked(list, keys) ELSE IF Arrays THEN <<keys>> ELSE list
    /\ got' = IF Links \/ Arrays THEN got ELSE got \o keys

(* Mutant: a riack_string is allocated for every message. *)
NewBlocks_Always(k, token) == KeyBlocks(k) + IF Pages THEN 2 ELSE 0

(* What the callback allocates for a message with k keys. *)
NewBlocks(k, token) == KeyBlocks(k) + IF Pages THEN TokenBlocks(token) ELSE 0

(* Mutant: a chunk without keys ends the answer. *)
Continues_IfKeys(keys, done) == Streams /\ ~done /\ keys # <<>>

(* Mutant: a stream goes on whatever done says. *)
Continues_Always(keys, done) == Streams

Continues(keys, done) == Streams /\ ~done

(* A message of the answer: any number of the keys left in a stream, the last of
   which is marked done and can have keys or none; all of them otherwise.  A
   message without a continuation sets the out parameter to NULL. *)
Message ==
    /\ pc \in {"reading", "begun"}
    /\ \E k \in 0 .. Len(page), done \in BOOLEAN :
          /\ done \/ ~Streams => k = Len(page) /\ done
          /\ LET keys == SubSeq(page, 1, k)
                 token == IF done THEN pageToken ELSE None
             IN  /\ page' = SubSeq(page, k + 1, Len(page))
                 /\ TakeKeys(keys)
                 /\ tokenOut' = IF Pages THEN token ELSE tokenOut
                 /\ heap' = heap + NewBlocks(k, token)
                 /\ pc' = IF Continues(keys, done) THEN "begun" ELSE "success"
    /\ UNCHANGED <<nodeVars, use, pageToken, tokenIn, kept, broken, failures>>

(* The command fails: an error response, or a connection that fails.  Once a
   stream has begun the latter is reported as a success. *)
Fail ==
    /\ pc \in {"sent", "reading", "begun"}
    /\ failures < MaxFailures
    /\ failures' = failures + 1
    /\ \/ pc' = "failure" /\ UNCHANGED broken
       \/ pc = "begun" /\ pc' = "success" /\ broken' = TRUE
    /\ UNCHANGED <<nodeVars, use, answerVars, list, tokenOut, appVars, heap>>

-----------------------------------------------------------------------------
(* The application. *)

(* riack_free_string_list_p, riack_free_string_linked_list_p *)
FreedBlocks(l) == ListBlocks(l)

(* It takes the keys, frees the list, and asks for the next page with the new
   token, having freed the old one; without a token it is done. *)
UsePage ==
    /\ pc = "success"
    /\ got' = got \o StringsOf(list)
    /\ list' = Null
    /\ heap' = heap - FreedBlocks(list) - TokenBlocks(tokenIn)
    /\ tokenIn' = tokenOut
    /\ tokenOut' = None
    /\ pc' = IF tokenOut = None THEN "done" ELSE "ready"
    /\ UNCHANGED <<nodeVars, use, answerVars, kept, broken, failures>>

(* After a failure it drops what the command gave it, frees the list, which the
   function may have allocated all the same, and asks again. *)
Retry ==
    /\ pc = "failure"
    /\ pc' = "ready"
    /\ got' = SubSeq(got, 1, kept)
    /\ list' = Null
    /\ heap' = heap - FreedBlocks(list)
    /\ UNCHANGED <<nodeVars, use, answerVars, tokenIn, tokenOut, kept, broken, failures>>

Terminated == pc = "done" /\ UNCHANGED vars

Library == Ask \/ Message
Next == Library \/ Serve \/ Change \/ Fail \/ UsePage \/ Retry \/ Terminated

Spec == Init /\ [][Next]_vars

(* The node answers, and the application goes on to the last page. *)
FairSpec == Spec /\ WF_vars(Library \/ Serve \/ UsePage \/ Retry)

-----------------------------------------------------------------------------
(* Properties. *)

(* No key is given to the application twice, and none out of the node's order, over
   all pages, whatever other clients do between them and however often a page has
   to be asked for again. *)
InOrder == Ascending(got)

(* An application that has reached the last page has been given every key that was
   there all along, unless a stream broke off. *)
Complete == pc = "done" /\ ~broken => always \subseteq Range(got)

(* It is only given keys of the bucket type it asked for. *)
OnlyOfType == Range(got) \cup Range(StringsOf(list)) \subseteq ever

(* Every block the library has allocated can be reached from a pointer the
   application holds: nothing is lost when a list or a token is replaced, and
   nothing is freed twice. *)
HeapReachable ==
    heap = ListBlocks(list) + TokenBlocks(tokenIn) + TokenBlocks(tokenOut)

(* Paging comes to an end. *)
Ends == <>(pc = "done")

=============================================================================
