-------------------------- MODULE RiackBucketProps --------------------------
(***************************************************************************)
(* Bucket properties (riack.c): an application reads the properties of a   *)
(* bucket or of a bucket type, changes some, and later sets back what it   *)
(* read, while other clients change properties too.  What is at stake is   *)
(* the two conversions between RpbBucketProps and riack_bucket_properties, *)
(* and who frees what they copy.                                           *)
(*                                                                         *)
(* A value that may be missing is a sequence of at most one value.  On the *)
(* wire a list of hooks comes with a flag, has_precommit or has_postcommit, *)
(* which may be missing too.                                               *)
(***************************************************************************)
EXTENDS Naturals, SequencesExt

CONSTANTS
    Initial,    \* properties the node can have at first
    OwnRecords, \* records the application fills in itself
    Foreign,    \* changes of other clients: pairs of a name and a value
    MaxSets,    \* bound: changes of the node's properties
    MaxGets     \* bound: records read

(* The properties copied as they are, by the macro in each direction. *)
PlainFromRpb ==
    {"allow_mult", "basic_quorum", "big_vclock", "dw", "last_write_wins", "notfound_ok",
     "n_val", "old_vclock", "pr", "pw", "r", "rw", "search", "small_vclock", "w",
     "young_vclock", "consistent"}

(* Mutant: the newest property is forgotten. *)
PlainToRpb_Older == PlainFromRpb \ {"consistent"}

PlainToRpb ==
    {"allow_mult", "basic_quorum", "big_vclock", "small_vclock", "young_vclock",
     "old_vclock", "dw", "w", "pw", "rw", "pr", "r", "n_val", "last_write_wins",
     "notfound_ok", "search", "consistent"}

HookLists == {"precommit", "postcommit"}
ModFuns == {"chash_keyfun", "linkfun"}
Strings == {"backend", "datatype", "search_index"}
Names == PlainFromRpb \cup HookLists \cup ModFuns \cup Strings \cup {"repl"}

Places == {"bucket", "bucket type"}
None == <<>>
Some(value) == <<value>>

VARIABLES
    props,    \* [Places -> the node's properties]
    held,     \* what the application's pointer points to: a record, or None
    freed,    \* whether the application has freed that record
    from,     \* the place it read it from
    original, \* the properties that place had then
    heap,     \* blocks of such records nobody has freed, by what they hold
    sets, gets

vars == <<props, held, freed, from, original, heap, sets, gets>>

Absent == [name \in Names |-> None]

Init ==
    /\ props \in [Places -> Initial]
    /\ held = None
    /\ freed = FALSE
    /\ from = "bucket"
    /\ original = Absent
    /\ heap = [part \in Names \cup {"record"} |-> 0]
    /\ sets = 0
    /\ gets = 0

-----------------------------------------------------------------------------
(* The conversions. *)

REALTIME_AND_FULLSYNC == 1
REALTIME == 2
FULLSYNC == 3
DISABLED == 4

ReplicationMode(repl) ==
    CASE repl = "TRUE" -> REALTIME_AND_FULLSYNC
      [] repl = "REALTIME" -> REALTIME
      [] repl = "FULLSYNC" -> FULLSYNC
      [] OTHER -> DISABLED

ReplMode(mode) ==
    CASE mode = REALTIME_AND_FULLSYNC -> "TRUE"
      [] mode = REALTIME -> "REALTIME"
      [] mode = FULLSYNC -> "FULLSYNC"
      [] OTHER -> "FALSE"

(* A function and its module; the zeroed one of a hook that has none. *)
NoModFun == [module |-> "", function |-> ""]
ModFun(rpb) == IF rpb = None THEN NoModFun ELSE rpb[1]

HookFromRpb(rpb) ==
    [name |-> IF rpb.name = None THEN "" ELSE rpb.name[1], modfun |-> ModFun(rpb.modfun)]

(* Mutant: the test for a name is the wrong way round. *)
HookToRpb_Inverted(hook) ==
    [name |-> IF hook.name # "" THEN None ELSE Some(hook.name),
     modfun |-> IF hook.name # "" THEN Some(hook.modfun) ELSE None]

(* A JavaScript hook has a name, any other is an Erlang function. *)
HookToRpb(hook) ==
    [name |-> IF hook.name # "" THEN Some(hook.name) ELSE None,
     modfun |-> IF hook.name # "" THEN None ELSE Some(hook.modfun)]

HooksFromRpb(hooks) == [i \in DOMAIN hooks |-> HookFromRpb(hooks[i])]
HooksToRpb(hooks) == [i \in DOMAIN hooks |-> HookToRpb(hooks[i])]

ValueFromRpb(name, value) ==
    IF name \in HookLists THEN HooksFromRpb(value.hooks)
    ELSE IF name = "repl" THEN ReplicationMode(value)
    ELSE value

ValueToRpb(name, value) ==
    IF name \in HookLists THEN [flag |-> Some(TRUE), hooks |-> HooksToRpb(value)]
    ELSE IF name = "repl" THEN ReplMode(value)
    ELSE value

(* The copies of datatype and search_index come without their mark; backend has
   none, its length tells. *)
MarkedFromRpb(name) == name \notin Strings

(* A list is looked at when its flag is there, whichever value the flag has. *)
Taken(name, rpb) == rpb[name] # None /\ (name \in HookLists => rpb[name][1].flag # None)

FromRpb(rpb) ==
    [name \in Names |->
        [use |-> Taken(name, rpb) /\ MarkedFromRpb(name),
         value |-> IF Taken(name, rpb) THEN Some(ValueFromRpb(name, rpb[name][1])) ELSE None]]

(* Mutant: has_backend is set without a look at the length. *)
Packed_BackendAlways(name, record) == name = "backend" \/ record[name].use

(* Whether a property of the record is part of the request. *)
Packed(name, record) ==
    CASE name = "backend" -> record[name].value \notin {None, Some("")}
      [] name \in PlainFromRpb -> name \in PlainToRpb /\ record[name].use
      [] OTHER -> record[name].use

(* A marked member without a value goes out empty. *)
ToRpb(record) ==
    [name \in Names |->
        IF ~Packed(name, record) THEN None
        ELSE IF record[name].value = None THEN Some("")
        ELSE Some(ValueToRpb(name, record[name].value[1]))]

-----------------------------------------------------------------------------
(* The values there can be.  A list of hooks is finite and its flag true: a node
   that has no list leaves both out (riak.proto:113-116, the flag is false by
   default).  A hook of the node has a name, or else a function; a bucket without
   a backend has no such property. *)

NodeHook(rpb) ==
    \/ rpb.name # None /\ rpb = [name |-> Some(rpb.name[1]), modfun |-> None] /\ rpb.name[1] # ""
    \/ rpb.modfun # None /\ rpb = [name |-> None, modfun |-> Some(rpb.modfun[1])]

NodeHooks(hooks) ==
    /\ hooks = [i \in DOMAIN hooks |-> hooks[i]]
    /\ IsFiniteSet(DOMAIN hooks)
    /\ \A i \in DOMAIN hooks : NodeHook(hooks[i])

NodeValue(name, value) ==
    /\ name \in HookLists => /\ value = [flag |-> Some(TRUE), hooks |-> value.hooks]
                             /\ NodeHooks(value.hooks)
    /\ name = "repl" => value \in {"TRUE", "REALTIME", "FULLSYNC", "FALSE"}
    /\ name = "backend" => value # ""

NodeProps(rpb) ==
    /\ rpb = [name \in Names |-> rpb[name]]
    /\ \A name \in Names : rpb[name] # None =>
          rpb[name] = Some(rpb[name][1]) /\ NodeValue(name, rpb[name][1])

(* The application fills in one or the other of a hook, and what it marks. *)
OwnHook(hook) ==
    /\ hook = [name |-> hook.name, modfun |-> hook.modfun]
    /\ hook.name # "" => hook.modfun = NoModFun

OwnValue(name, value) ==
    /\ name \in HookLists => /\ value = [i \in DOMAIN value |-> value[i]]
                             /\ IsFiniteSet(DOMAIN value)
                             /\ \A i \in DOMAIN value : OwnHook(value[i])
    /\ name = "repl" => value \in {REALTIME_AND_FULLSYNC, REALTIME, FULLSYNC, DISABLED}
    /\ name = "backend" => value # ""

OwnRecord(record) ==
    \A name \in Names :
        /\ record[name].use => record[name].value # None
        /\ record[name].value # None =>
              /\ record[name].value = Some(record[name].value[1])
              /\ OwnValue(name, record[name].value[1])

ASSUME ValuesAssumption ==
    /\ \A rpb \in Initial : NodeProps(rpb)
    /\ \A change \in Foreign : change[1] \in Names /\ NodeValue(change[1], change[2])
    /\ \A record \in OwnRecords : OwnRecord(record)

-----------------------------------------------------------------------------
(* Memory. *)

StringBlocks(string) == IF string = "" THEN 0 ELSE 1
ModFunBlocks(modfun) == StringBlocks(modfun.module) + StringBlocks(modfun.function)
HookBlocks(hook) == StringBlocks(hook.name) + ModFunBlocks(hook.modfun)

(* The blocks behind one property of a record. *)
Blocks(name, value) ==
    IF value = None THEN 0
    ELSE CASE name \in Strings -> StringBlocks(value[1])
           [] name \in ModFuns -> ModFunBlocks(value[1])
           [] name \in HookLists ->
                IF value[1] = <<>> THEN 0
                ELSE 1 + MapThenSumSet(LAMBDA i : HookBlocks(value[1][i]), DOMAIN value[1])
           [] OTHER -> 0

(* Mutant: the functions of the hooks are not freed. *)
HookBlocksFreed_NameOnly(hook) == StringBlocks(hook.name)

HookBlocksFreed(hook) == HookBlocks(hook)

(* Freed only under the mark, in full. *)
FreedIfMarked(name, record) == IF record[name].use THEN 1 ELSE 0

(* What riack_free_bucket_properties_p frees of a property. *)
Freed(name, record) ==
    LET value == record[name].value
    IN  IF value = None THEN 0
        ELSE CASE name = "backend" -> StringBlocks(value[1])
               [] name \in HookLists ->
                    IF value[1] = <<>> THEN 0
                    ELSE 1 + MapThenSumSet(LAMBDA i : HookBlocksFreed(value[1][i]),
                                           DOMAIN value[1])
               [] OTHER -> FreedIfMarked(name, record) * Blocks(name, value)

-----------------------------------------------------------------------------
(* The application's calls. *)

(* The application reads again once it has freed what it read before; what it has
   freed it no longer uses, though its pointer still points there. *)
MayRead == (held = None \/ freed) /\ gets < MaxGets

(* riack_get_bucket_base, riack_get_bucket_type_props.  The out parameter is set to
   NULL before the command, so that one that fails leaves no record. *)
GetFails ==
    /\ MayRead
    /\ gets' = gets + 1
    /\ held' = None
    /\ freed' = FALSE
    /\ UNCHANGED <<props, from, original, heap, sets>>

Get(place) ==
    /\ MayRead
    /\ gets' = gets + 1
    /\ held' = Some(FromRpb(props[place]))
    /\ freed' = FALSE
    /\ from' = place
    /\ original' = props[place]
    /\ heap' = [part \in DOMAIN heap |->
                  heap[part] + IF part = "record" THEN 1 ELSE Blocks(part, held'[1][part].value)]
    /\ UNCHANGED <<props, sets>>

(* The node changes the properties of the request and no others (external). *)
Merge(old, request) ==
    [name \in Names |-> IF request[name] = None THEN old[name] ELSE request[name]]

(* riack_set_bucket_props_ext, riack_set_bucket_type_props.  The record stays the
   application's.  A command that fails is this step, if the node has carried it
   out, or none. *)
Set(place, record) ==
    /\ sets < MaxSets
    /\ sets' = sets + 1
    /\ props' = [props EXCEPT ![place] = Merge(@, ToRpb(record))]
    /\ UNCHANGED <<held, freed, from, original, heap, gets>>

SetOwn == \E place \in Places, record \in OwnRecords : Set(place, record)

(* Set, of the record the application has read, where it read it. *)
SetBack == held # None /\ ~freed /\ Set(from, held[1])

(* riack_free_bucket_properties_p leaves the caller's pointer as it was. *)
Free ==
    /\ held # None /\ ~freed
    /\ freed' = TRUE
    /\ heap' = [part \in DOMAIN heap |->
                  heap[part] - IF part = "record" THEN 1 ELSE Freed(part, held[1])]
    /\ UNCHANGED <<props, held, from, original, sets, gets>>

(* Another client sets a property (external). *)
Other ==
    /\ sets < MaxSets
    /\ sets' = sets + 1
    /\ \E place \in Places, change \in Foreign :
          props' = [props EXCEPT ![place] = [@ EXCEPT ![change[1]] = Some(change[2])]]
    /\ UNCHANGED <<held, freed, from, original, heap, gets>>

Next == (\E place \in Places : Get(place)) \/ GetFails \/ SetOwn \/ SetBack \/ Free \/ Other

Spec == Init /\ [][Next]_vars

-----------------------------------------------------------------------------
(* Properties. *)

Unmarked == {"datatype", "search_index"}

(* Setting back what was read gives every property the value it was read with,
   whatever the application and other clients have set since: all that
   riack_set_rpb_bucket_props packs of a record riack_riack_bucket_props_from_rpb
   made, which leaves out datatype and search_index. *)
RestoresMarked ==
    [][SetBack => \A name \in Names \ Unmarked :
                    original[name] # None => props'[from][name] = original[name]]_vars

(* Setting back touches nothing that was not there when the record was read: a
   zeroed member is no value. *)
LeavesRest ==
    [][SetBack => \A name \in Names :
                    original[name] = None => props'[from][name] = props[from][name]]_vars

(* A record the application has filled in is what it reads afterwards from the
   place it set it on, hooks and replication mode included. *)
ReadsBack ==
    [][\A place \in Places, record \in OwnRecords :
          Set(place, record) =>
             \A name \in Names :
                record[name].use => FromRpb(props'[place])[name].value = record[name].value]_vars

(* When the application has freed what it read, each block of it has been freed
   once, and nothing of it is left but the strings whose mark was never set:
   datatype and search_index leak. *)
FreesMarked ==
    held = None \/ freed => \A part \in DOMAIN heap \ Unmarked : heap[part] = 0

=============================================================================
