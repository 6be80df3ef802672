----------------------- MODULE RiackBucketPropsProofs -----------------------
(***************************************************************************)
(* Proofs about RiackBucketProps: the two conversions undo one another on  *)
(* every value a node can have, so that setting back a record restores     *)
(* what was read and touches nothing else.                                 *)
(***************************************************************************)
EXTENDS RiackBucketProps, FiniteSetTheorems, TLAPS

(* Induction over the natural numbers: the library states it for an operator,
   here the hypothesis is the set of the numbers that have the property. *)
LEMMA SetInduction ==
    ASSUME NEW T, 0 \in T, \A n \in Nat : n \in T => n + 1 \in T
    PROVE  Nat \subseteq T
<1> DEFINE R == Nat \ T
           Less == {pair \in Nat \X Nat : pair[1] < pair[2]}
<1> SUFFICES ASSUME R # {} PROVE FALSE
  OBVIOUS
<1>1. IsWellFoundedOn(Less, Nat)
  BY NatLessThanWellFounded DEF OpToRel
<1>2. PICK x \in R : \A y \in R : <<y, x>> \notin Less
  <2> HIDE DEF Less
  <2> QED
    BY <1>1, WFMin
<1>3. x \in Nat /\ x # 0
  OBVIOUS
<1>4. x - 1 \in Nat /\ <<x - 1, x>> \in Less
  BY <1>3
<1> QED
  BY <1>2, <1>3, <1>4

-----------------------------------------------------------------------------
LEMMA SomeIsNotNone == \A v : Some(v) # None /\ Some(v)[1] = v
BY DEF Some, None

(* Every property is of one kind. *)
LEMMA Kinds ==
    /\ PlainToRpb = PlainFromRpb
    /\ HookLists \subseteq Names /\ "repl" \in Names /\ "backend" \in Names
    /\ "repl" \notin HookLists /\ "backend" \notin HookLists
    /\ \A name \in PlainFromRpb : name \notin Strings /\ name # "backend"
    /\ "backend" \in Strings /\ Strings = Unmarked \cup {"backend"} /\ "backend" \notin Unmarked
    /\ \A name \in Unmarked : name \notin PlainFromRpb /\ name # "backend"
<1> USE DEF PlainToRpb, PlainFromRpb, HookLists, Names, Strings, Unmarked, ModFuns
<1>1. PlainToRpb = PlainFromRpb
  OBVIOUS
<1>2. HookLists \subseteq Names /\ "repl" \in Names /\ "backend" \in Names
  OBVIOUS
<1>3. "repl" \notin HookLists /\ "backend" \notin HookLists
  OBVIOUS
<1>4. \A name \in PlainFromRpb : name \notin Strings /\ name # "backend"
  OBVIOUS
<1>5. "backend" \in Strings /\ Strings = Unmarked \cup {"backend"} /\ "backend" \notin Unmarked
  OBVIOUS
<1>6. \A name \in Unmarked : name \notin PlainFromRpb /\ name # "backend"
  OBVIOUS
<1> QED
  BY <1>1, <1>2, <1>3, <1>4, <1>5, <1>6

-----------------------------------------------------------------------------
(* The conversions *)

(* A hook of the node survives both conversions. *)
LEMMA HookThere ==
    ASSUME NEW rpb, NodeHook(rpb)
    PROVE  HookToRpb(HookFromRpb(rpb)) = rpb
<1>1. CASE rpb.name # None /\ rpb = [name |-> Some(rpb.name[1]), modfun |-> None] /\ rpb.name[1] # ""
  <2>1. HookFromRpb(rpb).name = rpb.name[1]
    BY <1>1 DEF HookFromRpb
  <2>2. HookToRpb(HookFromRpb(rpb)) = [name |-> Some(rpb.name[1]), modfun |-> None]
    BY <1>1, <2>1 DEF HookToRpb
  <2> QED
    BY <1>1, <2>2
<1>2. CASE rpb.modfun # None /\ rpb = [name |-> None, modfun |-> Some(rpb.modfun[1])]
  <2>1. rpb.name = None
    BY <1>2
  <2>2. HookFromRpb(rpb).name = "" /\ HookFromRpb(rpb).modfun = rpb.modfun[1]
    BY <1>2, <2>1 DEF HookFromRpb, ModFun
  <2>3. HookToRpb(HookFromRpb(rpb)) = [name |-> None, modfun |-> Some(rpb.modfun[1])]
    BY <2>2 DEF HookToRpb
  <2> QED
    BY <1>2, <2>3
<1> QED
  BY <1>1, <1>2 DEF NodeHook

(* A hook of the application becomes one of the node, and is read back. *)
LEMMA HookBack ==
    ASSUME NEW hook, OwnHook(hook)
    PROVE  NodeHook(HookToRpb(hook)) /\ HookFromRpb(HookToRpb(hook)) = hook
<1>1. CASE hook.name # ""
  <2>1. HookToRpb(hook) = [name |-> Some(hook.name), modfun |-> None]
    BY <1>1 DEF HookToRpb
  <2> DEFINE rpb == HookToRpb(hook)
  <2>2. rpb.name = Some(hook.name) /\ rpb.modfun = None /\ rpb.name # None /\ rpb.name[1] = hook.name
    BY <2>1, SomeIsNotNone
  <2>3. NodeHook(rpb)
    BY <1>1, <2>1, <2>2 DEF NodeHook
  <2>4. HookFromRpb(rpb) = [name |-> hook.name, modfun |-> NoModFun]
    BY <2>2 DEF HookFromRpb, ModFun
  <2> QED
    BY <1>1, <2>3, <2>4 DEF OwnHook
<1>2. CASE hook.name = ""
  <2>1. HookToRpb(hook) = [name |-> None, modfun |-> Some(hook.modfun)]
    BY <1>2 DEF HookToRpb
  <2> DEFINE rpb == HookToRpb(hook)
  <2>2. rpb.name = None /\ rpb.modfun = Some(hook.modfun) /\ rpb.modfun # None /\ rpb.modfun[1] = hook.modfun
    BY <2>1, SomeIsNotNone
  <2>3. NodeHook(rpb)
    BY <2>1, <2>2 DEF NodeHook
  <2>4. HookFromRpb(rpb) = [name |-> "", modfun |-> hook.modfun]
    BY <2>2 DEF HookFromRpb, ModFun
  <2> QED
    BY <1>2, <2>3, <2>4 DEF OwnHook
<1> QED
  BY <1>1, <1>2

LEMMA ReplThere ==
    \A repl \in {"TRUE", "REALTIME", "FULLSYNC", "FALSE"} : ReplMode(ReplicationMode(repl)) = repl
BY DEF ReplMode, ReplicationMode, REALTIME_AND_FULLSYNC, REALTIME, FULLSYNC, DISABLED

LEMMA ReplBack ==
    \A mode \in {REALTIME_AND_FULLSYNC, REALTIME, FULLSYNC, DISABLED} :
        /\ ReplMode(mode) \in {"TRUE", "REALTIME", "FULLSYNC", "FALSE"}
        /\ ReplicationMode(ReplMode(mode)) = mode
BY DEF ReplMode, ReplicationMode, REALTIME_AND_FULLSYNC, REALTIME, FULLSYNC, DISABLED

LEMMA ValueThere ==
    ASSUME NEW name \in Names, NEW value, NodeValue(name, value)
    PROVE  ValueToRpb(name, ValueFromRpb(name, value)) = value
<1>1. CASE name \in HookLists
  <2> DEFINE hooks == value.hooks
             record == HooksFromRpb(hooks)
  <2>1. record = [i \in DOMAIN hooks |-> HookFromRpb(hooks[i])]
    BY DEF HooksFromRpb
  <2>2. HooksToRpb(record) = [i \in DOMAIN record |-> HookToRpb(record[i])]
    BY DEF HooksToRpb
  <2>3. value = [flag |-> Some(TRUE), hooks |-> hooks] /\ NodeHooks(hooks)
    BY <1>1 DEF NodeValue
  <2>4. ValueToRpb(name, ValueFromRpb(name, value)) = [flag |-> Some(TRUE), hooks |-> HooksToRpb(record)]
    BY <1>1 DEF ValueToRpb, ValueFromRpb
  <2> HIDE DEF record, hooks
  <2>5. HooksToRpb(record) = [i \in DOMAIN hooks |-> HookToRpb(HookFromRpb(hooks[i]))]
    BY <2>1, <2>2
  <2>6. \A i \in DOMAIN hooks : HookToRpb(HookFromRpb(hooks[i])) = hooks[i]
    BY <2>3, HookThere DEF NodeHooks
  <2>7. hooks = [i \in DOMAIN hooks |-> hooks[i]]
    BY <2>3 DEF NodeHooks
  <2>8. HooksToRpb(record) = hooks
    BY <2>5, <2>6, <2>7
  <2> QED
    BY <2>3, <2>4, <2>8
<1>2. CASE name = "repl"
  BY <1>2, ReplThere, Kinds DEF ValueFromRpb, ValueToRpb, NodeValue
<1>3. CASE name \notin HookLists /\ name # "repl"
  BY <1>3 DEF ValueFromRpb, ValueToRpb
<1> QED
  BY <1>1, <1>2, <1>3

LEMMA ValueBack ==
    ASSUME NEW name \in Names, NEW value, OwnValue(name, value)
    PROVE  /\ NodeValue(name, ValueToRpb(name, value))
           /\ ValueFromRpb(name, ValueToRpb(name, value)) = value
<1>1. CASE name \in HookLists
  <2> DEFINE rpb == HooksToRpb(value)
  <2>1. rpb = [i \in DOMAIN value |-> HookToRpb(value[i])]
    BY DEF HooksToRpb
  <2>2. HooksFromRpb(rpb) = [i \in DOMAIN rpb |-> HookFromRpb(rpb[i])]
    BY DEF HooksFromRpb
  <2>10. ValueToRpb(name, value) = [flag |-> Some(TRUE), hooks |-> rpb]
    BY <1>1 DEF ValueToRpb
  <2>3. name # "repl" /\ name # "backend"
    BY <1>1, Kinds
  <2> HIDE DEF rpb
  <2>4. \A i \in DOMAIN value : NodeHook(HookToRpb(value[i])) /\ HookFromRpb(HookToRpb(value[i])) = value[i]
    BY <1>1, HookBack DEF OwnValue
  <2>5. value = [i \in DOMAIN value |-> value[i]] /\ IsFiniteSet(DOMAIN value)
    BY <1>1 DEF OwnValue
  <2>6. DOMAIN rpb = DOMAIN value /\ \A i \in DOMAIN value : rpb[i] = HookToRpb(value[i])
    BY <2>1
  <2>7. HooksFromRpb(rpb) = value
    BY <2>2, <2>4, <2>5, <2>6
  <2>11. ValueFromRpb(name, ValueToRpb(name, value)) = value
    BY <1>1, <2>7, <2>10 DEF ValueFromRpb
  <2>8. rpb = [i \in DOMAIN rpb |-> rpb[i]] /\ IsFiniteSet(DOMAIN rpb) /\ \A i \in DOMAIN rpb : NodeHook(rpb[i])
    BY <2>1, <2>4, <2>5, <2>6
  <2> DEFINE sent == ValueToRpb(name, value)
  <2> HIDE DEF sent
  <2>12. sent = [flag |-> Some(TRUE), hooks |-> rpb]
    BY <2>10 DEF sent
  <2>13. sent.hooks = rpb
    BY <2>12
  <2>14. NodeHooks(sent.hooks) /\ sent = [flag |-> Some(TRUE), hooks |-> sent.hooks]
    BY <2>8, <2>12, <2>13 DEF NodeHooks
  <2>9. NodeValue(name, ValueToRpb(name, value))
    BY <2>3, <2>14 DEF NodeValue, sent
  <2> QED
    BY <2>9, <2>11
<1>2. CASE name = "repl"
  <2>1. value \in {REALTIME_AND_FULLSYNC, REALTIME, FULLSYNC, DISABLED}
    BY <1>2 DEF OwnValue
  <2>2. ValueToRpb(name, value) = ReplMode(value)
    BY <1>2, Kinds DEF ValueToRpb
  <2>3. NodeValue(name, ReplMode(value))
    BY <1>2, <2>1, ReplBack, Kinds DEF NodeValue
  <2>4. ValueFromRpb(name, ReplMode(value)) = ReplicationMode(ReplMode(value))
    BY <1>2, Kinds DEF ValueFromRpb
  <2> QED
    BY <2>1, <2>2, <2>3, <2>4, ReplBack
<1>3. CASE name \notin HookLists /\ name # "repl"
  BY <1>3 DEF ValueFromRpb, ValueToRpb, NodeValue, OwnValue
<1> QED
  BY <1>1, <1>2, <1>3

-----------------------------------------------------------------------------
(* Records and requests *)

LEMMA FromRpbOf ==
    ASSUME NEW rpb, NEW name \in Names
    PROVE  /\ FromRpb(rpb)[name].use = (Taken(name, rpb) /\ MarkedFromRpb(name))
           /\ FromRpb(rpb)[name].value =
                 IF Taken(name, rpb) THEN Some(ValueFromRpb(name, rpb[name][1])) ELSE None
BY DEF FromRpb

(* What a node has is taken, its lists of hooks with their flags. *)
LEMMA NodeTaken ==
    ASSUME NEW rpb, NodeProps(rpb), NEW name \in Names
    PROVE  Taken(name, rpb) <=> rpb[name] # None
<1>1. ASSUME rpb[name] # None, name \in HookLists PROVE rpb[name][1].flag # None
  <2> DEFINE value == rpb[name][1]
             hooks == value.hooks
  <2>1. value = [flag |-> Some(TRUE), hooks |-> hooks]
    BY <1>1 DEF NodeProps, NodeValue
  <2> HIDE DEF value, hooks
  <2>2. value.flag = Some(TRUE)
    BY <2>1
  <2> QED
    BY <2>2, SomeIsNotNone DEF value
<1> QED
  BY <1>1 DEF Taken

(* What a request has of a record. *)
LEMMA ToRpbOf ==
    ASSUME NEW record, NEW name \in Names
    PROVE  /\ ~Packed(name, record) => ToRpb(record)[name] = None
           /\ Packed(name, record) /\ record[name].value # None =>
                 ToRpb(record)[name] = Some(ValueToRpb(name, record[name].value[1]))
BY DEF ToRpb

LEMMA PackedOf ==
    ASSUME NEW record, NEW name \in Names
    PROVE  Packed(name, record) <=>
             IF name = "backend" THEN record[name].value \notin {None, Some("")}
             ELSE record[name].use
<1>1. CASE name = "backend"
  BY <1>1, Kinds DEF Packed
<1>2. CASE name # "backend" /\ name \in PlainFromRpb
  BY <1>2, Kinds DEF Packed
<1>3. CASE name # "backend" /\ name \notin PlainFromRpb
  BY <1>3 DEF Packed
<1> QED
  BY <1>1, <1>2, <1>3

(* The request made of a record that was read: all of it that is marked. *)
LEMMA Restored ==
    ASSUME NEW rpb, NodeProps(rpb), NEW name \in Names
    PROVE  ToRpb(FromRpb(rpb))[name] = IF name \in Unmarked THEN None ELSE rpb[name]
<1> DEFINE record == FromRpb(rpb)
<1>1. /\ record[name].use = (rpb[name] # None /\ MarkedFromRpb(name))
      /\ record[name].value = IF rpb[name] = None THEN None ELSE Some(ValueFromRpb(name, rpb[name][1]))
  BY FromRpbOf, NodeTaken
<1> HIDE DEF record
<1>2. CASE rpb[name] = None
  <2>1. ~Packed(name, record)
    BY <1>1, <1>2, PackedOf
  <2> QED
    BY <1>2, <2>1, ToRpbOf DEF record
<1>3. CASE rpb[name] # None /\ name \in Unmarked
  <2>1. ~MarkedFromRpb(name) /\ name # "backend"
    BY <1>3, Kinds DEF MarkedFromRpb
  <2>2. ~Packed(name, record)
    BY <1>1, <2>1, PackedOf
  <2> QED
    BY <1>3, <2>2, ToRpbOf DEF record
<1>4. CASE rpb[name] # None /\ name \notin Unmarked
  <2>1. rpb[name] = Some(rpb[name][1]) /\ NodeValue(name, rpb[name][1])
    BY <1>4 DEF NodeProps
  <2>2. record[name].value = Some(ValueFromRpb(name, rpb[name][1])) /\ record[name].value # None
    BY <1>1, <1>4, SomeIsNotNone
  <2>3. record[name].value[1] = ValueFromRpb(name, rpb[name][1])
    BY <2>2, SomeIsNotNone
  <2>4. Packed(name, record)
    <3>1. CASE name = "backend"
      <4>1. ValueFromRpb(name, rpb[name][1]) = rpb[name][1] /\ rpb[name][1] # ""
        BY <2>1, <3>1, Kinds DEF ValueFromRpb, NodeValue
      <4>2. record[name].value # Some("")
        BY <2>3, <4>1, SomeIsNotNone
      <4> QED
        BY <2>2, <3>1, <4>2, PackedOf
    <3>2. CASE name # "backend"
      BY <1>1, <1>4, <3>2, Kinds, PackedOf DEF MarkedFromRpb
    <3> QED
      BY <3>1, <3>2
  <2>5. ToRpb(record)[name] = Some(ValueToRpb(name, ValueFromRpb(name, rpb[name][1])))
    BY <2>2, <2>3, <2>4, ToRpbOf
  <2>6. ToRpb(record)[name] = rpb[name]
    BY <2>1, <2>5, ValueThere
  <2> QED
    BY <1>4, <2>6 DEF record
<1> QED
  BY <1>2, <1>3, <1>4

LEMMA RestoredOK ==
    ASSUME NEW rpb, NodeProps(rpb)
    PROVE  NodeProps(ToRpb(FromRpb(rpb)))
<1>1. \A record : ToRpb(record) = [name \in Names |-> ToRpb(record)[name]]
  BY DEF ToRpb
<1>2. \A name \in Names : ToRpb(FromRpb(rpb))[name] = None \/ ToRpb(FromRpb(rpb))[name] = rpb[name]
  BY Restored
<1> QED
  BY <1>1, <1>2 DEF NodeProps

(* The request made of the application's own record. *)
LEMMA OwnOK ==
    ASSUME NEW record, OwnRecord(record)
    PROVE  /\ NodeProps(ToRpb(record))
           /\ \A name \in Names : record[name].use =>
                 /\ ToRpb(record)[name] # None
                 /\ Some(ValueFromRpb(name, ToRpb(record)[name][1])) = record[name].value
<1>1. ToRpb(record) = [name \in Names |-> ToRpb(record)[name]]
  BY DEF ToRpb
<1>2. ASSUME NEW name \in Names, Packed(name, record)
      PROVE  /\ ToRpb(record)[name] = Some(ToRpb(record)[name][1]) /\ ToRpb(record)[name] # None
             /\ NodeValue(name, ToRpb(record)[name][1])
             /\ Some(ValueFromRpb(name, ToRpb(record)[name][1])) = record[name].value
  <2>1. record[name].value # None
    BY <1>2, PackedOf DEF OwnRecord
  <2>2. record[name].value = Some(record[name].value[1]) /\ OwnValue(name, record[name].value[1])
    BY <2>1 DEF OwnRecord
  <2> DEFINE v == record[name].value[1]
  <2>3. ToRpb(record)[name] = Some(ValueToRpb(name, v))
    BY <1>2, <2>1, ToRpbOf
  <2>4. NodeValue(name, ValueToRpb(name, v)) /\ ValueFromRpb(name, ValueToRpb(name, v)) = v
    BY <2>2, ValueBack
  <2> QED
    BY <2>2, <2>3, <2>4, SomeIsNotNone
<1>3. \A name \in Names : ~Packed(name, record) => ToRpb(record)[name] = None
  BY ToRpbOf
<1>4. ASSUME NEW name \in Names, record[name].use PROVE Packed(name, record)
  <2>1. record[name].value # None /\ record[name].value = Some(record[name].value[1])
        /\ OwnValue(name, record[name].value[1])
    BY <1>4 DEF OwnRecord
  <2>2. name = "backend" => record[name].value # Some("")
    BY <2>1, SomeIsNotNone DEF OwnValue
  <2> QED
    BY <1>4, <2>1, <2>2, PackedOf
<1>5. NodeProps(ToRpb(record))
  BY <1>1, <1>2, <1>3 DEF NodeProps
<1> QED
  BY <1>2, <1>4, <1>5

LEMMA MergeOf ==
    ASSUME NEW old, NEW request, NEW name \in Names
    PROVE  Merge(old, request)[name] = IF request[name] = None THEN old[name] ELSE request[name]
BY DEF Merge

LEMMA MergeOK ==
    ASSUME NEW old, NEW request, NodeProps(old), NodeProps(request)
    PROVE  NodeProps(Merge(old, request))
<1>1. Merge(old, request) = [name \in Names |-> Merge(old, request)[name]]
  BY DEF Merge
<1>2. \A name \in Names : Merge(old, request)[name] \in {old[name], request[name]}
  BY MergeOf
<1> QED
  BY <1>1, <1>2 DEF NodeProps

-----------------------------------------------------------------------------
(* The invariant *)

(* The node's properties are such as it can have, and the record held is what
   was made of those read. *)
ReadInv ==
    /\ props = [place \in Places |-> props[place]]
    /\ \A place \in Places : NodeProps(props[place])
    /\ from \in Places
    /\ NodeProps(original)
    /\ held # None => held = Some(FromRpb(original))

LEMMA InitReadInv == Init => ReadInv
<1> SUFFICES ASSUME Init PROVE ReadInv
  OBVIOUS
<1>1. props \in [Places -> Initial] /\ from = "bucket" /\ original = Absent /\ held = None
  BY DEF Init
<1>2. props = [place \in Places |-> props[place]] /\ \A place \in Places : props[place] \in Initial
  BY <1>1
<1>3. NodeProps(Absent)
  BY DEF NodeProps, Absent
<1> QED
  BY <1>1, <1>2, <1>3, ValuesAssumption DEF ReadInv, Places

(* A place that is set to properties a node can have. *)
LEMMA SetOK ==
    ASSUME ReadInv, NEW place \in Places, NEW rpb, NodeProps(rpb),
           props' = [props EXCEPT ![place] = rpb], UNCHANGED <<held, from, original>>
    PROVE  ReadInv'
<1>1. props' = [p \in Places |-> IF p = place THEN rpb ELSE props[p]]
  BY DEF ReadInv
<1>2. props' = [p \in Places |-> props'[p]]
  BY <1>1
<1>3. \A p \in Places : NodeProps(props'[p])
  BY <1>1 DEF ReadInv
<1> QED
  BY <1>2, <1>3 DEF ReadInv

LEMMA StepReadInv ==
    ASSUME ReadInv, [Next]_vars
    PROVE  ReadInv'
<1>1. ASSUME NEW place \in Places, Get(place) PROVE ReadInv'
  <2>1. /\ held' = Some(FromRpb(props[place])) /\ from' = place /\ original' = props[place]
        /\ props' = props
    BY <1>1 DEF Get
  <2> QED
    BY <2>1 DEF ReadInv
<1>2. ASSUME NEW place \in Places, NEW record, NodeProps(ToRpb(record)), Set(place, record)
      PROVE  ReadInv'
  <2>1. props' = [props EXCEPT ![place] = Merge(props[place], ToRpb(record))]
        /\ UNCHANGED <<held, from, original>>
    BY <1>2 DEF Set
  <2>2. NodeProps(Merge(props[place], ToRpb(record)))
    BY <1>2, MergeOK DEF ReadInv
  <2> QED
    BY <2>1, <2>2, SetOK
<1>3. CASE SetOwn
  BY <1>2, <1>3, OwnOK, ValuesAssumption DEF SetOwn
<1>4. CASE SetBack
  <2>1. held # None /\ Set(from, held[1]) /\ held[1] = FromRpb(original)
    BY <1>4, SomeIsNotNone DEF SetBack, ReadInv
  <2>2. from \in Places /\ NodeProps(ToRpb(held[1]))
    BY <2>1, RestoredOK DEF ReadInv
  <2> QED
    BY <1>2, <2>1, <2>2
<1>5. CASE Free \/ GetFails
  BY <1>5 DEF Free, GetFails, ReadInv
<1>6. CASE Other
  <2>1. PICK place \in Places, change \in Foreign :
          props' = [props EXCEPT ![place] = [props[place] EXCEPT ![change[1]] = Some(change[2])]]
    BY <1>6 DEF Other
  <2> DEFINE rpb == [props[place] EXCEPT ![change[1]] = Some(change[2])]
  <2>2. change[1] \in Names /\ NodeValue(change[1], change[2])
    BY ValuesAssumption
  <2>3. NodeProps(props[place])
    BY DEF ReadInv
  <2>4. NodeProps(rpb)
    <3>1. rpb = [name \in Names |-> IF name = change[1] THEN Some(change[2]) ELSE props[place][name]]
      BY <2>3 DEF NodeProps
    <3> HIDE DEF rpb
    <3>2. rpb = [name \in Names |-> rpb[name]]
      BY <3>1
    <3>3. rpb[change[1]] = Some(change[2]) /\ rpb[change[1]][1] = change[2]
      BY <2>2, <3>1, SomeIsNotNone
    <3>4. \A name \in Names : name # change[1] => rpb[name] = props[place][name]
      BY <3>1
    <3> QED
      BY <2>2, <2>3, <3>2, <3>3, <3>4 DEF NodeProps
  <2>5. UNCHANGED <<held, from, original>>
    BY <1>6 DEF Other
  <2> QED
    BY <2>1, <2>4, <2>5, SetOK
<1>7. CASE UNCHANGED vars
  BY <1>7 DEF vars, ReadInv
<1> QED
  BY <1>1, <1>3, <1>4, <1>5, <1>6, <1>7 DEF Next

LEMMA ReadInvHolds == Spec => []ReadInv
BY InitReadInv, StepReadInv, PTL DEF Spec

(* What setting back sends: the marked properties as they were read. *)
LEMMA SetBackSends ==
    ASSUME ReadInv, SetBack, NEW name \in Names
    PROVE  props'[from][name] =
             IF name \in Unmarked \/ original[name] = None THEN props[from][name] ELSE original[name]
<1>1. Set(from, FromRpb(original)) /\ NodeProps(original) /\ from \in Places
  BY SomeIsNotNone DEF SetBack, ReadInv
<1>2. props'[from] = Merge(props[from], ToRpb(FromRpb(original)))
  BY <1>1 DEF Set, ReadInv
<1> QED
  BY <1>1, <1>2, MergeOf, Restored

-----------------------------------------------------------------------------
(* A record that is set back restores every property that was read and marked,
   whatever has been set since. *)
THEOREM SetBackRestores == Spec => RestoresMarked
<1>1. ReadInv /\ [Next]_vars =>
        [SetBack => \A name \in Names \ Unmarked :
            original[name] # None => props'[from][name] = original[name]]_vars
  BY SetBackSends
<1> QED
  BY <1>1, ReadInvHolds, PTL DEF Spec, RestoresMarked

(* It touches no property that was not there when the record was read. *)
THEOREM SetBackLeavesRest == Spec => LeavesRest
<1>1. ReadInv /\ [Next]_vars =>
        [SetBack => \A name \in Names :
            original[name] = None => props'[from][name] = props[from][name]]_vars
  BY SetBackSends
<1> QED
  BY <1>1, ReadInvHolds, PTL DEF Spec, LeavesRest

(* What the application has set is what it reads. *)
THEOREM OwnRecordsReadBack == Spec => ReadsBack
<1>1. ASSUME ReadInv, NEW place \in Places, NEW record \in OwnRecords, Set(place, record),
             NEW name \in Names, record[name].use
      PROVE  FromRpb(props'[place])[name].value = record[name].value
  <2>1. props'[place] = Merge(props[place], ToRpb(record))
    BY <1>1 DEF Set, ReadInv
  <2>2. /\ ToRpb(record)[name] # None
        /\ Some(ValueFromRpb(name, ToRpb(record)[name][1])) = record[name].value
    BY <1>1, OwnOK, ValuesAssumption
  <2>3. props'[place][name] = ToRpb(record)[name]
    BY <2>1, <2>2, MergeOf
  <2>4. NodeProps(props'[place])
    BY <1>1, <2>1, MergeOK, OwnOK, ValuesAssumption DEF ReadInv
  <2> QED
    BY <2>2, <2>3, <2>4, FromRpbOf, NodeTaken
<1>2. ReadInv /\ [Next]_vars =>
        [\A place \in Places, record \in OwnRecords :
          Set(place, record) =>
             \A name \in Names :
                record[name].use => FromRpb(props'[place])[name].value = record[name].value]_vars
  BY <1>1
<1> QED
  BY <1>2, ReadInvHolds, PTL DEF Spec, ReadsBack

-----------------------------------------------------------------------------
(* Memory *)

(* The sum over the hooks that Blocks and Freed take. *)
HooksBlocks(hooks) == MapThenSumSet(LAMBDA i : HookBlocks(hooks[i]), DOMAIN hooks)

LEMMA StringBlocksType == \A string : StringBlocks(string) \in Nat
BY DEF StringBlocks

LEMMA ModFunBlocksType == \A modfun : ModFunBlocks(modfun) \in Nat
<1> SUFFICES ASSUME NEW modfun PROVE ModFunBlocks(modfun) \in Nat
  OBVIOUS
<1>1. StringBlocks(modfun.module) \in Nat /\ StringBlocks(modfun.function) \in Nat
  BY StringBlocksType
<1> QED
  BY <1>1 DEF ModFunBlocks

LEMMA HookBlocksType == \A hook : HookBlocks(hook) \in Nat
<1> SUFFICES ASSUME NEW hook PROVE HookBlocks(hook) \in Nat
  OBVIOUS
<1>1. StringBlocks(hook.name) \in Nat /\ ModFunBlocks(hook.modfun) \in Nat
  BY StringBlocksType, ModFunBlocksType
<1> QED
  BY <1>1 DEF HookBlocks

Chosen(s) == CHOOSE x \in s : TRUE

(* What the sum says of a set, given what it is of the smaller ones. *)
SumStep(hooks, f, s) == IF s = {} THEN 0 ELSE HookBlocks(hooks[Chosen(s)]) + f[s \ {Chosen(s)}]

IsSum(hooks, f) == f = [s \in SUBSET DOMAIN hooks |-> SumStep(hooks, f, s)]

LEMMA SumIs ==
    ASSUME NEW hooks
    PROVE  HooksBlocks(hooks) = (CHOOSE f : IsSum(hooks, f))[DOMAIN hooks]
BY DEF HooksBlocks, MapThenSumSet, MapThenFoldSet, IsSum, SumStep, Chosen

(* The subsets of at most n elements. *)
Small(S, n) == {s \in SUBSET S : Cardinality(s) <= n}

(* A subset without one of its elements is smaller. *)
LEMMA Smaller ==
    ASSUME NEW S, IsFiniteSet(S), NEW s \in SUBSET S, s # {}
    PROVE  /\ Chosen(s) \in s /\ s \ {Chosen(s)} \in SUBSET S
           /\ Cardinality(s) \in Nat /\ Cardinality(s \ {Chosen(s)}) = Cardinality(s) - 1
<1>1. Chosen(s) \in s
  BY DEF Chosen
<1>2. IsFiniteSet(s) /\ Cardinality(s) \in Nat
  BY FS_Subset, FS_CardinalityType
<1> QED
  BY <1>1, <1>2, FS_RemoveElement

LEMMA SmallSets ==
    ASSUME NEW S, IsFiniteSet(S)
    PROVE  /\ Small(S, 0) = {{}}
           /\ \A n \in Nat : \A s \in Small(S, n + 1) : s # {} => s \ {Chosen(s)} \in Small(S, n)
           /\ Small(S, Cardinality(S)) = SUBSET S
<1>1. \A s \in SUBSET S : IsFiniteSet(s) /\ Cardinality(s) \in Nat /\ Cardinality(s) <= Cardinality(S)
  BY FS_Subset, FS_CardinalityType
<1>2. \A s \in SUBSET S : Cardinality(s) <= 0 <=> s = {}
  BY <1>1, FS_EmptySet
<1>3. Small(S, 0) = {{}}
  BY <1>2 DEF Small
<1>4. ASSUME NEW n \in Nat, NEW s \in Small(S, n + 1), s # {}
      PROVE  s \ {Chosen(s)} \in Small(S, n)
  <2>1. s \in SUBSET S /\ Cardinality(s) <= n + 1
    BY <1>4 DEF Small
  <2>2. /\ s \ {Chosen(s)} \in SUBSET S
        /\ Cardinality(s) \in Nat /\ Cardinality(s \ {Chosen(s)}) = Cardinality(s) - 1
    BY <1>4, <2>1, Smaller
  <2> QED
    BY <2>1, <2>2 DEF Small
<1>5. Small(S, Cardinality(S)) = SUBSET S
  BY <1>1 DEF Small
<1> QED
  BY <1>3, <1>4, <1>5

(* There is such a sum, *)
LEMMA SumExists ==
    ASSUME NEW hooks, IsFiniteSet(DOMAIN hooks)
    PROVE  \E f : IsSum(hooks, f)
<1> DEFINE D == DOMAIN hooks
           T == {n \in Nat : \E f : f = [s \in Small(D, n) |-> SumStep(hooks, f, s)]}
<1>1. 0 \in T
  <2> DEFINE f == [s \in Small(D, 0) |-> 0]
  <2>1. Small(D, 0) = {{}}
    BY SmallSets
  <2>2. \A s \in Small(D, 0) : SumStep(hooks, f, s) = 0
    BY <2>1 DEF SumStep
  <2>3. f = [s \in Small(D, 0) |-> SumStep(hooks, f, s)]
    BY <2>2
  <2> QED
    BY <2>3
<1>2. ASSUME NEW n \in Nat, n \in T PROVE n + 1 \in T
  <2>1. PICK f : f = [s \in Small(D, n) |-> SumStep(hooks, f, s)]
    BY <1>2
  <2> DEFINE g == [s \in Small(D, n + 1) |-> SumStep(hooks, f, s)]
  <2>2. \A s \in Small(D, n) : s \in Small(D, n + 1) /\ g[s] = f[s]
    <3>1. Small(D, n) \subseteq Small(D, n + 1)
      <4>1. \A s \in SUBSET D : Cardinality(s) \in Nat
        BY FS_Subset, FS_CardinalityType
      <4> QED
        BY <4>1 DEF Small
    <3>2. \A s \in Small(D, n) : f[s] = SumStep(hooks, f, s)
      BY <2>1
    <3> HIDE DEF D
    <3> QED
      BY <3>1, <3>2
  <2>3. \A s \in Small(D, n + 1) : SumStep(hooks, f, s) = SumStep(hooks, g, s)
    <3>1. \A s \in Small(D, n + 1) : s # {} => s \ {Chosen(s)} \in Small(D, n)
      BY SmallSets
    <3> HIDE DEF D, g
    <3> QED
      BY <2>2, <3>1 DEF SumStep
  <2>4. g = [s \in Small(D, n + 1) |-> SumStep(hooks, g, s)]
    BY <2>3
  <2> HIDE DEF g
  <2> QED
    BY <2>4
<1>3. Cardinality(D) \in Nat
  BY FS_CardinalityType
<1>4. Cardinality(D) \in T
  <2> HIDE DEF T
  <2> QED
    BY <1>1, <1>2, <1>3, SetInduction
<1>5. PICK f : f = [s \in Small(D, Cardinality(D)) |-> SumStep(hooks, f, s)]
  BY <1>4
<1>6. Small(D, Cardinality(D)) = SUBSET D
  BY SmallSets
<1>7. f = [s \in SUBSET D |-> SumStep(hooks, f, s)]
  BY <1>5, <1>6
<1> QED
  BY <1>7 DEF IsSum

(* and it is a number. *)
LEMMA HooksBlocksType ==
    ASSUME NEW hooks, IsFiniteSet(DOMAIN hooks)
    PROVE  HooksBlocks(hooks) \in Nat
<1> DEFINE D == DOMAIN hooks
           f == CHOOSE f : IsSum(hooks, f)
           T == {n \in Nat : \A s \in Small(D, n) : f[s] \in Nat}
<1>1. IsSum(hooks, f)
  BY SumExists
<1>2. \A s \in SUBSET D : f[s] = SumStep(hooks, f, s)
  <2> HIDE DEF f
  <2> QED
    BY <1>1 DEF IsSum
<1> HIDE DEF f
<1>3. 0 \in T
  <2>1. Small(D, 0) = {{}} /\ {} \in SUBSET D
    BY SmallSets
  <2>2. f[{}] = 0
    BY <1>2, <2>1 DEF SumStep
  <2>3. \A s \in Small(D, 0) : s = {}
    BY <2>1
  <2>4. \A s \in Small(D, 0) : f[s] = 0
    BY <2>2, <2>3
  <2> QED
    BY <2>4
<1>4. ASSUME NEW n \in Nat, n \in T PROVE n + 1 \in T
  <2> SUFFICES ASSUME NEW s \in Small(D, n + 1) PROVE f[s] \in Nat
    OBVIOUS
  <2>1. s \in SUBSET D
    BY DEF Small
  <2>2. CASE s = {}
    <3>1. f[s] = SumStep(hooks, f, s)
      BY <1>2, <2>1
    <3>2. SumStep(hooks, f, s) = 0
      BY <2>2 DEF SumStep
    <3> QED
      BY <3>1, <3>2
  <2>3. CASE s # {}
    <3>1. s \ {Chosen(s)} \in Small(D, n)
      BY <2>3, SmallSets
    <3>2. f[s \ {Chosen(s)}] \in Nat
      BY <1>4, <3>1
    <3>3. HookBlocks(hooks[Chosen(s)]) \in Nat
      BY HookBlocksType
    <3>4. f[s] = HookBlocks(hooks[Chosen(s)]) + f[s \ {Chosen(s)}]
      BY <1>2, <2>1, <2>3 DEF SumStep
    <3> QED
      BY <3>2, <3>3, <3>4
  <2> QED
    BY <2>2, <2>3
<1>5. Cardinality(D) \in Nat
  BY FS_CardinalityType
<1>6. Cardinality(D) \in T
  <2> HIDE DEF T
  <2> QED
    BY <1>3, <1>4, <1>5, SetInduction
<1>7. Small(D, Cardinality(D)) = SUBSET D /\ D \in SUBSET D
  BY SmallSets
<1>8. f[D] \in Nat
  BY <1>6, <1>7
<1> QED
  BY <1>8, SumIs DEF f

(* The sum of a list of hooks is what is freed of it. *)
LEMMA HooksFreed ==
    ASSUME NEW hooks
    PROVE  /\ MapThenSumSet(LAMBDA i : HookBlocks(hooks[i]), DOMAIN hooks) = HooksBlocks(hooks)
           /\ MapThenSumSet(LAMBDA i : HookBlocksFreed(hooks[i]), DOMAIN hooks) = HooksBlocks(hooks)
BY DEF HooksBlocks, HookBlocksFreed

LEMMA MoreKinds ==
    /\ \A name \in HookLists : name \notin Strings /\ name \notin ModFuns
    /\ \A name \in Strings : name \notin ModFuns
    /\ "backend" \notin ModFuns
BY DEF HookLists, Strings, ModFuns

(* How many blocks are behind a property. *)
LEMMA BlocksOf ==
    ASSUME NEW name \in Names, NEW value
    PROVE  Blocks(name, value) =
             IF value = None THEN 0
             ELSE IF name \in Strings THEN StringBlocks(value[1])
             ELSE IF name \in ModFuns THEN ModFunBlocks(value[1])
             ELSE IF name \in HookLists
                  THEN IF value[1] = <<>> THEN 0 ELSE 1 + HooksBlocks(value[1])
             ELSE 0
BY HooksFreed, MoreKinds DEF Blocks

LEMMA BlocksType ==
    ASSUME NEW name \in Names, NEW value,
           value # None /\ name \in HookLists => IsFiniteSet(DOMAIN value[1])
    PROVE  Blocks(name, value) \in Nat
<1>1. StringBlocks(value[1]) \in Nat /\ ModFunBlocks(value[1]) \in Nat
  BY StringBlocksType, ModFunBlocksType
<1>2. ASSUME value # None, name \in HookLists PROVE 1 + HooksBlocks(value[1]) \in Nat
  <2>1. HooksBlocks(value[1]) \in Nat
    BY <1>2, HooksBlocksType
  <2> QED
    BY <2>1
<1> QED
  BY <1>1, <1>2, BlocksOf

LEMMA FreedOf ==
    ASSUME NEW name \in Names, NEW record
    PROVE  Freed(name, record) =
             IF record[name].value = None THEN 0
             ELSE IF name = "backend" THEN StringBlocks(record[name].value[1])
             ELSE IF name \in HookLists
                  THEN IF record[name].value[1] = <<>> THEN 0
                       ELSE 1 + HooksBlocks(record[name].value[1])
             ELSE FreedIfMarked(name, record) * Blocks(name, record[name].value)
BY HooksFreed, Kinds DEF Freed

(* All of a property of a record that was read is freed, if it is marked when it
   is there. *)
LEMMA AllFreed ==
    ASSUME NEW rpb, NodeProps(rpb), NEW name \in Names, name \notin Unmarked
    PROVE  /\ Blocks(name, FromRpb(rpb)[name].value) \in Nat
           /\ Freed(name, FromRpb(rpb)) = Blocks(name, FromRpb(rpb)[name].value)
<1> DEFINE record == FromRpb(rpb)
           value == record[name].value
<1>1. /\ record[name].use = (rpb[name] # None /\ MarkedFromRpb(name))
      /\ value = IF rpb[name] = None THEN None ELSE Some(ValueFromRpb(name, rpb[name][1]))
  BY FromRpbOf, NodeTaken
<1> HIDE DEF record
<1>2. ASSUME value # None, name \in HookLists
      PROVE  IsFiniteSet(DOMAIN value[1])
  <2>1. rpb[name] # None /\ value[1] = ValueFromRpb(name, rpb[name][1])
    BY <1>1, <1>2, SomeIsNotNone
  <2>2. NodeValue(name, rpb[name][1])
    BY <2>1 DEF NodeProps
  <2> DEFINE hooks == rpb[name][1].hooks
  <2>3. IsFiniteSet(DOMAIN hooks)
    BY <1>2, <2>2 DEF NodeValue, NodeHooks
  <2>4. value[1] = [i \in DOMAIN hooks |-> HookFromRpb(hooks[i])]
    BY <1>2, <2>1 DEF ValueFromRpb, HooksFromRpb
  <2> QED
    BY <2>3, <2>4
<1>3. Blocks(name, value) \in Nat
  BY <1>2, BlocksType
<1>4. Freed(name, record) = Blocks(name, value)
  <2>1. CASE value = None
    BY <2>1, BlocksOf, FreedOf
  <2>2. CASE value # None /\ name = "backend"
    BY <2>2, BlocksOf, FreedOf, Kinds
  <2>3. CASE value # None /\ name \in HookLists
    BY <2>3, BlocksOf, FreedOf, Kinds, MoreKinds
  <2>4. CASE value # None /\ name # "backend" /\ name \notin HookLists
    <3>1. name \notin Strings
      BY <2>4, Kinds
    <3>2. FreedIfMarked(name, record) = 1
      BY <1>1, <2>4, <3>1 DEF FreedIfMarked, MarkedFromRpb
    <3>3. Freed(name, record) = 1 * Blocks(name, value)
      BY <2>4, <3>2, FreedOf
    <3> QED
      BY <1>3, <3>3
  <2> QED
    BY <2>1, <2>2, <2>3, <2>4
<1> QED
  BY <1>3, <1>4 DEF record

(* What is in memory is what the record held points to. *)
HeapInv ==
    /\ DOMAIN heap = Names \cup {"record"}
    /\ \A part \in DOMAIN heap \ Unmarked :
          heap[part] = IF held = None \/ freed THEN 0
                       ELSE IF part = "record" THEN 1 ELSE Blocks(part, held[1][part].value)

LEMMA InitHeapInv == Init => HeapInv
BY DEF Init, HeapInv

LEMMA StepHeapInv ==
    ASSUME HeapInv, ReadInv, ReadInv', [Next]_vars
    PROVE  HeapInv'
<1> USE DEF HeapInv
<1>1. ASSUME NEW place \in Places, Get(place) PROVE HeapInv'
  <2> DEFINE record == FromRpb(original')
  <2>1. /\ held = None \/ freed
        /\ held' # None /\ ~freed' /\ held'[1] = record /\ NodeProps(original')
    BY <1>1, SomeIsNotNone DEF Get, MayRead, ReadInv
  <2>2. heap' = [part \in DOMAIN heap |->
                  heap[part] + IF part = "record" THEN 1 ELSE Blocks(part, held'[1][part].value)]
    BY <1>1 DEF Get
  <2> HIDE DEF record
  <2>3. ASSUME NEW part \in DOMAIN heap \ Unmarked
        PROVE  heap'[part] = IF part = "record" THEN 1 ELSE Blocks(part, held'[1][part].value)
    <3>1. heap[part] = 0
      BY <2>1
    <3>2. CASE part = "record"
      BY <2>2, <3>1, <3>2
    <3>3. CASE part # "record"
      <4>1. part \in Names
        BY <3>3
      <4>2. Blocks(part, held'[1][part].value) \in Nat
        BY <2>1, <4>1, AllFreed DEF record
      <4> QED
        BY <2>2, <3>1, <3>3, <4>2
    <3> QED
      BY <3>2, <3>3
  <2> QED
    BY <2>1, <2>2, <2>3
<1>2. CASE Free
  <2>1. /\ held # None /\ ~freed /\ freed' /\ held[1] = FromRpb(original) /\ NodeProps(original)
    BY <1>2, SomeIsNotNone DEF Free, ReadInv
  <2>2. heap' = [part \in DOMAIN heap |->
                  heap[part] - IF part = "record" THEN 1 ELSE Freed(part, held[1])]
    BY <1>2 DEF Free
  <2>3. ASSUME NEW part \in DOMAIN heap \ Unmarked PROVE heap'[part] = 0
    <3>1. CASE part = "record"
      BY <2>1, <2>2, <3>1
    <3>2. CASE part # "record"
      <4>1. part \in Names
        BY <3>2
      <4>2. /\ Blocks(part, held[1][part].value) \in Nat
            /\ Freed(part, held[1]) = Blocks(part, held[1][part].value)
        BY <2>1, <4>1, AllFreed
      <4>3. heap[part] = Blocks(part, held[1][part].value)
        BY <2>1, <3>2
      <4> QED
        BY <2>2, <3>2, <4>2, <4>3
    <3> QED
      BY <3>1, <3>2
  <2> QED
    BY <2>1, <2>2, <2>3
<1>3. CASE SetOwn \/ SetBack \/ Other
  BY <1>3 DEF SetOwn, SetBack, Other, Set
<1>4. CASE GetFails
  BY <1>4 DEF GetFails, MayRead
<1>5. CASE UNCHANGED vars
  BY <1>5 DEF vars
<1> QED
  BY <1>1, <1>2, <1>3, <1>4, <1>5 DEF Next

(* When the application has freed what it read, every block of it has been freed,
   and none twice, but for the two strings whose marks are never set, for
   properties with any hooks. *)
THEOREM ReadAndFreed == Spec => []FreesMarked
<1>1. HeapInv => FreesMarked
  BY DEF HeapInv, FreesMarked
<1>2. HeapInv /\ ReadInv /\ ReadInv' /\ [Next]_vars => HeapInv'
  BY StepHeapInv
<1> QED
  BY <1>1, <1>2, InitHeapInv, ReadInvHolds, PTL DEF Spec
=============================================================================
