------------------------- MODULE RiackListingProofs -------------------------
(* Proofs about RiackListing: what an application that lists keys page by page
   is given, for any keys, types, page size and number of failures. *)
EXTENDS RiackListing, TLAPS, FiniteSetTheorems, SequenceTheorems

-----------------------------------------------------------------------------
(* Sequences *)

(* A sequence cut in two is the two parts, one behind the other. *)
LEMMA CutInTwo ==
    ASSUME NEW S, NEW s \in Seq(S), NEW k \in 0 .. Len(s)
    PROVE  /\ SubSeq(s, 1, k) \in Seq(S) /\ Len(SubSeq(s, 1, k)) = k
           /\ SubSeq(s, k + 1, Len(s)) \in Seq(S)
           /\ Len(SubSeq(s, k + 1, Len(s))) = Len(s) - k
           /\ SubSeq(s, 1, k) \o SubSeq(s, k + 1, Len(s)) = s
<1> DEFINE front == SubSeq(s, 1, k)
           back == SubSeq(s, k + 1, Len(s))
<1>1. front \in Seq(S) /\ Len(front) = k /\ \A i \in 1 .. k : front[i] = s[i]
  OBVIOUS
<1>2. /\ back \in Seq(S) /\ Len(back) = Len(s) - k
      /\ \A i \in 1 .. Len(s) - k : back[i] = s[k + i]
  OBVIOUS
<1>3. front \o back = s
  <2> HIDE DEF front, back
  <2>1. front \o back \in Seq(S) /\ Len(front \o back) = Len(s)
    BY <1>1, <1>2
  <2>2. \A i \in 1 .. Len(s) : (front \o back)[i] = s[i]
    <3> SUFFICES ASSUME NEW i \in 1 .. Len(s) PROVE (front \o back)[i] = s[i]
      OBVIOUS
    <3>1. CASE i <= k
      BY <1>1, <1>2, <3>1
    <3>2. CASE i > k
      <4>1. (front \o back)[i] = back[i - k]
        BY <1>1, <1>2, <3>2
      <4>2. i - k \in 1 .. Len(s) - k /\ k + (i - k) = i
        BY <3>2
      <4> QED
        BY <4>1, <4>2, <1>2
    <3>3. i <= k \/ i > k
      OBVIOUS
    <3> QED
      BY <3>1, <3>2, <3>3
  <2> QED
    BY <2>1, <2>2, SeqEqual
<1> QED
  BY <1>1, <1>2, <1>3

(* The keys of two sequences are those of both together. *)
LEMMA RangeOfBoth ==
    ASSUME NEW S, NEW s \in Seq(S), NEW t \in Seq(S)
    PROVE  Range(s \o t) = Range(s) \cup Range(t)
<1> DEFINE both == s \o t
<1>1. both \in Seq(S) /\ Len(both) = Len(s) + Len(t)
  OBVIOUS
<1>2. \A i \in 1 .. Len(s) : both[i] = s[i]
  OBVIOUS
<1>3. \A i \in 1 .. Len(t) : both[Len(s) + i] = t[i] /\ Len(s) + i \in 1 .. Len(both)
  BY <1>1
<1>4. \A i \in 1 .. Len(both) : i \in 1 .. Len(s) \/ i - Len(s) \in 1 .. Len(t)
  BY <1>1
<1>5. \A i \in 1 .. Len(both) \ 1 .. Len(s) : both[i] = t[i - Len(s)]
  BY <1>1, <1>3, <1>4
<1> HIDE DEF both
<1>6. ASSUME NEW x \in Range(both) PROVE x \in Range(s) \cup Range(t)
  <2> PICK i \in 1 .. Len(both) : both[i] = x
    BY <1>1 DEF Range
  <2> QED
    BY <1>1, <1>2, <1>4, <1>5 DEF Range
<1>7. ASSUME NEW x \in Range(s) PROVE x \in Range(both)
  <2> PICK i \in 1 .. Len(s) : s[i] = x
    BY DEF Range
  <2> QED
    BY <1>1, <1>2 DEF Range
<1>8. ASSUME NEW x \in Range(t) PROVE x \in Range(both)
  <2> PICK i \in 1 .. Len(t) : t[i] = x
    BY DEF Range
  <2> QED
    BY <1>1, <1>3 DEF Range
<1> QED
  BY <1>6, <1>7, <1>8 DEF both

LEMMA Associates ==
    ASSUME NEW S, NEW s \in Seq(S), NEW t \in Seq(S), NEW u \in Seq(S)
    PROVE  (s \o t) \o u = s \o (t \o u)
OBVIOUS

LEMMA NothingBefore ==
    ASSUME NEW S, NEW s \in Seq(S)
    PROVE  <<>> \o s = s /\ s \o <<>> = s
OBVIOUS

LEMMA AscendingPrefix ==
    ASSUME NEW s \in Seq(Nat), NEW t \in Seq(Nat), Ascending(s \o t)
    PROVE  Ascending(s)
<1>1. \A i \in DOMAIN s : i \in DOMAIN (s \o t) /\ (s \o t)[i] = s[i]
  OBVIOUS
<1> QED
  BY <1>1 DEF Ascending

LEMMA AscendingBoth ==
    ASSUME NEW s \in Seq(Nat), NEW t \in Seq(Nat), Ascending(s), Ascending(t),
           \A i \in DOMAIN s, j \in DOMAIN t : s[i] < t[j]
    PROVE  Ascending(s \o t)
BY DEF Ascending

LEMMA AscendingPart ==
    ASSUME NEW s \in Seq(Nat), NEW k \in 0 .. Len(s), Ascending(s)
    PROVE  Ascending(SubSeq(s, 1, k))
BY DEF Ascending

(* The first part of a sequence does not change when the sequence grows. *)
LEMMA SameBeginning ==
    ASSUME NEW S, NEW s \in Seq(S), NEW t \in Seq(S), NEW k \in 0 .. Len(s)
    PROVE  SubSeq(s \o t, 1, k) = SubSeq(s, 1, k)
<1> DEFINE a == SubSeq(s \o t, 1, k)
           b == SubSeq(s, 1, k)
<1>1. a \in Seq(S) /\ b \in Seq(S) /\ Len(a) = k /\ Len(b) = k
  OBVIOUS
<1>2. \A i \in 1 .. k : a[i] = b[i]
  OBVIOUS
<1> QED
  <2> HIDE DEF a, b
  <2> QED
    BY <1>1, <1>2, SeqEqual

LEMMA AllOfIt ==
    ASSUME NEW S, NEW s \in Seq(S)
    PROVE  SubSeq(s, 1, Len(s)) = s
OBVIOUS

LEMMA RangeOfPart ==
    ASSUME NEW S, NEW s \in Seq(S), NEW k \in 0 .. Len(s)
    PROVE  Range(SubSeq(s, 1, k)) \subseteq Range(s)
BY DEF Range

(* What Sorted gives is a sequence of just the keys of the set. *)
LEMMA SortedIsSequence ==
    ASSUME ListingAssumption, NEW keys \in SUBSET Keys, NEW s \in Sorted(keys)
    PROVE  s \in Seq(Keys) /\ Range(s) = keys /\ Ascending(s)
<1>1. IsFiniteSet(keys)
  BY FS_Subset DEF ListingAssumption
<1>2. Cardinality(keys) \in Nat
  BY <1>1, FS_CardinalityType
<1>3. s \in [1 .. Cardinality(keys) -> keys]
  BY DEF Sorted
<1>4. s \in [1 .. Cardinality(keys) -> Keys]
  BY <1>3
<1>5. s \in Seq(Keys)
  BY <1>2, <1>4
<1>6. Range(s) = keys /\ Ascending(s)
  BY DEF Sorted
<1> QED
  BY <1>5, <1>6

-----------------------------------------------------------------------------
(* Types, pointers and memory *)

(* Where the out parameters stand while a command runs and between two. *)
OutInv ==
    /\ pc \in {"ready", "done"} => list = Null
    /\ pc \in {"sent", "reading"} =>
          kept = Len(got) /\ list = IF Arrays THEN << <<>> >> ELSE Null
    /\ pc = "begun" => Streams
    /\ pc # "success" => tokenOut = None
    /\ ~Arrays /\ ~Links => list = Null
    /\ pc \notin {"ready", "done"} /\ (Arrays \/ Links) => kept = Len(got)
    /\ pc \in {"reading", "begun"} /\ pageToken # None => Pages
    /\ broken => pc \in {"success", "done"} /\ tokenOut = None

SafeInv == TypeOK /\ OutInv /\ HeapReachable

LEMMA UseFacts ==
    /\ Links => ~Arrays /\ ~Pages
    /\ Arrays => ~Links /\ ~Streams
BY DEF Links, Arrays, Pages, Streams, Api

LEMMA SafeInit == ListingAssumption /\ Init => SafeInv
<1> SUFFICES ASSUME ListingAssumption, Init PROVE SafeInv
  OBVIOUS
<1>1. TypeOK
  <2>1. Type \in Types
    BY DEF Init, Type, ListingAssumption
  <2>2. always \subseteq ever /\ ever \subseteq Keys
    BY <2>1 DEF Init
  <2>3. page \in Seq(Keys) /\ got \in Seq(Keys) /\ kept \in 0 .. Len(got)
    BY DEF Init
  <2>4. listed \in [Types -> SUBSET Keys] /\ use \in Uses
    BY DEF Init
  <2>5. list = Null /\ {pageToken, tokenIn, tokenOut} \subseteq Keys \cup {None}
    BY DEF Init
  <2>6. changes \in 0 .. MaxChanges /\ failures \in 0 .. MaxFailures
    BY DEF Init, ListingAssumption
  <2>7. pc = "ready" /\ heap = 0 /\ broken = FALSE
    BY DEF Init
  <2> QED
    BY <2>2, <2>3, <2>4, <2>5, <2>6, <2>7 DEF TypeOK
<1>2. OutInv
  BY DEF OutInv, Init
<1>3. HeapReachable
  BY DEF HeapReachable, Init, ListBlocks, TokenBlocks
<1> QED
  BY <1>1, <1>2, <1>3 DEF SafeInv

LEMMA SafeAsk == SafeInv /\ Ask => SafeInv'
<1> SUFFICES ASSUME SafeInv, Ask PROVE SafeInv'
  OBVIOUS
<1> USE UseFacts
<1>1. TypeOK'
  <2>1. list' = Null \/ (list' = <<list'[1]>> /\ list'[1] \in Seq(Keys))
    BY DEF Ask, Null
  <2>2. kept' \in 0 .. Len(got') /\ heap' \in Nat
    BY DEF SafeInv, TypeOK, Ask
  <2> QED
    BY <2>1, <2>2 DEF SafeInv, TypeOK, Ask, nodeVars, answerVars
<1>2. OutInv'
  BY DEF SafeInv, OutInv, Ask, nodeVars, answerVars, Arrays, Links, Streams, Pages, Api
<1>3. HeapReachable'
  <2>1. list = Null /\ heap = TokenBlocks(tokenIn) + TokenBlocks(tokenOut)
    BY DEF SafeInv, OutInv, Ask, HeapReachable, ListBlocks, TokenBlocks
  <2>2. CASE Arrays
    BY <2>1, <2>2 DEF Ask, HeapReachable, ListBlocks, TokenBlocks, StringsOf, Null,
                      Arrays, Links, Api
  <2>3. CASE ~Arrays
    BY <2>1, <2>3 DEF Ask, HeapReachable, ListBlocks, TokenBlocks, Arrays, Api
  <2> QED
    BY <2>2, <2>3
<1> QED
  BY <1>1, <1>2, <1>3 DEF SafeInv

LEMMA SafeChange == ListingAssumption /\ SafeInv /\ Change => SafeInv'
<1> SUFFICES ASSUME ListingAssumption, SafeInv, Change PROVE SafeInv'
  OBVIOUS
<1>1. TypeOK'
  <2>1. PICK type \in Types, key \in Keys :
          \E now \in {listed[type] \cup {key}, listed[type] \ {key}} :
             listed' = [listed EXCEPT ![type] = now]
    BY DEF Change
  <2>2. listed' \in [Types -> SUBSET Keys]
    BY <2>1 DEF SafeInv, TypeOK
  <2>3. Type \in Types
    BY DEF SafeInv, TypeOK, Type, ListingAssumption
  <2>4. /\ always' = always \cap listed'[Type] /\ ever' = ever \cup listed'[Type]
        /\ changes < MaxChanges /\ changes' = changes + 1
        /\ UNCHANGED <<use, pc, page, pageToken, list, tokenOut, tokenIn, got, kept, heap,
                       broken, failures>>
    BY DEF Change, answerVars, appVars
  <2>5. always' \subseteq ever' /\ ever' \subseteq Keys
    BY <2>2, <2>3, <2>4 DEF SafeInv, TypeOK
  <2>6. changes' \in 0 .. MaxChanges
    BY <2>4 DEF SafeInv, TypeOK, ListingAssumption
  <2> QED
    BY <2>2, <2>4, <2>5, <2>6 DEF SafeInv, TypeOK
<1>2. OutInv'
  BY DEF SafeInv, OutInv, Change, answerVars, appVars, Arrays, Links, Streams, Pages, Api
<1>3. HeapReachable'
  BY DEF SafeInv, HeapReachable, Change, appVars, ListBlocks, TokenBlocks, Links, Api
<1> QED
  BY <1>1, <1>2, <1>3 DEF SafeInv

(* The answer begins: its keys are keys, and the token is one of them. *)
LEMMA ServeFacts ==
    ASSUME ListingAssumption, SafeInv, Serve
    PROVE  \E rest \in Seq(Keys), size \in Nat :
              /\ Range(rest) = {key \in listed[PackedType] : key > PackedToken}
              /\ Ascending(rest)
              /\ size = IF Pages /\ PageSize < Len(rest) THEN PageSize ELSE Len(rest)
              /\ size \in 0 .. Len(rest)
              /\ page' = SubSeq(rest, 1, size)
              /\ \/ Pages /\ size = PageSize /\ pageToken' = rest[size]
                 \/ ~(Pages /\ size < Len(rest)) /\ pageToken' = None
<1> DEFINE ahead == {key \in listed[PackedType] : key > PackedToken}
<1>1. PackedType \in Types
  BY DEF PackedType, Type, SafeInv, TypeOK, ListingAssumption
<1>2. ahead \in SUBSET Keys
  BY <1>1 DEF SafeInv, TypeOK
<1>3. PICK rest \in Sorted(ahead) :
         LET size == IF Pages /\ PageSize < Len(rest) THEN PageSize ELSE Len(rest)
         IN  /\ page' = SubSeq(rest, 1, size)
             /\ \/ Pages /\ size = PageSize /\ pageToken' = rest[size]
                \/ ~(Pages /\ size < Len(rest)) /\ pageToken' = None
  BY DEF Serve
<1> HIDE DEF ahead
<1>4. rest \in Seq(Keys) /\ Range(rest) = ahead /\ Ascending(rest)
  BY <1>2, SortedIsSequence
<1> DEFINE n == IF Pages /\ PageSize < Len(rest) THEN PageSize ELSE Len(rest)
<1>5. n \in Nat /\ n \in 0 .. Len(rest)
  BY <1>4 DEF ListingAssumption
<1> QED
  <2>1. /\ page' = SubSeq(rest, 1, n)
        /\ \/ Pages /\ n = PageSize /\ pageToken' = rest[n]
           \/ ~(Pages /\ n < Len(rest)) /\ pageToken' = None
    BY <1>3
  <2> QED
    BY <1>4, <1>5, <2>1 DEF ahead

LEMMA SafeServe == ListingAssumption /\ SafeInv /\ Serve => SafeInv'
<1> SUFFICES ASSUME ListingAssumption, SafeInv, Serve PROVE SafeInv'
  OBVIOUS
<1>1. PICK rest \in Seq(Keys), size \in Nat :
         /\ size \in 0 .. Len(rest)
         /\ page' = SubSeq(rest, 1, size)
         /\ \/ Pages /\ size = PageSize /\ pageToken' = rest[size]
            \/ pageToken' = None
  BY ServeFacts
<1>2. page' \in Seq(Keys)
  BY <1>1
<1>3. pageToken' \in Keys \cup {None}
  BY <1>1 DEF ListingAssumption
<1>4. TypeOK'
  BY <1>2, <1>3 DEF SafeInv, TypeOK, Serve, nodeVars, appVars
<1>5. OutInv'
  BY <1>1 DEF SafeInv, OutInv, Serve, appVars, Arrays, Links, Streams, Pages, Api
<1>6. HeapReachable'
  BY DEF SafeInv, HeapReachable, Serve, appVars, ListBlocks, TokenBlocks, Links, Api
<1> QED
  BY <1>4, <1>5, <1>6 DEF SafeInv

(* A message moves its keys from what is to come to what was given. *)
LEMMA Moves ==
    ASSUME SafeInv, pc \in {"reading", "begun"}, NEW keys \in Seq(Keys), TakeKeys(keys)
    PROVE  /\ got' \in Seq(Keys)
           /\ list' = Null \/ (list' = <<list'[1]>> /\ list'[1] \in Seq(Keys))
           /\ StringsOf(list) \in Seq(Keys) /\ StringsOf(list') \in Seq(Keys)
           /\ got' \o StringsOf(list') = (got \o StringsOf(list)) \o keys
           /\ Arrays \/ Links => got' = got
           /\ ~(Arrays \/ Links) => got' = got \o keys /\ list' = Null
           /\ Arrays => list = << <<>> >> /\ list' = <<keys>>
           /\ Links => Len(StringsOf(list')) = Len(StringsOf(list)) + Len(keys)
<1> USE UseFacts
<1>1. got \in Seq(Keys) /\ StringsOf(list) \in Seq(Keys)
  BY DEF SafeInv, TypeOK, StringsOf
<1>2. CASE Links
  <2>1. got' = got /\ list' = Linked(list, keys)
    BY <1>2 DEF TakeKeys
  <2>2. CASE keys = <<>>
    <3>1. list' = list
      BY <2>1, <2>2 DEF Linked
    <3> QED
      <4>1. (got \o StringsOf(list)) \o keys = got \o StringsOf(list)
        BY <1>1, <2>2
      <4>2. list' = Null \/ (list' = <<list'[1]>> /\ list'[1] \in Seq(Keys))
        BY <3>1 DEF SafeInv, TypeOK
      <4>3. Len(StringsOf(list)) = Len(StringsOf(list)) + Len(keys)
        BY <1>1, <2>2
      <4> QED
        BY <1>1, <1>2, <2>1, <3>1, <4>1, <4>2, <4>3
  <2>3. CASE keys # <<>>
    <3>1. list' = <<StringsOf(list) \o keys>>
      BY <2>1, <2>3 DEF Linked
    <3>2. StringsOf(list') = StringsOf(list) \o keys
      BY <3>1 DEF StringsOf, Null
    <3>3. got \o (StringsOf(list) \o keys) = (got \o StringsOf(list)) \o keys
      <4> DEFINE strings == StringsOf(list)
      <4>1. strings \in Seq(Keys)
        BY <1>1
      <4> HIDE DEF strings
      <4>2. (got \o strings) \o keys = got \o (strings \o keys)
        BY <1>1, <4>1, Associates
      <4> QED
        BY <4>2 DEF strings
    <3>4. /\ StringsOf(list) \o keys \in Seq(Keys)
          /\ Len(StringsOf(list) \o keys) = Len(StringsOf(list)) + Len(keys)
      BY <1>1
    <3>5. list' = <<list'[1]>> /\ list'[1] \in Seq(Keys)
      BY <3>1, <3>4
    <3> QED
      BY <1>1, <1>2, <2>1, <3>2, <3>3, <3>4, <3>5
  <2> QED
    BY <2>2, <2>3
<1>3. CASE Arrays
  <2>1. got' = got /\ list' = <<keys>>
    BY <1>3 DEF TakeKeys
  <2>2. list = << <<>> >>
    BY <1>3 DEF SafeInv, OutInv
  <2>3. StringsOf(list) = <<>> /\ StringsOf(list') = keys
    BY <2>1, <2>2 DEF StringsOf, Null
  <2> QED
    BY <1>1, <1>3, <2>1, <2>2, <2>3, NothingBefore
<1>4. CASE ~Links /\ ~Arrays
  <2>1. got' = got \o keys /\ list' = list /\ list = Null
    BY <1>4 DEF TakeKeys, SafeInv, OutInv
  <2>2. StringsOf(list) = <<>> /\ StringsOf(list') = <<>>
    BY <2>1 DEF StringsOf
  <2>3. got \o keys \in Seq(Keys)
    BY <1>1
  <2> QED
    BY <1>1, <1>4, <2>1, <2>2, <2>3, NothingBefore
<1> QED
  BY <1>2, <1>3, <1>4

(* One call of the callback. *)
LEMMA MessageFacts ==
    ASSUME SafeInv, Message
    PROVE  \E k \in 0 .. Len(page), done \in BOOLEAN, keys \in Seq(Keys) :
              /\ done \/ ~Streams => k = Len(page) /\ done
              /\ keys = SubSeq(page, 1, k) /\ Len(keys) = k
              /\ page' = SubSeq(page, k + 1, Len(page)) /\ page' \in Seq(Keys)
              /\ keys \o page' = page
              /\ TakeKeys(keys)
              /\ tokenOut' = IF Pages THEN (IF done THEN pageToken ELSE None) ELSE tokenOut
              /\ heap' = heap + NewBlocks(k, IF done THEN pageToken ELSE None)
              /\ pc' = IF Streams /\ ~done THEN "begun" ELSE "success"
<1>1. PICK k \in 0 .. Len(page), done \in BOOLEAN :
        /\ done \/ ~Streams => k = Len(page) /\ done
        /\ page' = SubSeq(page, k + 1, Len(page))
        /\ TakeKeys(SubSeq(page, 1, k))
        /\ tokenOut' = IF Pages THEN (IF done THEN pageToken ELSE None) ELSE tokenOut
        /\ heap' = heap + NewBlocks(k, IF done THEN pageToken ELSE None)
        /\ pc' = IF Streams /\ ~done THEN "begun" ELSE "success"
  BY DEF Message, Continues
<1>2. page \in Seq(Keys)
  BY DEF SafeInv, TypeOK
<1>3. /\ SubSeq(page, 1, k) \in Seq(Keys) /\ Len(SubSeq(page, 1, k)) = k
      /\ SubSeq(page, k + 1, Len(page)) \in Seq(Keys)
      /\ SubSeq(page, 1, k) \o SubSeq(page, k + 1, Len(page)) = page
  BY <1>2, CutInTwo
<1> QED
  BY <1>1, <1>3

LEMMA SafeMessage == ListingAssumption /\ SafeInv /\ Message => SafeInv'
<1> SUFFICES ASSUME ListingAssumption, SafeInv, Message PROVE SafeInv'
  OBVIOUS
<1> USE UseFacts
<1>1. PICK k \in 0 .. Len(page), done \in BOOLEAN, keys \in Seq(Keys) :
         /\ done \/ ~Streams => k = Len(page) /\ done
         /\ Len(keys) = k /\ page' \in Seq(Keys)
         /\ TakeKeys(keys)
         /\ tokenOut' = IF Pages THEN (IF done THEN pageToken ELSE None) ELSE tokenOut
         /\ heap' = heap + NewBlocks(k, IF done THEN pageToken ELSE None)
         /\ pc' = IF Streams /\ ~done THEN "begun" ELSE "success"
  BY MessageFacts
<1>2. pc \in {"reading", "begun"}
  BY DEF Message
<1>3. /\ got' \in Seq(Keys)
      /\ list' = Null \/ (list' = <<list'[1]>> /\ list'[1] \in Seq(Keys))
      /\ StringsOf(list) \in Seq(Keys) /\ StringsOf(list') \in Seq(Keys)
      /\ Arrays \/ Links => got' = got
      /\ ~(Arrays \/ Links) => got' = got \o keys /\ list' = Null
      /\ Arrays => list = << <<>> >> /\ list' = <<keys>>
      /\ Links => Len(StringsOf(list')) = Len(StringsOf(list)) + Len(keys)
  BY <1>1, <1>2, Moves
<1>4. kept' = kept /\ use' = use /\ pageToken' = pageToken /\ tokenIn' = tokenIn
      /\ broken' = broken /\ listed' = listed /\ always' = always /\ ever' = ever
      /\ changes' = changes /\ failures' = failures
  BY DEF Message, nodeVars
<1>5. tokenOut = None
  BY <1>2 DEF SafeInv, OutInv
<1> DEFINE token == IF done THEN pageToken ELSE None
<1>6. heap' = heap + ListBlocks(list') - ListBlocks(list) + (IF Pages THEN TokenBlocks(token) ELSE 0)
      /\ ListBlocks(list) \in Nat /\ ListBlocks(list') \in Nat
  <2>1. heap' = heap + (KeyBlocks(k) + IF Pages THEN TokenBlocks(token) ELSE 0)
    BY <1>1 DEF NewBlocks
  <2>2. heap \in Nat /\ TokenBlocks(token) \in Nat
    BY DEF SafeInv, TypeOK, TokenBlocks
  <2>3. /\ ListBlocks(list) \in Nat /\ ListBlocks(list') \in Nat
        /\ KeyBlocks(k) = ListBlocks(list') - ListBlocks(list)
    <3>1. CASE Links
      <4>1. \A l : StringsOf(l) \in Seq(Keys) => ListBlocks(l) = 2 * Len(StringsOf(l))
        BY <3>1 DEF ListBlocks, StringsOf
      <4>2. /\ ListBlocks(list) = 2 * Len(StringsOf(list))
            /\ ListBlocks(list') = 2 * Len(StringsOf(list'))
        BY <4>1, <1>3
      <4>3. KeyBlocks(k) = 2 * k
        BY <3>1 DEF KeyBlocks
      <4>4. Len(StringsOf(list)) \in Nat /\ Len(StringsOf(list')) \in Nat
        BY <1>3
      <4>5. Len(StringsOf(list')) = Len(StringsOf(list)) + k /\ k \in Nat
        BY <3>1, <1>1, <1>3
      <4> QED
        BY <4>2, <4>3, <4>4, <4>5
    <3>2. CASE Arrays
      <4>0. \A l, t : l = <<t>> => l # Null /\ StringsOf(l) = t
        BY DEF StringsOf, Null
      <4>1. ListBlocks(list) = 1
        <5>1. list # Null /\ StringsOf(list) = <<>>
          BY <4>0, <3>2, <1>3
        <5> QED
          BY <5>1, <3>2 DEF ListBlocks
      <4>2. ListBlocks(list') = 1 + (IF k = 0 THEN 0 ELSE 1 + k)
        <5>1. list' # Null /\ StringsOf(list') = keys
          BY <4>0, <3>2, <1>3
        <5> QED
          BY <5>1, <3>2, <1>1 DEF ListBlocks
      <4>4. k \in Nat
        BY <1>1
      <4>3. KeyBlocks(k) = IF k > 0 THEN 1 + k ELSE 0
        BY <3>2 DEF KeyBlocks
      <4> QED
        BY <4>1, <4>2, <4>3, <4>4
    <3>3. CASE ~Links /\ ~Arrays
      <4>1. list = Null /\ list' = Null
        BY <3>3, <1>3 DEF SafeInv, OutInv
      <4> QED
        BY <3>3, <4>1 DEF ListBlocks, KeyBlocks
    <3> QED
      BY <3>1, <3>2, <3>3
  <2> QED
    BY <2>1, <2>2, <2>3
<1>7. HeapReachable'
  <2>1. heap = ListBlocks(list) + TokenBlocks(tokenIn)
    BY <1>5, <1>6 DEF SafeInv, HeapReachable, TokenBlocks
  <2>2. TokenBlocks(tokenOut') = IF Pages THEN TokenBlocks(token) ELSE 0
    BY <1>1, <1>5 DEF TokenBlocks
  <2>3. heap' = ListBlocks(list') + TokenBlocks(tokenIn) + TokenBlocks(tokenOut')
    BY <1>6, <2>1, <2>2 DEF TokenBlocks
  <2> QED
    BY <1>4, <2>3 DEF HeapReachable, ListBlocks, TokenBlocks, Links, Api
<1>8. TypeOK'
  <2>1. heap' \in Nat
    <3>1. heap = ListBlocks(list) + TokenBlocks(tokenIn)
      BY <1>5, <1>6 DEF SafeInv, HeapReachable, TokenBlocks
    <3>2. TokenBlocks(tokenIn) \in Nat /\ TokenBlocks(token) \in Nat
      BY DEF TokenBlocks
    <3> QED
      BY <1>6, <3>1, <3>2
  <2>2. kept' \in 0 .. Len(got')
    <3>1. kept \in 0 .. Len(got) /\ got \in Seq(Keys)
      BY DEF SafeInv, TypeOK
    <3>2. Len(got \o keys) = Len(got) + Len(keys)
      BY <1>1, <3>1
    <3>3. got' = got \/ got' = got \o keys
      BY <1>3
    <3> QED
      BY <1>1, <1>4, <3>1, <3>2, <3>3
  <2>3. tokenOut' \in Keys \cup {None}
    BY <1>1, <1>5 DEF SafeInv, TypeOK
  <2>4. pc' \in {"begun", "success"}
    BY <1>1
  <2> QED
    BY <1>1, <1>3, <1>4, <2>1, <2>2, <2>3, <2>4 DEF SafeInv, TypeOK
<1>9. OutInv'
  <2>1. pc' = "begun" => Streams /\ ~Arrays /\ ~done
    BY <1>1
  <2>2. pc' \in {"begun", "success"}
    BY <1>1
  <2>3. pc' # "success" => tokenOut' = None
    BY <1>1, <1>5, <2>1
  <2>4. ~broken
    BY <1>2 DEF SafeInv, OutInv
  <2> QED
    BY <1>2, <1>3, <1>4, <2>1, <2>2, <2>3, <2>4
       DEF SafeInv, OutInv, Arrays, Links, Streams, Pages, Api
<1> QED
  BY <1>7, <1>8, <1>9 DEF SafeInv

LEMMA SafeFail == ListingAssumption /\ SafeInv /\ Fail => SafeInv'
<1> SUFFICES ASSUME ListingAssumption, SafeInv, Fail PROVE SafeInv'
  OBVIOUS
<1>1. /\ pc \in {"sent", "reading", "begun"} /\ failures < MaxFailures
      /\ failures' = failures + 1
      /\ \/ pc' = "failure" /\ broken' = broken
         \/ pc' = "success" /\ broken' = TRUE
      /\ UNCHANGED <<listed, always, ever, changes, use, page, pageToken, list, tokenOut,
                     tokenIn, got, kept, heap>>
  BY DEF Fail, nodeVars, answerVars, appVars
<1>2. TypeOK'
  <2>1. failures' \in 0 .. MaxFailures
    BY <1>1 DEF SafeInv, TypeOK, ListingAssumption
  <2>2. broken' \in BOOLEAN
    BY <1>1 DEF SafeInv, TypeOK
  <2>3. pc' \in {"failure", "success"}
    BY <1>1
  <2> QED
    BY <1>1, <2>1, <2>2, <2>3 DEF SafeInv, TypeOK
<1>3. OutInv'
  BY <1>1 DEF SafeInv, OutInv, Arrays, Links, Streams, Pages, Api
<1>4. HeapReachable'
  BY <1>1 DEF SafeInv, HeapReachable, ListBlocks, TokenBlocks, Links, Api
<1> QED
  BY <1>2, <1>3, <1>4 DEF SafeInv

(* The application frees the list: what is left are the tokens. *)
LEMMA BlocksAreCounted ==
    ASSUME SafeInv
    PROVE  /\ ListBlocks(list) \in Nat
           /\ \A token : TokenBlocks(token) \in Nat
           /\ got \in Seq(Keys) /\ StringsOf(list) \in Seq(Keys)
           /\ got \o StringsOf(list) \in Seq(Keys)
           /\ Len(got \o StringsOf(list)) \in Nat /\ Len(got \o StringsOf(list)) >= Len(got)
<1>1. got \in Seq(Keys) /\ StringsOf(list) \in Seq(Keys)
  BY DEF SafeInv, TypeOK, StringsOf
<1>2. ListBlocks(list) \in Nat
  BY <1>1 DEF ListBlocks
<1>3. \A token : TokenBlocks(token) \in Nat
  BY DEF TokenBlocks
<1> QED
  BY <1>1, <1>2, <1>3

LEMMA SafeUsePage == SafeInv /\ UsePage => SafeInv'
<1> SUFFICES ASSUME SafeInv, UsePage PROVE SafeInv'
  OBVIOUS
<1>1. /\ pc = "success" /\ got' = got \o StringsOf(list) /\ list' = Null
      /\ heap' = heap - ListBlocks(list) - TokenBlocks(tokenIn)
      /\ tokenIn' = tokenOut /\ tokenOut' = None
      /\ pc' = IF tokenOut = None THEN "done" ELSE "ready"
      /\ UNCHANGED <<listed, always, ever, changes, use, page, pageToken, kept, broken,
                     failures>>
  BY DEF UsePage, FreedBlocks, nodeVars, answerVars
<1>2. heap' = TokenBlocks(tokenOut)
  BY <1>1, BlocksAreCounted DEF SafeInv, HeapReachable
<1>3. TypeOK'
  <2>1. heap' \in Nat /\ got' \in Seq(Keys)
    BY <1>1, <1>2, BlocksAreCounted
  <2>2. kept' \in 0 .. Len(got')
    BY <1>1, BlocksAreCounted DEF SafeInv, TypeOK
  <2>3. pc' \in {"ready", "done"}
    BY <1>1
  <2> QED
    BY <1>1, <2>1, <2>2, <2>3 DEF SafeInv, TypeOK
<1>4. OutInv'
  BY <1>1 DEF SafeInv, OutInv, Arrays, Links, Streams, Pages, Api
<1>5. HeapReachable'
  BY <1>1, <1>2 DEF HeapReachable, ListBlocks, TokenBlocks
<1> QED
  BY <1>3, <1>4, <1>5 DEF SafeInv

LEMMA SafeRetry == SafeInv /\ Retry => SafeInv'
<1> SUFFICES ASSUME SafeInv, Retry PROVE SafeInv'
  OBVIOUS
<1>1. /\ pc = "failure" /\ pc' = "ready" /\ got' = SubSeq(got, 1, kept) /\ list' = Null
      /\ heap' = heap - ListBlocks(list)
      /\ UNCHANGED <<listed, always, ever, changes, use, page, pageToken, tokenIn, tokenOut,
                     kept, broken, failures>>
  BY DEF Retry, FreedBlocks, nodeVars, answerVars
<1>2. heap' = TokenBlocks(tokenIn) + TokenBlocks(tokenOut)
  BY <1>1, BlocksAreCounted DEF SafeInv, HeapReachable
<1>3. TypeOK'
  <2>1. heap' \in Nat
    BY <1>2, BlocksAreCounted
  <2>2. got' \in Seq(Keys) /\ Len(got') = kept /\ kept \in Nat
    BY <1>1 DEF SafeInv, TypeOK
  <2> QED
    BY <1>1, <2>1, <2>2 DEF SafeInv, TypeOK
<1>4. OutInv'
  BY <1>1 DEF SafeInv, OutInv, Arrays, Links, Streams, Pages, Api
<1>5. HeapReachable'
  BY <1>1, <1>2, BlocksAreCounted DEF HeapReachable, ListBlocks, TokenBlocks
<1> QED
  BY <1>3, <1>4, <1>5 DEF SafeInv

LEMMA SafeStutter == SafeInv /\ UNCHANGED vars => SafeInv'
<1> SUFFICES ASSUME SafeInv, UNCHANGED vars PROVE SafeInv'
  OBVIOUS
<1> USE DEF vars, nodeVars, answerVars, appVars
<1>1. TypeOK'
  BY DEF SafeInv, TypeOK
<1>2. OutInv'
  BY DEF SafeInv, OutInv, Arrays, Links, Streams, Pages, Api
<1>3. HeapReachable'
  BY DEF SafeInv, HeapReachable, ListBlocks, TokenBlocks, Links, Api
<1> QED
  BY <1>1, <1>2, <1>3 DEF SafeInv

LEMMA SafeNext == ListingAssumption /\ SafeInv /\ [Next]_vars => SafeInv'
BY SafeAsk, SafeChange, SafeServe, SafeMessage, SafeFail, SafeUsePage, SafeRetry, SafeStutter
   DEF Next, Library, Terminated

(* Every reachable state is well typed. *)
THEOREM TypeCorrect == Spec => []TypeOK
<1>1. SafeInv => TypeOK
  BY DEF SafeInv
<1> QED
  BY ListingAssumption, SafeInit, SafeNext, <1>1, PTL DEF Spec

(* Every block the library has allocated can be reached from the application's
   pointers, whichever function it calls, in however many messages the answer
   comes and whichever commands fail (HeapReachable): riack_2i.c:43-71 and
   216, riack_helpers.c:245-317. *)
THEOREM NoBlockIsLost == Spec => []HeapReachable
<1>1. SafeInv => HeapReachable
  BY DEF SafeInv
<1> QED
  BY ListingAssumption, SafeInit, SafeNext, <1>1, PTL DEF Spec

-----------------------------------------------------------------------------
(* What the application is given *)

(* The keys it has been given so far, those in its list included, and these with
   what is still to come of the answer. *)
Given == got \o StringsOf(list)
Whole == Given \o page

(* What it had before the command. *)
Before == IF pc = "ready" THEN got ELSE SubSeq(got, 1, kept)

Answering == pc \in {"reading", "begun"}

LEMMA GivenFacts ==
    ASSUME SafeInv
    PROVE  /\ got \in Seq(Keys) /\ StringsOf(list) \in Seq(Keys) /\ page \in Seq(Keys)
           /\ Given \in Seq(Keys) /\ Whole \in Seq(Keys) /\ Before \in Seq(Keys)
           /\ kept \in 0 .. Len(got)
           /\ list = Null => Given = got
           /\ Range(Before) \subseteq Range(got) /\ Range(got) \subseteq Range(Given)
           /\ Range(Whole) = Range(Given) \cup Range(page)
<1>1. /\ got \in Seq(Keys) /\ StringsOf(list) \in Seq(Keys) /\ page \in Seq(Keys)
      /\ kept \in 0 .. Len(got)
  BY DEF SafeInv, TypeOK, StringsOf
<1>2. Given \in Seq(Keys) /\ Whole \in Seq(Keys)
  BY <1>1 DEF Given, Whole
<1>3. Before \in Seq(Keys)
  BY <1>1 DEF Before
<1>4. list = Null => Given = got
  BY <1>1 DEF Given, StringsOf
<1>5. Range(Before) \subseteq Range(got)
  BY <1>1, RangeOfPart DEF Before
<1>6. Range(got) \subseteq Range(Given)
  <2>1. Range(Given) = Range(got) \cup Range(StringsOf(list))
    <3> DEFINE strings == StringsOf(list)
    <3>1. strings \in Seq(Keys)
      BY <1>1
    <3> HIDE DEF strings
    <3>2. Range(got \o strings) = Range(got) \cup Range(strings)
      BY <1>1, <3>1, RangeOfBoth
    <3> QED
      BY <3>2 DEF Given, strings
  <2> QED
    BY <2>1
<1>7. Range(Whole) = Range(Given) \cup Range(page)
  BY <1>1, <1>2, RangeOfBoth DEF Whole
<1> QED
  BY <1>1, <1>2, <1>3, <1>4, <1>5, <1>6, <1>7

(* A message changes who has a key, not which keys there are. *)
LEMMA MessageGiven ==
    ASSUME ListingAssumption, SafeInv, Message
    PROVE  /\ Whole' = Whole /\ Range(Before') = Range(Before)
           /\ Answering /\ pc' \in {"begun", "success"}
           /\ pageToken' = pageToken /\ tokenIn' = tokenIn
           /\ got' \in Seq(Keys) /\ StringsOf(list') \in Seq(Keys)
           /\ page' \in Seq(Keys) /\ Given' \in Seq(Keys)
           /\ pc' = "success" => /\ Given' = Whole
                                 /\ tokenOut' = IF Pages THEN pageToken ELSE None
<1>1. PICK k \in 0 .. Len(page), done \in BOOLEAN, keys \in Seq(Keys) :
         /\ done \/ ~Streams => k = Len(page) /\ done
         /\ keys = SubSeq(page, 1, k)
         /\ page' \in Seq(Keys) /\ keys \o page' = page
         /\ TakeKeys(keys)
         /\ tokenOut' = IF Pages THEN (IF done THEN pageToken ELSE None) ELSE tokenOut
         /\ pc' = IF Streams /\ ~done THEN "begun" ELSE "success"
  BY MessageFacts
<1>2. /\ pc \in {"reading", "begun"} /\ kept' = kept /\ pageToken' = pageToken
      /\ tokenIn' = tokenIn
  BY DEF Message
<1>3. /\ got' \o StringsOf(list') = (got \o StringsOf(list)) \o keys
      /\ got' = got \/ got' = got \o keys
      /\ got' \in Seq(Keys) /\ StringsOf(list') \in Seq(Keys)
  BY <1>1, <1>2, Moves
<1>4. /\ got \in Seq(Keys) /\ Given \in Seq(Keys) /\ page \in Seq(Keys)
      /\ kept \in 0 .. Len(got)
  BY GivenFacts
<1>5. Given' = Given \o keys /\ Given' \in Seq(Keys)
  BY <1>3, <1>4 DEF Given
<1>6. Whole' = Whole
  <2>1. (Given \o keys) \o page' = Given \o (keys \o page')
    <3>1. Given \in Seq(Keys) /\ keys \in Seq(Keys) /\ page' \in Seq(Keys)
      BY <1>1, <1>4
    <3> QED
      BY ONLY <3>1, Associates
  <2> QED
    BY <1>1, <1>5, <2>1 DEF Whole
<1>7. Range(Before') = Range(Before)
  <2>1. SubSeq(got', 1, kept) = SubSeq(got, 1, kept)
    BY <1>1, <1>3, <1>4, SameBeginning
  <2>2. pc \notin {"ready"} /\ pc' \notin {"ready"}
    BY <1>1, <1>2
  <2> QED
    BY <1>2, <2>1, <2>2 DEF Before
<1>8. ASSUME pc' = "success"
      PROVE  Given' = Whole /\ tokenOut' = IF Pages THEN pageToken ELSE None
  <2>1. k = Len(page) /\ done
    BY <1>1, <1>8
  <2>2. keys = page
    BY <1>1, <1>4, <2>1, AllOfIt
  <2>3. tokenOut = None
    BY <1>2 DEF SafeInv, OutInv
  <2> QED
    BY <1>1, <1>5, <2>1, <2>2, <2>3 DEF Whole
<1> QED
  BY <1>1, <1>2, <1>3, <1>5, <1>6, <1>7, <1>8 DEF Answering

LEMMA KeysAreNumbers ==
    ASSUME ListingAssumption, NEW s \in Seq(Keys)
    PROVE  s \in Seq(Nat)
<1>1. s \in [1 .. Len(s) -> Keys] /\ Len(s) \in Nat
  OBVIOUS
<1>2. s \in [1 .. Len(s) -> Nat]
  BY <1>1 DEF ListingAssumption
<1> QED
  BY <1>1, <1>2

(* The keys of an answer are all beyond the token asked with, those given before
   all up to it. *)
OrderInv ==
    /\ Ascending(got)
    /\ Answering \/ pc = "success" => Ascending(Whole)
    /\ Answering /\ pageToken # None => \A key \in Range(Whole) : key <= pageToken
    /\ pc = "success" /\ tokenOut # None => \A key \in Range(Given) : key <= tokenOut
    /\ pc # "done" => \A key \in Range(Before) : key <= tokenIn

LEMMA OrderInit == Init => OrderInv
<1> SUFFICES ASSUME Init PROVE OrderInv
  OBVIOUS
<1>1. Ascending(got) /\ Before = <<>>
  BY DEF Init, Ascending, Before
<1>2. Range(<<>>) = {}
  BY DEF Range
<1> QED
  BY <1>1, <1>2 DEF Init, OrderInv, Answering

LEMMA OrderAsk == SafeInv /\ OrderInv /\ Ask => OrderInv'
<1> SUFFICES ASSUME SafeInv, OrderInv, Ask PROVE OrderInv'
  OBVIOUS
<1>1. pc = "ready" /\ pc' = "sent" /\ got' = got /\ kept' = Len(got) /\ tokenIn' = tokenIn
  BY DEF Ask
<1>2. Before' = Before
  <2>1. SubSeq(got, 1, Len(got)) = got
    BY GivenFacts, AllOfIt
  <2> QED
    BY <1>1, <2>1 DEF Before
<1> QED
  BY <1>1, <1>2 DEF OrderInv, Answering

LEMMA OrderServe == ListingAssumption /\ SafeInv /\ OrderInv /\ Serve => OrderInv'
<1> SUFFICES ASSUME ListingAssumption, SafeInv, OrderInv, Serve PROVE OrderInv'
  OBVIOUS
<1>1. PICK rest \in Seq(Keys), size \in Nat :
         /\ Range(rest) = {key \in listed[PackedType] : key > PackedToken}
         /\ Ascending(rest)
         /\ size \in 0 .. Len(rest)
         /\ page' = SubSeq(rest, 1, size)
         /\ \/ Pages /\ size = PageSize /\ pageToken' = rest[size]
            \/ pageToken' = None
  BY ServeFacts
<1>2. pc = "sent" /\ pc' = "reading" /\ got' = got /\ list' = list /\ kept' = kept
      /\ tokenIn' = tokenIn /\ tokenOut' = tokenOut
  BY DEF Serve, appVars
<1>3. /\ got \in Seq(Nat) /\ rest \in Seq(Nat) /\ tokenIn \in Nat
      /\ page' \in Seq(Nat) /\ Len(page') = size /\ \A i \in 1 .. size : page'[i] = rest[i]
  <2>1. got \in Seq(Nat) /\ rest \in Seq(Nat)
    BY GivenFacts, KeysAreNumbers
  <2>2. tokenIn \in Nat
    BY DEF SafeInv, TypeOK, ListingAssumption, None
  <2> QED
    BY <1>1, <2>1, <2>2
<1>4. Given = got /\ Before = got /\ Before' = Before
  <2>1. StringsOf(list) = <<>> /\ kept = Len(got)
    BY <1>2 DEF SafeInv, OutInv, StringsOf, Null
  <2>2. SubSeq(got, 1, Len(got)) = got
    BY <1>3
  <2> QED
    BY <1>2, <1>3, <2>1, <2>2 DEF Given, Before
<1>5. Given' = got /\ Whole' = got \o page'
  BY <1>2, <1>4 DEF Given, Whole
<1>6. \A i \in 1 .. Len(got) : got[i] <= tokenIn
  BY <1>2, <1>4 DEF OrderInv, Range
<1>7. \A i \in 1 .. Len(rest) : rest[i] > tokenIn
  BY <1>1 DEF Range, PackedToken
<1>8. Ascending(page')
  BY <1>1, <1>3, AscendingPart
<1>9. Ascending(Whole')
  <2>1. \A i \in DOMAIN got, j \in DOMAIN page' : got[i] < page'[j]
    <3> SUFFICES ASSUME NEW i \in 1 .. Len(got), NEW j \in 1 .. size PROVE got[i] < page'[j]
      <4> DOMAIN got = 1 .. Len(got) /\ DOMAIN page' = 1 .. size
        BY <1>3
      <4> QED
        OBVIOUS
    <3>1. got[i] <= tokenIn /\ rest[j] > tokenIn /\ page'[j] = rest[j]
      BY <1>1, <1>3, <1>6, <1>7
    <3>2. got[i] \in Nat /\ rest[j] \in Nat
      BY <1>1, <1>3
    <3> QED
      BY <1>3, <3>1, <3>2
  <2> QED
    BY <1>3, <1>5, <1>8, <2>1, AscendingBoth DEF OrderInv
<1>10. ASSUME pageToken' # None PROVE \A key \in Range(Whole') : key <= pageToken'
  <2>1. size \in 1 .. Len(rest) /\ pageToken' = rest[size]
    BY <1>1, <1>10 DEF ListingAssumption
  <2>2. Range(Whole') = Range(got) \cup Range(page')
    BY <1>3, <1>5, RangeOfBoth
  <2>3. ASSUME NEW key \in Range(got) PROVE key <= pageToken'
    <3>1. PICK i \in 1 .. Len(got) : key = got[i]
      BY <1>3 DEF Range
    <3> QED
      BY <1>3, <1>6, <1>7, <2>1, <3>1
  <2>4. ASSUME NEW key \in Range(page') PROVE key <= pageToken'
    <3>1. PICK i \in 1 .. size : key = rest[i]
      <4>1. DOMAIN page' = 1 .. size
        BY <1>3
      <4>2. PICK i \in DOMAIN page' : key = page'[i]
        BY DEF Range
      <4> QED
        BY <1>3, <4>1, <4>2
    <3>2. i \in DOMAIN rest /\ size \in DOMAIN rest /\ rest[i] \in Nat /\ rest[size] \in Nat
      BY <1>3, <2>1
    <3>3. i < size => rest[i] < rest[size]
      BY <1>1, <3>2 DEF Ascending
    <3> QED
      BY <2>1, <3>1, <3>2, <3>3
  <2> QED
    BY <2>2, <2>3, <2>4
<1> QED
  BY <1>2, <1>4, <1>9, <1>10 DEF OrderInv, Answering

LEMMA OrderMessage == ListingAssumption /\ SafeInv /\ OrderInv /\ Message => OrderInv'
<1> SUFFICES ASSUME ListingAssumption, SafeInv, OrderInv, Message PROVE OrderInv'
  OBVIOUS
<1>1. /\ Whole' = Whole /\ Range(Before') = Range(Before)
      /\ Answering /\ pc' \in {"begun", "success"}
      /\ pageToken' = pageToken /\ tokenIn' = tokenIn
      /\ got' \in Seq(Keys) /\ StringsOf(list') \in Seq(Keys)
      /\ page' \in Seq(Keys) /\ Given' \in Seq(Keys)
      /\ pc' = "success" => Given' = Whole /\ tokenOut' = IF Pages THEN pageToken ELSE None
  BY MessageGiven
<1>2. Ascending(Whole')
  BY <1>1 DEF OrderInv
<1>3. Ascending(got')
  <2>1. Ascending(Given' \o page')
    BY <1>2 DEF Whole
  <2>2. Given' \in Seq(Nat) /\ page' \in Seq(Nat)
    BY <1>1, KeysAreNumbers
  <2>3. Ascending(Given')
    BY <2>1, <2>2, AscendingPrefix
  <2>4. Ascending(got' \o StringsOf(list'))
    BY <2>3 DEF Given
  <2>5. got' \in Seq(Nat) /\ StringsOf(list') \in Seq(Nat)
    BY <1>1, KeysAreNumbers
  <2> QED
    BY <2>4, <2>5, AscendingPrefix
<1>4. ASSUME pc' = "success", tokenOut' # None PROVE \A key \in Range(Given') : key <= tokenOut'
  <2>1. Given' = Whole /\ tokenOut' = pageToken /\ pageToken # None
    BY <1>1, <1>4
  <2> QED
    BY <1>1, <2>1 DEF OrderInv
<1> QED
  BY <1>1, <1>2, <1>3, <1>4 DEF OrderInv, Answering

LEMMA OrderUsePage == ListingAssumption /\ SafeInv /\ OrderInv /\ UsePage => OrderInv'
<1> SUFFICES ASSUME ListingAssumption, SafeInv, OrderInv, UsePage PROVE OrderInv'
  OBVIOUS
<1>1. /\ pc = "success" /\ got' = Given /\ tokenIn' = tokenOut
      /\ pc' = IF tokenOut = None THEN "done" ELSE "ready"
  BY DEF UsePage, Given
<1>2. Ascending(got')
  <2>1. Given \in Seq(Nat) /\ page \in Seq(Nat)
    BY GivenFacts, KeysAreNumbers
  <2> QED
    BY <1>1, <2>1, AscendingPrefix DEF OrderInv, Whole
<1>3. pc' # "done" => \A key \in Range(Before') : key <= tokenIn'
  BY <1>1 DEF OrderInv, Before
<1> QED
  BY <1>1, <1>2, <1>3 DEF OrderInv, Answering

LEMMA OrderRetry == ListingAssumption /\ SafeInv /\ OrderInv /\ Retry => OrderInv'
<1> SUFFICES ASSUME ListingAssumption, SafeInv, OrderInv, Retry PROVE OrderInv'
  OBVIOUS
<1>1. /\ pc = "failure" /\ pc' = "ready" /\ got' = SubSeq(got, 1, kept)
      /\ tokenIn' = tokenIn
  BY DEF Retry
<1>2. Ascending(got')
  <2>1. got \in Seq(Nat) /\ kept \in 0 .. Len(got)
    BY GivenFacts, KeysAreNumbers
  <2> QED
    BY <1>1, <2>1, AscendingPart DEF OrderInv
<1>3. Before' = Before
  BY <1>1 DEF Before
<1> QED
  BY <1>1, <1>2, <1>3 DEF OrderInv, Answering

(* The other steps change none of it, or forget the answer. *)
LEMMA OrderFail == SafeInv /\ OrderInv /\ Fail => OrderInv'
<1> SUFFICES ASSUME SafeInv, OrderInv, Fail PROVE OrderInv'
  OBVIOUS
<1>1. /\ pc \in {"sent", "reading", "begun"} /\ pc' \in {"failure", "success"}
      /\ pc' = "success" => pc = "begun"
      /\ UNCHANGED <<page, pageToken, list, tokenOut, tokenIn, got, kept>>
  BY DEF Fail, answerVars, appVars
<1>2. Given' = Given /\ Whole' = Whole /\ Before' = Before
  BY <1>1 DEF Given, Whole, Before
<1>3. tokenOut = None
  BY <1>1 DEF SafeInv, OutInv
<1> QED
  BY <1>1, <1>2, <1>3 DEF OrderInv, Answering

LEMMA OrderKept ==
    ASSUME OrderInv, UNCHANGED <<page, pageToken, list, tokenOut, tokenIn, got, kept, pc>>
    PROVE  OrderInv'
<1>1. Given' = Given /\ Whole' = Whole /\ Before' = Before
  BY DEF Given, Whole, Before
<1> QED
  BY <1>1 DEF OrderInv, Answering

LEMMA OrderNext == ListingAssumption /\ SafeInv /\ OrderInv /\ [Next]_vars => OrderInv'
<1> SUFFICES ASSUME ListingAssumption, SafeInv, OrderInv, [Next]_vars PROVE OrderInv'
  OBVIOUS
<1>1. CASE Change
  BY <1>1, OrderKept DEF Change, answerVars, appVars
<1>2. CASE UNCHANGED vars
  BY <1>2, OrderKept DEF vars, answerVars, appVars
<1> QED
  BY <1>1, <1>2, OrderAsk, OrderServe, OrderMessage, OrderFail, OrderUsePage, OrderRetry
     DEF Next, Library, Terminated

(* The application is given the keys in the order of the node and none of them
   twice, over all pages (InOrder), for any page size, any changes by other
   clients and any number of commands that fail: riack_2i.c:43-71, 144-226,
   riack_kv.c:165-203, riack_helpers.c:292-317. *)
THEOREM NoKeyTwice == Spec => []InOrder
<1>1. OrderInv => InOrder
  BY DEF OrderInv, InOrder
<1> QED
  BY ListingAssumption, SafeInit, SafeNext, OrderInit, OrderNext, <1>1, PTL DEF Spec

-----------------------------------------------------------------------------
(* Keys of the type asked for.  The exact query cannot ask for one. *)

ExactAsksDefault == \A u \in Uses : u[1] = "riack_2i_query_exact" => u[2] = DefaultType

TypedInv ==
    /\ always \subseteq listed[Type]
    /\ listed[Type] \subseteq ever
    /\ Range(Given) \subseteq ever
    /\ Range(page) \subseteq ever

LEMMA TypedInit == Init => TypedInv
<1> SUFFICES ASSUME Init PROVE TypedInv
  OBVIOUS
<1>1. Given = <<>> /\ page = <<>>
  BY DEF Init, Given, StringsOf
<1>2. Range(<<>>) = {}
  BY DEF Range
<1> QED
  BY <1>1, <1>2 DEF Init, TypedInv

(* What is asked for is what the node lists. *)
LEMMA AskedFor ==
    ASSUME ExactAsksDefault, SafeInv
    PROVE  PackedType = Type
BY DEF ExactAsksDefault, SafeInv, TypeOK, PackedType, Type, Api

LEMMA TypedAsk == SafeInv /\ TypedInv /\ Ask => TypedInv'
<1> SUFFICES ASSUME SafeInv, TypedInv, Ask PROVE TypedInv'
  OBVIOUS
<1>1. /\ pc = "ready" /\ got' = got /\ StringsOf(list') = <<>>
      /\ UNCHANGED <<listed, always, ever, use, page>>
  BY DEF Ask, nodeVars, answerVars, StringsOf, Null
<1>2. Given' = Given
  <2>1. got \in Seq(Keys) /\ Given = got
    BY <1>1, GivenFacts DEF SafeInv, OutInv
  <2> QED
    BY <1>1, <2>1, NothingBefore DEF Given
<1> QED
  BY <1>1, <1>2 DEF TypedInv, Type

LEMMA TypedChange == TypedInv /\ Change => TypedInv'
<1> SUFFICES ASSUME TypedInv, Change PROVE TypedInv'
  OBVIOUS
<1>1. /\ always' = always \cap listed'[Type] /\ ever' = ever \cup listed'[Type]
      /\ UNCHANGED <<use, page, list, got>>
  BY DEF Change, answerVars, appVars
<1>2. Given' = Given /\ Type' = Type
  BY <1>1 DEF Given, Type
<1> QED
  BY <1>1, <1>2 DEF TypedInv

LEMMA TypedServe ==
    ListingAssumption /\ ExactAsksDefault /\ SafeInv /\ TypedInv /\ Serve => TypedInv'
<1> SUFFICES ASSUME ListingAssumption, ExactAsksDefault, SafeInv, TypedInv, Serve PROVE TypedInv'
  OBVIOUS
<1>1. PICK rest \in Seq(Keys), size \in Nat :
         /\ Range(rest) = {key \in listed[PackedType] : key > PackedToken}
         /\ size \in 0 .. Len(rest)
         /\ page' = SubSeq(rest, 1, size)
  BY ServeFacts
<1>2. Range(page') \subseteq listed[Type]
  BY <1>1, RangeOfPart, AskedFor
<1>3. UNCHANGED <<listed, always, ever, use, got, list>>
  BY DEF Serve, nodeVars, appVars
<1>4. Given' = Given /\ Type' = Type
  BY <1>3 DEF Given, Type
<1> QED
  BY <1>2, <1>3, <1>4 DEF TypedInv

LEMMA TypedMessage == ListingAssumption /\ SafeInv /\ TypedInv /\ Message => TypedInv'
<1> SUFFICES ASSUME ListingAssumption, SafeInv, TypedInv, Message PROVE TypedInv'
  OBVIOUS
<1>1. Whole' = Whole /\ page' \in Seq(Keys) /\ Given' \in Seq(Keys)
  BY MessageGiven
<1>2. Range(Whole') = Range(Given') \cup Range(page')
  <2>1. Given' \in Seq(Keys) /\ page' \in Seq(Keys)
    BY <1>1
  <2>2. Range(Given' \o page') = Range(Given') \cup Range(page')
    BY ONLY <2>1, RangeOfBoth
  <2> QED
    BY <2>2 DEF Whole
<1>3. Range(Whole) = Range(Given) \cup Range(page)
  BY GivenFacts
<1>4. UNCHANGED <<listed, always, ever, use>>
  BY DEF Message, nodeVars
<1> QED
  BY <1>1, <1>2, <1>3, <1>4 DEF TypedInv, Type

LEMMA TypedUsePage == SafeInv /\ TypedInv /\ UsePage => TypedInv'
<1> SUFFICES ASSUME SafeInv, TypedInv, UsePage PROVE TypedInv'
  OBVIOUS
<1>1. /\ got' = Given /\ StringsOf(list') = <<>>
      /\ UNCHANGED <<listed, always, ever, use, page>>
  BY DEF UsePage, Given, nodeVars, answerVars, StringsOf
<1>2. Given' = Given
  BY <1>1, GivenFacts, NothingBefore DEF Given
<1> QED
  BY <1>1, <1>2 DEF TypedInv, Type

LEMMA TypedRetry == SafeInv /\ TypedInv /\ Retry => TypedInv'
<1> SUFFICES ASSUME SafeInv, TypedInv, Retry PROVE TypedInv'
  OBVIOUS
<1>1. /\ got' = SubSeq(got, 1, kept) /\ StringsOf(list') = <<>>
      /\ UNCHANGED <<listed, always, ever, use, page>>
  BY DEF Retry, nodeVars, answerVars, StringsOf
<1>2. got' \in Seq(Keys) /\ Range(got') \subseteq Range(got)
  BY <1>1, GivenFacts, RangeOfPart
<1>3. Given' = got'
  BY <1>1, <1>2, NothingBefore DEF Given
<1>4. Range(got) \subseteq Range(Given)
  BY GivenFacts
<1> QED
  BY <1>1, <1>2, <1>3, <1>4 DEF TypedInv, Type

LEMMA TypedKept ==
    ASSUME TypedInv, UNCHANGED <<listed, always, ever, use, page, list, got>>
    PROVE  TypedInv'
<1>1. Given' = Given
  BY DEF Given
<1> QED
  BY <1>1 DEF TypedInv, Type

LEMMA TypedNext ==
    ListingAssumption /\ ExactAsksDefault /\ SafeInv /\ TypedInv /\ [Next]_vars => TypedInv'
<1> SUFFICES ASSUME ListingAssumption, ExactAsksDefault, SafeInv, TypedInv, [Next]_vars
             PROVE  TypedInv'
  OBVIOUS
<1>1. CASE Fail
  BY <1>1, TypedKept DEF Fail, nodeVars, answerVars, appVars
<1>2. CASE UNCHANGED vars
  BY <1>2, TypedKept DEF vars, nodeVars, answerVars, appVars
<1> QED
  BY <1>1, <1>2, TypedAsk, TypedChange, TypedServe, TypedMessage, TypedUsePage, TypedRetry
     DEF Next, Library, Terminated

(* As long as the exact query is only used for the default type, the application
   is given keys of the type it asked for and no others (OnlyOfType):
   riack_2i.c:99 and 136 are the places that make the assumption necessary. *)
THEOREM KeysAreOfType ==
    ASSUME ExactAsksDefault
    PROVE  Spec => []OnlyOfType
<1>1. SafeInv /\ TypedInv => OnlyOfType
  <2> SUFFICES ASSUME SafeInv, TypedInv PROVE OnlyOfType
    OBVIOUS
  <2> DEFINE strings == StringsOf(list)
  <2>1. got \in Seq(Keys) /\ strings \in Seq(Keys)
    BY GivenFacts
  <2> HIDE DEF strings
  <2>2. Range(got \o strings) = Range(got) \cup Range(strings)
    BY <2>1, RangeOfBoth
  <2> QED
    BY <2>2 DEF TypedInv, OnlyOfType, Given, strings
<1> QED
  BY ListingAssumption, SafeInit, SafeNext, TypedInit, TypedNext, <1>1, PTL DEF Spec

-----------------------------------------------------------------------------
(* Nothing is missed *)

(* A key that has been there all along has been given, is in the answer, or is
   beyond the token that will be asked with next. *)
CompleteInv ==
    /\ pc # "done" => \A key \in always : key \in Range(Before) \/ key > tokenIn
    /\ Answering =>
          \A key \in always : key \in Range(Whole) \/ (pageToken # None /\ key > pageToken)
    /\ pc = "success" /\ ~broken =>
          \A key \in always : key \in Range(Given) \/ (tokenOut # None /\ key > tokenOut)
    /\ Complete

LEMMA CompleteInit == ListingAssumption /\ Init => CompleteInv
<1> SUFFICES ASSUME ListingAssumption, Init PROVE CompleteInv
  OBVIOUS
<1>1. \A key \in always : key > tokenIn
  <2>1. Type \in Types
    BY DEF Init, Type, ListingAssumption
  <2>2. always \subseteq Nat \ {0}
    BY <2>1 DEF Init, ListingAssumption
  <2> QED
    BY <2>2 DEF Init, None
<1> QED
  BY <1>1 DEF Init, CompleteInv, Complete, Answering

LEMMA CompleteAsk == SafeInv /\ CompleteInv /\ Ask => CompleteInv'
<1> SUFFICES ASSUME SafeInv, CompleteInv, Ask PROVE CompleteInv'
  OBVIOUS
<1>1. /\ pc = "ready" /\ pc' = "sent" /\ kept' = Len(got)
      /\ UNCHANGED <<always, got, tokenIn, broken>>
  BY DEF Ask, nodeVars
<1>2. Before' = Before
  BY <1>1, GivenFacts, AllOfIt DEF Before
<1> QED
  BY <1>1, <1>2 DEF CompleteInv, Complete, Answering

LEMMA CompleteChange == CompleteInv /\ Change => CompleteInv'
<1> SUFFICES ASSUME CompleteInv, Change PROVE CompleteInv'
  OBVIOUS
<1>1. /\ always' \subseteq always
      /\ UNCHANGED <<pc, page, pageToken, list, tokenOut, tokenIn, got, kept, broken>>
  BY DEF Change, answerVars, appVars
<1>2. Given' = Given /\ Whole' = Whole /\ Before' = Before /\ Answering' = Answering
  BY <1>1 DEF Given, Whole, Before, Answering
<1> QED
  BY <1>1, <1>2 DEF CompleteInv, Complete

LEMMA CompleteServe ==
    ListingAssumption /\ ExactAsksDefault /\ SafeInv /\ TypedInv /\ CompleteInv /\ Serve
        => CompleteInv'
<1> SUFFICES ASSUME ListingAssumption, ExactAsksDefault, SafeInv, TypedInv, CompleteInv, Serve
             PROVE  CompleteInv'
  OBVIOUS
<1>1. PICK rest \in Seq(Keys), size \in Nat :
         /\ Range(rest) = {key \in listed[PackedType] : key > PackedToken}
         /\ Ascending(rest)
         /\ size = IF Pages /\ PageSize < Len(rest) THEN PageSize ELSE Len(rest)
         /\ size \in 0 .. Len(rest)
         /\ page' = SubSeq(rest, 1, size)
         /\ \/ Pages /\ size = PageSize /\ pageToken' = rest[size]
            \/ ~(Pages /\ size < Len(rest)) /\ pageToken' = None
  BY ServeFacts
<1>2. /\ pc = "sent" /\ pc' = "reading"
      /\ UNCHANGED <<always, got, list, kept, tokenIn, tokenOut, broken>>
  BY DEF Serve, nodeVars, appVars
<1>3. Before' = Before /\ Given' = Given
  BY <1>2 DEF Before, Given
<1>4. /\ Given \in Seq(Keys) /\ page' \in Seq(Keys)
      /\ Len(page') = size /\ \A i \in 1 .. size : page'[i] = rest[i]
  BY <1>1, GivenFacts
<1>5. Range(Whole') = Range(Given) \cup Range(page')
  BY <1>3, <1>4, RangeOfBoth DEF Whole
<1>6. ASSUME NEW key \in always
      PROVE  key \in Range(Whole') \/ (pageToken' # None /\ key > pageToken')
  <2>1. CASE key \in Range(Before)
    BY <2>1, <1>5, GivenFacts
  <2>2. CASE key > tokenIn
    <3>1. key \in Range(rest)
      BY <1>1, <2>2, AskedFor DEF TypedInv, PackedToken
    <3>2. PICK i \in DOMAIN rest : rest[i] = key
      BY <3>1 DEF Range
    <3>3. /\ DOMAIN rest = 1 .. Len(rest) /\ DOMAIN page' = 1 .. size
          /\ i \in 1 .. Len(rest) /\ size \in 0 .. Len(rest) /\ Len(rest) \in Nat
      BY <1>1, <1>4, <3>2
    <3>4. CASE i <= size
      <4>1. i \in DOMAIN page' /\ page'[i] = key
        BY <1>4, <3>2, <3>3, <3>4
      <4> QED
        BY <1>5, <4>1 DEF Range
    <3>5. CASE i > size
      <4>1. Pages /\ size = PageSize /\ size < Len(rest)
        <5>1. size < Len(rest)
          BY <3>3, <3>5
        <5>2. size = IF Pages /\ PageSize < Len(rest) THEN PageSize ELSE Len(rest)
          BY <1>1
        <5>3. CASE Pages /\ PageSize < Len(rest)
          BY ONLY <5>1, <5>2, <5>3
        <5>4. CASE ~(Pages /\ PageSize < Len(rest))
          <6>1. size = Len(rest)
            BY ONLY <5>2, <5>4
          <6> QED
            BY ONLY <3>3, <5>1, <6>1
        <5> QED
          BY <5>3, <5>4
      <4>2. pageToken' = rest[size] /\ size \in DOMAIN rest
        <5>1. pageToken' = rest[size]
          BY <1>1, <4>1
        <5> QED
          BY <3>3, <4>1, <5>1 DEF ListingAssumption
      <4>3. rest[size] < rest[i]
        BY <1>1, <3>2, <3>5, <4>2 DEF Ascending
      <4>4. rest[size] \in Nat \ {0} /\ rest[i] \in Nat
        <5>1. rest[size] \in Keys /\ rest[i] \in Keys
          BY <3>3, <4>1 DEF ListingAssumption
        <5> QED
          BY <5>1 DEF ListingAssumption
      <4> QED
        BY <3>2, <4>2, <4>3, <4>4 DEF None
    <3>6. i <= size \/ i > size
      BY <3>3
    <3> QED
      BY <3>4, <3>5, <3>6
  <2> QED
    BY <1>2, <2>1, <2>2 DEF CompleteInv
<1> QED
  BY <1>2, <1>3, <1>6 DEF CompleteInv, Complete, Answering

LEMMA CompleteMessage == ListingAssumption /\ SafeInv /\ CompleteInv /\ Message => CompleteInv'
<1> SUFFICES ASSUME ListingAssumption, SafeInv, CompleteInv, Message PROVE CompleteInv'
  OBVIOUS
<1>1. /\ Whole' = Whole /\ Range(Before') = Range(Before)
      /\ Answering /\ pc' \in {"begun", "success"}
      /\ pageToken' = pageToken /\ tokenIn' = tokenIn
      /\ pc' = "success" => Given' = Whole /\ tokenOut' = IF Pages THEN pageToken ELSE None
  BY MessageGiven
<1>2. always' = always /\ broken' = broken
  BY DEF Message, nodeVars
<1>3. pageToken # None => Pages
  BY <1>1 DEF SafeInv, OutInv, Answering
<1>4. ASSUME pc' = "success", NEW key \in always
      PROVE  key \in Range(Given') \/ (tokenOut' # None /\ key > tokenOut')
  BY <1>1, <1>3, <1>4 DEF CompleteInv
<1> QED
  BY <1>1, <1>2, <1>4 DEF CompleteInv, Complete, Answering

LEMMA CompleteFail == CompleteInv /\ Fail => CompleteInv'
<1> SUFFICES ASSUME CompleteInv, Fail PROVE CompleteInv'
  OBVIOUS
<1>1. /\ pc \in {"sent", "reading", "begun"} /\ pc' \in {"failure", "success"}
      /\ pc' = "success" => broken'
      /\ UNCHANGED <<always, tokenIn, got, kept>>
  BY DEF Fail, nodeVars, appVars
<1>2. Before' = Before
  BY <1>1 DEF Before
<1> QED
  BY <1>1, <1>2 DEF CompleteInv, Complete, Answering

LEMMA CompleteUsePage == SafeInv /\ CompleteInv /\ UsePage => CompleteInv'
<1> SUFFICES ASSUME SafeInv, CompleteInv, UsePage PROVE CompleteInv'
  OBVIOUS
<1>1. /\ pc = "success" /\ got' = Given /\ tokenIn' = tokenOut
      /\ pc' = IF tokenOut = None THEN "done" ELSE "ready"
      /\ always' = always /\ broken' = broken
  BY DEF UsePage, Given, nodeVars
<1>2. broken => tokenOut = None
  BY DEF SafeInv, OutInv
<1> QED
  BY <1>1, <1>2 DEF CompleteInv, Complete, Answering, Before

LEMMA CompleteRetry == CompleteInv /\ Retry => CompleteInv'
<1> SUFFICES ASSUME CompleteInv, Retry PROVE CompleteInv'
  OBVIOUS
<1>1. /\ pc = "failure" /\ pc' = "ready" /\ got' = SubSeq(got, 1, kept)
      /\ tokenIn' = tokenIn /\ always' = always
  BY DEF Retry, nodeVars
<1> QED
  BY <1>1 DEF CompleteInv, Complete, Answering, Before

LEMMA CompleteStutter == CompleteInv /\ UNCHANGED vars => CompleteInv'
<1> SUFFICES ASSUME CompleteInv, UNCHANGED vars PROVE CompleteInv'
  OBVIOUS
<1>1. /\ UNCHANGED <<always, tokenIn, tokenOut, pageToken, pc, got, broken>>
      /\ Given' = Given /\ Whole' = Whole /\ Before' = Before
  BY DEF vars, nodeVars, answerVars, appVars, Given, Whole, Before
<1> QED
  BY <1>1 DEF CompleteInv, Complete, Answering

LEMMA CompleteNext ==
    /\ ListingAssumption /\ ExactAsksDefault
    /\ SafeInv /\ TypedInv /\ CompleteInv /\ [Next]_vars
    => CompleteInv'
BY CompleteAsk, CompleteChange, CompleteServe, CompleteMessage, CompleteFail, CompleteUsePage,
   CompleteRetry, CompleteStutter
   DEF Next, Library, Terminated

(* An application that has come to the end has been given every key that was
   there all along, unless a stream broke off unnoticed (Complete): no key falls
   between two pages or two messages, and none is lost with a token that a
   message without one resets (riack_2i.c:65). *)
THEOREM NoKeyMissed ==
    ASSUME ExactAsksDefault
    PROVE  Spec => []Complete
<1>1. CompleteInv => Complete
  BY DEF CompleteInv
<1> QED
  BY ListingAssumption, SafeInit, SafeNext, TypedInit, TypedNext, CompleteInit, CompleteNext,
     <1>1, PTL DEF Spec
=============================================================================
