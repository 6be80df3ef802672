----------------------- MODULE MessageTransferProofs -----------------------
(* What holds of every message, whatever the descriptors, the values and
   the messages in it.  Packing: the buffer it is given is exactly filled,
   and the search for a field by its number finds the field that has it.
   The numbers are those of ProtobufVarint, for every value of a word: a
   varint exactly fills its buffer, a reader finds its end wherever it
   stands in a message, and parsing gives back the value.

   Unpacking, of any bytes and with any number of allocations before one
   fails: every block that is allocated is in the message that is returned,
   which has its required fields, or has been released, unless a length
   prefix wraps at 2^32.  Each pass keeps an account of the heap: ScanInv,
   AllocInv and ParseInv, and MergeInv where a message is merged into a
   later one.

   Messages nest, sums and joined bytes have any number of parts, the search
   halves any number of ranges and unpacking calls itself: each is a
   recursive function, so there is first a lemma that there is such a
   function, by induction over a set of numbers (SetInduction). *)
EXTENDS MessageTransfer, TLAPS, SequenceTheorems, WellFoundedInduction, FiniteSetTheorems

--------------------------------
(* Numbers as bytes *)

(* A number of w bits comes back from its zigzag form: nothing is lost at the
   smallest negative number, nor at 0 (zigzag32, unzigzag32 and the same for
   64 bits). *)
THEOREM ZigzagRoundTrip ==
    ASSUME NEW w \in Nat \ {0}, NEW v \in Word(w)
    PROVE  unzigzag(zigzag(v, w), w) = v
<1>1. CASE w - 1 \in v
  <2> DEFINE z == Shl((0 .. w - 1) \ v, 1, w) \cup {0}
  <2>1. zigzag(v, w) = z
    BY <1>1 DEF zigzag
  <2>2. unzigzag(z, w) = (0 .. w - 1) \ Shr(z, 1, w)
    BY DEF unzigzag
  <2>3. ASSUME NEW i \in 0 .. w - 1
        PROVE  i + 1 \in z <=> i \notin v
    <3>1. i + 1 # 0 /\ (i + 1) - 1 = i
      OBVIOUS
    <3>2. i + 1 \in z <=> i + 1 \in 0 .. w - 1 /\ i \in (0 .. w - 1) \ v
      BY <3>1 DEF Shl
    <3>3. i + 1 \in 0 .. w - 1 <=> i # w - 1
      OBVIOUS
    <3> QED
      BY <3>2, <3>3, <1>1
  <2>4. Shr(z, 1, w) = (0 .. w - 1) \ v
    BY <2>3 DEF Shr
  <2> QED
    BY <2>1, <2>2, <2>4 DEF Word
<1>2. CASE w - 1 \notin v
  <2> DEFINE z == Shl(v, 1, w)
  <2>1. zigzag(v, w) = z
    BY <1>2 DEF zigzag
  <2>2. 0 \notin z
    BY DEF Shl, Word
  <2>3. unzigzag(z, w) = Shr(z, 1, w)
    BY <2>2 DEF unzigzag
  <2>4. ASSUME NEW i \in 0 .. w - 1
        PROVE  i + 1 \in z <=> i \in v
    <3>1. (i + 1) - 1 = i
      OBVIOUS
    <3>2. i + 1 \in z <=> i + 1 \in 0 .. w - 1 /\ i \in v
      BY <3>1 DEF Shl
    <3>3. i + 1 \in 0 .. w - 1 <=> i # w - 1
      OBVIOUS
    <3> QED
      BY <3>2, <3>3, <1>2
  <2>5. Shr(z, 1, w) = v
    BY <2>4 DEF Shr, Word
  <2> QED
    BY <2>1, <2>3, <2>5
<1> QED
  BY <1>1, <1>2

(* A fixed-size number of n bytes comes back from its bytes. *)
THEOREM FixedRoundTrip ==
    ASSUME NEW n \in Nat, NEW v \in Word(8 * n)
    PROVE  parse_fixed(fixed_pack(v, n), n) = v
<1> DEFINE byte(k) == {i \in 0 .. 7 : i + 8 * (k - 1) \in v}
<1>1. parse_fixed(fixed_pack(v, n), n)
        = UNION {Shl(byte(k), 8 * (k - 1), 8 * n) : k \in 1 .. n}
  BY DEF parse_fixed, fixed_pack
<1>2. ASSUME NEW k \in 1 .. n, NEW b \in Shl(byte(k), 8 * (k - 1), 8 * n)
      PROVE  b \in v
  BY <1>2 DEF Shl
<1>3. ASSUME NEW b \in v
      PROVE  \E k \in 1 .. n : b \in Shl(byte(k), 8 * (k - 1), 8 * n)
  <2> DEFINE k == (b \div 8) + 1
  <2>1. b \in 0 .. 8 * n - 1
    BY DEF Word
  <2>2. k \in 1 .. n /\ b - 8 * (k - 1) \in 0 .. 7
    BY <2>1
  <2>3. b - 8 * (k - 1) + 8 * (k - 1) = b
    BY <2>1, <2>2
  <2>4. b - 8 * (k - 1) \in byte(k)
    BY <2>2, <2>3, <1>3
  <2>5. b \in Shl(byte(k), 8 * (k - 1), 8 * n)
    BY <2>1, <2>4 DEF Shl
  <2> QED
    BY <2>2, <2>5
<1> QED
  BY <1>1, <1>2, <1>3

(* uint32_size and uint32_pack test the same thresholds, one on the value and
   the other on what its shifts leave, so the buffer sized by the one is
   filled exactly by the other. *)
LEMMA ShiftedBelow ==
    ASSUME NEW v \in Word(32), NEW k \in 0 .. 25
    PROVE  Below(Shr(v, k, 32), 7) <=> Below(v, k + 7)
<1>1. ASSUME Below(Shr(v, k, 32), 7), NEW i \in v PROVE i < k + 7
  <2>1. i \in 0 .. 31
    BY DEF Word
  <2>2. CASE i < k
    BY <2>1, <2>2
  <2>3. CASE i >= k
    <3>1. i - k \in 0 .. 31 /\ (i - k) + k = i
      BY <2>1, <2>3
    <3>2. i - k \in Shr(v, k, 32)
      BY <3>1, <1>1 DEF Shr
    <3> QED
      BY <3>1, <3>2, <1>1, <2>1 DEF Below
  <2> QED
    BY <2>1, <2>2, <2>3
<1>2. ASSUME Below(v, k + 7), NEW i \in Shr(v, k, 32) PROVE i < 7
  <2>1. i \in 0 .. 31 /\ i + k \in v
    BY <1>2 DEF Shr
  <2>2. i + k < k + 7
    BY <2>1, <1>2 DEF Below
  <2> QED
    BY <2>1, <2>2
<1> QED
  BY <1>1, <1>2 DEF Below

(* uint32_size, by which the buffer is allocated, is the number of bytes
   uint32_pack writes into it. *)
THEOREM Uint32SizeIsExact ==
    ASSUME NEW v \in Word(32)
    PROVE  Len(uint32_pack(v)) = uint32_size(v)
<1>1. /\ Below(Shr(v, 7, 32), 7) <=> Below(v, 14)
      /\ Below(Shr(v, 14, 32), 7) <=> Below(v, 21)
      /\ Below(Shr(v, 21, 32), 7) <=> Below(v, 28)
  <2>1. 7 + 7 = 14 /\ 14 + 7 = 21 /\ 21 + 7 = 28
    OBVIOUS
  <2> QED
    BY <2>1, ShiftedBelow
<1> QED
  BY <1>1 DEF uint32_pack, uint32_size

(* The same for 64 bits: the thresholds on the upper half against the loop
   that counts its groups (uint64_size, uint64_pack). *)
THEOREM Uint64SizeIsExact ==
    ASSUME NEW v \in Word(64)
    PROVE  Len(uint64_pack(v)) = uint64_size(v)
<1> DEFINE hi == Shr(v, 32, 32)
           low4 == <<More(v, 0), More(v, 7), More(v, 14), More(v, 21)>>
           groups(n) == [k \in 1 .. n |-> IF k < n THEN More(v, 21 + 7 * k)
                                          ELSE Final(v, 21 + 7 * k)]
           ends(n) == n \in 2 .. 6 /\ Below(hi, 7 * n - 4)
                      /\ \A m \in 2 .. n - 1 : ~Below(hi, 7 * m - 4)
           first == CHOOSE n \in 2 .. 6 : Below(hi, 7 * n - 4)
                       /\ \A m \in 2 .. n - 1 : ~Below(hi, 7 * m - 4)
<1>1. hi \subseteq 0 .. 31
  BY DEF Shr
<1>2. ASSUME NEW n \in 1 .. 6 PROVE Len(low4 \o groups(n)) = 4 + n
  <2>1. \A k \in 1 .. n : groups(n)[k] \in {More(v, 21 + 7 * k), Final(v, 21 + 7 * k)}
    OBVIOUS
  <2>2. groups(n) \in Seq(Byte)
    <3>1. \A k \in Nat : More(v, k) \in Byte /\ Final(v, k) \in Byte
      BY DEF More, Final, Byte, Word
    <3>2. \A k \in 1 .. n : groups(n)[k] \in Byte
      BY <2>1, <3>1
    <3> QED
      BY <3>2
  <2>3. low4 \in Seq(Byte)
    BY DEF More, Byte, Word
  <2>4. Len(groups(n)) = n /\ Len(low4) = 4
    OBVIOUS
  <2>5. \A s, t \in Seq(Byte) : Len(s \o t) = Len(s) + Len(t)
    OBVIOUS
  <2> HIDE DEF groups, low4
  <2>6. Len(low4 \o groups(n)) = Len(low4) + Len(groups(n))
    BY <2>2, <2>3, <2>5
  <2> QED
    BY <2>4, <2>6
<1>3. CASE hi = {}
  <2>1. v \in Word(32)
    <3>1. ASSUME NEW i \in v, i >= 32 PROVE FALSE
      <4>1. i \in 0 .. 63 /\ (i - 32) + 32 = i /\ i - 32 \in 0 .. 31
        BY <3>1 DEF Word
      <4>2. i - 32 \in hi
        BY <4>1 DEF Shr
      <4> QED
        BY <4>2, <1>3
    <3>2. v \subseteq 0 .. 63
      BY DEF Word
    <3> QED
      BY <3>1, <3>2 DEF Word
  <2> QED
    BY <2>1, <1>3, Uint32SizeIsExact DEF uint64_pack, uint64_size
<1>4. CASE hi # {} /\ Below(hi, 3)
  <2>1. uint64_pack(v) = low4 \o groups(1)
    BY <1>4 DEF uint64_pack
  <2> QED
    BY <2>1, <1>2, <1>4 DEF uint64_size
<1>5. CASE hi # {} /\ ~Below(hi, 3)
  <2>1. uint64_pack(v) = low4 \o groups(first)
    BY <1>5 DEF uint64_pack
  <2>2. uint64_size(v) = IF Below(hi, 10) THEN 6 ELSE IF Below(hi, 17) THEN 7
                         ELSE IF Below(hi, 24) THEN 8 ELSE IF Below(hi, 31) THEN 9 ELSE 10
    BY <1>5 DEF uint64_size
  <2>3. Below(hi, 38)
    BY <1>1 DEF Below
  <2>4. /\ 7 * 2 - 4 = 10 /\ 7 * 3 - 4 = 17 /\ 7 * 4 - 4 = 24
        /\ 7 * 5 - 4 = 31 /\ 7 * 6 - 4 = 38
    OBVIOUS
  <2> DEFINE len == IF Below(hi, 10) THEN 2 ELSE IF Below(hi, 17) THEN 3
                    ELSE IF Below(hi, 24) THEN 4 ELSE IF Below(hi, 31) THEN 5 ELSE 6
  <2> HIDE DEF hi
  <2>5. ends(len)
    BY <2>3, <2>4
  <2>6. first \in 2 .. 6 /\ ends(first)
    BY <2>5
  <2>7. first = len
    <3>1. \A m, n : ends(m) /\ ends(n) => ~(m < n)
      OBVIOUS
    <3>2. len \in 2 .. 6
      BY <2>5
    <3> HIDE DEF first, len, ends
    <3> QED
      BY <2>5, <2>6, <3>1, <3>2
  <2>8. Len(uint64_pack(v)) = 4 + len
    <3> HIDE DEF first, groups, low4
    <3>1. len \in 1 .. 6
      OBVIOUS
    <3> QED
      BY <2>1, <2>7, <3>1, <1>2
  <2> QED
    BY <2>2, <2>8
<1> QED
  BY <1>3, <1>4, <1>5

(* The bits of a group of a packed value are where parsing puts them. *)
LEMMA GroupRestored ==
    ASSUME NEW w \in {32, 64}, NEW v \in Word(w), NEW k \in 0 .. 63, NEW b,
           b = More(v, k) \/ b = Final(v, k)
    PROVE  Shl(b \cap (0 .. 6), k, w) = {i \in v : k <= i /\ i < k + 7}
<1>1. ASSUME NEW i \in 0 .. w - 1
      PROVE  i - k \in b \cap (0 .. 6) <=> i \in v /\ k <= i /\ i < k + 7
  <2>1. (i - k) + k = i
    OBVIOUS
  <2>2. i - k \in 0 .. 6 <=> k <= i /\ i < k + 7
    OBVIOUS
  <2>3. i - k \in 0 .. 6 => i - k # 7
    OBVIOUS
  <2>4. i - k \in b \cap (0 .. 6) <=> i - k \in 0 .. 6 /\ i \in v
    BY <2>1, <2>3 DEF More, Final
  <2> QED
    BY <2>2, <2>4
<1>2. v \subseteq 0 .. w - 1
  BY DEF Word
<1>3. Shl(b \cap (0 .. 6), k, w) = {i \in 0 .. w - 1 : i - k \in b \cap (0 .. 6)}
  BY DEF Shl
<1>4. @ = {i \in 0 .. w - 1 : i \in v /\ k <= i /\ i < k + 7}
  BY <1>1
<1> QED
  BY <1>2, <1>3, <1>4, ZenonT(60)

(* Parsing a packed 32-bit number gives the number, whichever of the five
   lengths it took (uint32_pack, parse_uint32). *)
THEOREM Uint32RoundTrip ==
    ASSUME NEW v \in Word(32)
    PROVE  parse_uint32(uint32_pack(v)) = v
<1> DEFINE seg(k) == {i \in v : k <= i /\ i < k + 7}
           out == uint32_pack(v)
<1>1. v \subseteq 0 .. 31
  BY DEF Word
<1>2. ASSUME NEW k \in {0, 7, 14, 21, 28}, NEW b, b = More(v, k) \/ b = Final(v, k)
      PROVE  Shl(b \cap (0 .. 6), k, 32) = seg(k)
  <2>1. k \in 0 .. 63
    OBVIOUS
  <2> QED
    BY <1>2, <2>1, GroupRestored, ZenonT(60)
<1>3. Shl(Final(v, 28), 28, 32) = seg(28)
  <2>1. Final(v, 28) \cap (0 .. 6) = Final(v, 28)
    BY DEF Final
  <2> QED
    BY <2>1, <1>2
<1>4. /\ Below(Shr(v, 7, 32), 7) <=> Below(v, 14)
      /\ Below(Shr(v, 14, 32), 7) <=> Below(v, 21)
      /\ Below(Shr(v, 21, 32), 7) <=> Below(v, 28)
  <2>1. 7 + 7 = 14 /\ 14 + 7 = 21 /\ 21 + 7 = 28
    OBVIOUS
  <2> QED
    BY <2>1, ShiftedBelow
<1>5. /\ Below(v, 7) => Below(v, 14)
      /\ Below(v, 14) => Below(v, 21)
      /\ Below(v, 21) => Below(v, 28)
  BY <1>1 DEF Below
<1>6. /\ Below(v, 7) => v = seg(0)
      /\ Below(v, 14) => v = seg(0) \cup seg(7)
      /\ Below(v, 21) => v = seg(0) \cup seg(7) \cup seg(14)
      /\ Below(v, 28) => v = seg(0) \cup seg(7) \cup seg(14) \cup seg(21)
      /\ v = seg(0) \cup seg(7) \cup seg(14) \cup seg(21) \cup seg(28)
  <2>1. ASSUME NEW i \in v
        PROVE  /\ i \in 0 .. 31
               /\ i < 7 => i \in seg(0)
               /\ 7 <= i /\ i < 14 => i \in seg(7)
               /\ 14 <= i /\ i < 21 => i \in seg(14)
               /\ 21 <= i /\ i < 28 => i \in seg(21)
               /\ 28 <= i => i \in seg(28)
    <3>1. i \in 0 .. 31
      BY <1>1
    <3> QED
      BY <3>1
  <2>2. /\ seg(0) \subseteq v /\ seg(7) \subseteq v /\ seg(14) \subseteq v
        /\ seg(21) \subseteq v /\ seg(28) \subseteq v
    OBVIOUS
  <2> HIDE DEF seg
  <2>3. Below(v, 7) => v = seg(0)
    BY <2>1, <2>2 DEF Below
  <2>4. Below(v, 14) => v = seg(0) \cup seg(7)
    BY <2>1, <2>2 DEF Below
  <2>5. Below(v, 21) => v = seg(0) \cup seg(7) \cup seg(14)
    BY <2>1, <2>2 DEF Below
  <2>6. Below(v, 28) => v = seg(0) \cup seg(7) \cup seg(14) \cup seg(21)
    BY <2>1, <2>2 DEF Below
  <2>7. v = seg(0) \cup seg(7) \cup seg(14) \cup seg(21) \cup seg(28)
    BY <2>1, <2>2
  <2> QED
    BY <2>3, <2>4, <2>5, <2>6, <2>7
<1>7. CASE Below(v, 7)
  <2>1. out = <<Final(v, 0)>>
    BY <1>4, <1>5, <1>7 DEF uint32_pack
  <2>2. parse_uint32(out) = Shl(Final(v, 0) \cap (0 .. 6), 0, 32)
    BY <2>1 DEF parse_uint32, GroupAt
  <2>3. @ = seg(0)
    BY <1>2
  <2> QED
    BY <2>2, <2>3, <1>6, <1>7
<1>8. CASE ~Below(v, 7) /\ Below(v, 14)
  <2>1. out = <<More(v, 0), Final(v, 7)>>
    BY <1>4, <1>5, <1>8 DEF uint32_pack
  <2>2. parse_uint32(out) = Shl(More(v, 0) \cap (0 .. 6), 0, 32)
                              \cup Shl(Final(v, 7) \cap (0 .. 6), 7, 32)
    BY <2>1 DEF parse_uint32, GroupAt
  <2>3. @ = seg(0) \cup seg(7)
    BY <1>2
  <2> QED
    BY <2>2, <2>3, <1>6, <1>8
<1>9. CASE ~Below(v, 14) /\ Below(v, 21)
  <2>1. out = <<More(v, 0), More(v, 7), Final(v, 14)>>
    BY <1>4, <1>5, <1>9 DEF uint32_pack
  <2>2. parse_uint32(out) = Shl(More(v, 0) \cap (0 .. 6), 0, 32)
                              \cup Shl(More(v, 7) \cap (0 .. 6), 7, 32)
                              \cup Shl(Final(v, 14) \cap (0 .. 6), 14, 32)
    BY <2>1 DEF parse_uint32, GroupAt
  <2>3. @ = seg(0) \cup seg(7) \cup seg(14)
    BY <1>2
  <2> QED
    BY <2>2, <2>3, <1>6, <1>9
<1>10. CASE ~Below(v, 21) /\ Below(v, 28)
  <2>1. out = <<More(v, 0), More(v, 7), More(v, 14), Final(v, 21)>>
    BY <1>4, <1>5, <1>10 DEF uint32_pack
  <2>2. parse_uint32(out) = Shl(More(v, 0) \cap (0 .. 6), 0, 32)
                              \cup Shl(More(v, 7) \cap (0 .. 6), 7, 32)
                              \cup Shl(More(v, 14) \cap (0 .. 6), 14, 32)
                              \cup Shl(Final(v, 21) \cap (0 .. 6), 21, 32)
    BY <2>1 DEF parse_uint32, GroupAt
  <2>3. @ = seg(0) \cup seg(7) \cup seg(14) \cup seg(21)
    BY <1>2
  <2> QED
    BY <2>2, <2>3, <1>6, <1>10
<1>11. CASE ~Below(v, 28)
  <2>1. out = <<More(v, 0), More(v, 7), More(v, 14), More(v, 21), Final(v, 28)>>
    BY <1>4, <1>5, <1>11 DEF uint32_pack
  <2>2. parse_uint32(out) = Shl(More(v, 0) \cap (0 .. 6), 0, 32)
                              \cup Shl(More(v, 7) \cap (0 .. 6), 7, 32)
                              \cup Shl(More(v, 14) \cap (0 .. 6), 14, 32)
                              \cup Shl(More(v, 21) \cap (0 .. 6), 21, 32)
                              \cup Shl(Final(v, 28), 28, 32)
    BY <2>1 DEF parse_uint32, GroupAt
  <2>3. @ = seg(0) \cup seg(7) \cup seg(14) \cup seg(21) \cup seg(28)
    BY <1>2, <1>3
  <2> QED
    BY <2>2, <2>3, <1>6, <1>11
<1> QED
  BY <1>5, <1>7, <1>8, <1>9, <1>10, <1>11

(* The length of a varint: the first byte without the high bit. *)
LEMMA VarintEnds ==
    ASSUME NEW data \in Seq(Byte), NEW max \in Nat, NEW n \in 1 .. Len(data),
           n <= max, 7 \notin data[n], \A k \in 1 .. n - 1 : 7 \in data[k]
    PROVE  VarintLen(data, max) = n
<1> DEFINE ends == {i \in 1 .. Len(data) : i <= max /\ 7 \notin data[i]}
<1>1. n \in ends
  OBVIOUS
<1>2. \A i \in ends : i \in Int /\ n <= i
  OBVIOUS
<1> DEFINE first == CHOOSE i \in ends : \A j \in ends : i <= j
<1>3. first \in ends /\ \A j \in ends : first <= j
  BY <1>1, <1>2
<1>4. first = n
  BY <1>1, <1>2, <1>3
<1> QED
  BY <1>1, <1>4 DEF VarintLen

(* Whatever follows a packed number in a message, a reader takes exactly its
   bytes: the scan for the length of a varint stops at its last one. *)
THEOREM Uint32IsDelimited ==
    ASSUME NEW v \in Word(32), NEW rest \in Seq(Byte), NEW max \in Nat, 5 <= max
    PROVE  VarintLen(uint32_pack(v) \o rest, max) = uint32_size(v)
<1> DEFINE out == uint32_pack(v)
           n == Len(out)
           data == out \o rest
<1>1. \A k \in 0 .. 28 : More(v, k) \in Byte /\ 7 \in More(v, k)
  BY DEF More, Byte, Word
<1>2. \A k \in 0 .. 28 : Final(v, k) \in Byte /\ 7 \notin Final(v, k)
  BY DEF Final, Byte, Word
<1>3. /\ out \in Seq(Byte) /\ n \in 1 .. 5
      /\ 7 \notin out[n]
      /\ \A k \in 1 .. n - 1 : 7 \in out[k]
  <2>1. \/ out = <<Final(v, 0)>>
        \/ out = <<More(v, 0), Final(v, 7)>>
        \/ out = <<More(v, 0), More(v, 7), Final(v, 14)>>
        \/ out = <<More(v, 0), More(v, 7), More(v, 14), Final(v, 21)>>
        \/ out = <<More(v, 0), More(v, 7), More(v, 14), More(v, 21), Final(v, 28)>>
    BY DEF uint32_pack
  <2>2. CASE out = <<Final(v, 0)>>
    <3>1. out \in Seq(Byte) /\ n = 1
      BY <2>2, <1>1, <1>2
    <3>2. 7 \notin out[1]
      BY <2>2, <1>2
    <3>3. \A k \in 1 .. 1 - 1 : 7 \in out[k]
      BY <2>2, <1>1
    <3> HIDE DEF out, n
    <3> QED
      BY <3>1, <3>2, <3>3
  <2>3. CASE out = <<More(v, 0), Final(v, 7)>>
    <3>1. out \in Seq(Byte) /\ n = 2
      BY <2>3, <1>1, <1>2
    <3>2. 7 \notin out[2]
      BY <2>3, <1>2
    <3>3. \A k \in 1 .. 2 - 1 : 7 \in out[k]
      BY <2>3, <1>1
    <3> HIDE DEF out, n
    <3> QED
      BY <3>1, <3>2, <3>3
  <2>4. CASE out = <<More(v, 0), More(v, 7), Final(v, 14)>>
    <3>1. out \in Seq(Byte) /\ n = 3
      BY <2>4, <1>1, <1>2
    <3>2. 7 \notin out[3]
      BY <2>4, <1>2
    <3>3. 7 \in out[1]
      BY <2>4, <1>1
    <3>4. 7 \in out[2]
      BY <2>4, <1>1
    <3>5. \A k \in 1 .. 3 - 1 : k = 1 \/ k = 2
      OBVIOUS
    <3>6. \A k \in 1 .. 3 - 1 : 7 \in out[k]
      BY <3>3, <3>4, <3>5
    <3> HIDE DEF out, n
    <3> QED
      BY <3>1, <3>2, <3>6
  <2>5. CASE out = <<More(v, 0), More(v, 7), More(v, 14), Final(v, 21)>>
    <3>1. out \in Seq(Byte) /\ n = 4
      BY <2>5, <1>1, <1>2
    <3>2. 7 \notin out[4]
      BY <2>5, <1>2
    <3>3. 7 \in out[1]
      BY <2>5, <1>1
    <3>4. 7 \in out[2]
      BY <2>5, <1>1
    <3>5. 7 \in out[3]
      BY <2>5, <1>1
    <3>6. \A k \in 1 .. 4 - 1 : k = 1 \/ k = 2 \/ k = 3
      OBVIOUS
    <3>7. \A k \in 1 .. 4 - 1 : 7 \in out[k]
      BY <3>3, <3>4, <3>5, <3>6
    <3> HIDE DEF out, n
    <3> QED
      BY <3>1, <3>2, <3>7
  <2>6. CASE out = <<More(v, 0), More(v, 7), More(v, 14), More(v, 21), Final(v, 28)>>
    <3>1. out \in Seq(Byte) /\ n = 5
      BY <2>6, <1>1, <1>2
    <3>2. 7 \notin out[5]
      BY <2>6, <1>2
    <3>3. 7 \in out[1]
      BY <2>6, <1>1
    <3>4. 7 \in out[2]
      BY <2>6, <1>1
    <3>5. 7 \in out[3]
      BY <2>6, <1>1
    <3>6. 7 \in out[4]
      BY <2>6, <1>1
    <3>7. \A k \in 1 .. 5 - 1 : k = 1 \/ k = 2 \/ k = 3 \/ k = 4
      OBVIOUS
    <3>8. \A k \in 1 .. 5 - 1 : 7 \in out[k]
      BY <3>3, <3>4, <3>5, <3>6, <3>7
    <3> HIDE DEF out, n
    <3> QED
      BY <3>1, <3>2, <3>8
  <2> QED
    BY <2>1, <2>2, <2>3, <2>4, <2>5, <2>6
<1> HIDE DEF out
<1>4. /\ data \in Seq(Byte) /\ n \in 1 .. Len(data)
      /\ \A k \in 1 .. n : data[k] = out[k]
  <2>1. out \in Seq(Byte) /\ rest \in Seq(Byte)
    BY <1>3
  <2>2. data \in Seq(Byte) /\ Len(data) = Len(out) + Len(rest)
    BY <2>1
  <2>3. \A k \in 1 .. Len(out) : data[k] = out[k]
    BY <2>1
  <2>4. n \in 1 .. Len(data)
    <3>1. Len(data) = n + Len(rest)
      BY <2>2
    <3>2. Len(rest) \in Nat
      BY <2>1
    <3> HIDE DEF n, data
    <3> QED
      BY <1>3, <3>1, <3>2
  <2> QED
    BY <2>2, <2>3, <2>4
<1>5. VarintLen(data, max) = n
  <2>1. n <= max /\ n \in 1 .. n
    <3>1. \A l \in 1 .. 5 : l <= max /\ l \in 1 .. l
      OBVIOUS
    <3> HIDE DEF n
    <3> QED
      BY <1>3, <3>1
  <2>2. 7 \notin data[n]
    BY <1>3, <1>4, <2>1
  <2>3. \A k \in 1 .. n - 1 : 7 \in data[k]
    BY <1>3, <1>4
  <2> HIDE DEF n, data
  <2> QED
    BY <1>4, <2>1, <2>2, <2>3, VarintEnds
<1> QED
  BY <1>5, Uint32SizeIsExact DEF out

(* The same for a group of a word of 64 bits. *)
LEMMA GroupRestored64 ==
    ASSUME NEW v \in Word(64), NEW k \in 0 .. 63, NEW b,
           b = More(v, k) \/ b = Final(v, k)
    PROVE  Shl(b \cap (0 .. 6), k, 64) = {i \in v : k <= i /\ i < k + 7}
<1>1. 64 \in {32, 64}
  OBVIOUS
<1> QED
  BY <1>1, GroupRestored, ZenonT(60)

(* The groups of a number, each in its place, are the number. *)
LEMMA GroupsRestored ==
    ASSUME NEW v \in Word(64), NEW data \in Seq(Byte), Len(data) \in 5 .. 10,
           \A k \in 1 .. Len(data) : \/ data[k] = More(v, 7 * (k - 1))
                                    \/ data[k] = Final(v, 7 * (k - 1)),
           \A i \in v : i < 7 * Len(data)
    PROVE  parse_uint64(data) = v
<1> DEFINE l == Len(data)
<1>1a. l \in 5 .. 10
  OBVIOUS
<1>1b. ~(l < 5)
  <2> HIDE DEF l
  <2> QED
    BY <1>1a
<1>1. parse_uint64(data) = UNION {GroupAt(data, k, 64) : k \in 1 .. l}
  BY <1>1b DEF parse_uint64
<1>2. ASSUME NEW k \in 1 .. l
      PROVE  GroupAt(data, k, 64) = {i \in v : 7 * (k - 1) <= i /\ i < 7 * (k - 1) + 7}
  <2>1. 7 * (k - 1) \in 0 .. 63
    <3> HIDE DEF l
    <3> QED
      BY <1>1a
  <2>2. data[k] = More(v, 7 * (k - 1)) \/ data[k] = Final(v, 7 * (k - 1))
    OBVIOUS
  <2> HIDE DEF l
  <2>3. Shl(data[k] \cap (0 .. 6), 7 * (k - 1), 64)
          = {i \in v : 7 * (k - 1) <= i /\ i < 7 * (k - 1) + 7}
    BY <2>1, <2>2, GroupRestored64
  <2> QED
    BY <2>3 DEF GroupAt
<1>3. ASSUME NEW i \in v
      PROVE  \E k \in 1 .. l : i \in GroupAt(data, k, 64)
  <2> DEFINE k == (i \div 7) + 1
  <2>1. i \in 0 .. 63 /\ i < 7 * l
    BY DEF Word
  <2>2. k \in 1 .. l /\ 7 * (k - 1) <= i /\ i < 7 * (k - 1) + 7
    BY <2>1
  <2> HIDE DEF k
  <2> QED
    BY <2>2, <1>2
<1> QED
  BY <1>1, <1>2, <1>3

(* Parsing a packed 64-bit number gives the number: counters and their
   increments arrive as they were sent (uint64_pack, parse_uint64). *)
THEOREM Uint64RoundTrip ==
    ASSUME NEW v \in Word(64)
    PROVE  parse_uint64(uint64_pack(v)) = v
<1> DEFINE hi == Shr(v, 32, 32)
           low4 == <<More(v, 0), More(v, 7), More(v, 14), More(v, 21)>>
           groups(n) == [k \in 1 .. n |-> IF k < n THEN More(v, 21 + 7 * k)
                                          ELSE Final(v, 21 + 7 * k)]
           first == CHOOSE n \in 2 .. 6 : Below(hi, 7 * n - 4)
                       /\ \A m \in 2 .. n - 1 : ~Below(hi, 7 * m - 4)
<1>1. \A i \in v : i \in 0 .. 63 /\ (i >= 32 => i - 32 \in hi)
  <2>1. \A i \in v : i \in 0 .. 63
    BY DEF Word
  <2>2. \A i \in v : i >= 32 => (i - 32) + 32 = i /\ i - 32 \in 0 .. 31
    BY <2>1
  <2> QED
    BY <2>1, <2>2 DEF Shr
<1>2. \A k \in 0 .. 63 : More(v, k) \in Byte /\ Final(v, k) \in Byte
  BY DEF More, Final, Byte, Word
<1>3. CASE hi = {}
  <2>1. v \in Word(32) /\ uint64_pack(v) = uint32_pack(v)
    BY <1>1, <1>3 DEF uint64_pack, Word
  <2> DEFINE out == uint32_pack(v)
  <2>2. \/ Len(out) < 5
        \/ out = <<More(v, 0), More(v, 7), More(v, 14), More(v, 21), Final(v, 28)>>
    BY DEF uint32_pack
  <2>3. CASE Len(out) < 5
    BY <2>1, <2>3, Uint32RoundTrip DEF parse_uint64
  <2>4. CASE out = <<More(v, 0), More(v, 7), More(v, 14), More(v, 21), Final(v, 28)>>
    <3>1. out \in Seq(Byte) /\ Len(out) = 5
      BY <2>4, <1>2
    <3>2. \A k \in 1 .. 5 : out[k] = More(v, 7 * (k - 1)) \/ out[k] = Final(v, 7 * (k - 1))
      BY <2>4
    <3>3. \A i \in v : i < 7 * 5
      BY <2>1 DEF Word
    <3> HIDE DEF out
    <3>4. /\ Len(out) \in 5 .. 10
          /\ \A k \in 1 .. Len(out) : \/ out[k] = More(v, 7 * (k - 1))
                                   \/ out[k] = Final(v, 7 * (k - 1))
          /\ \A i \in v : i < 7 * Len(out)
      BY <3>1, <3>2, <3>3
    <3>5. parse_uint64(out) = v
      BY <3>1, <3>4, GroupsRestored
    <3> QED
      BY <3>5, <2>1 DEF out
  <2> QED
    BY <2>2, <2>3, <2>4
<1>4. ASSUME NEW n \in 1 .. 6, Below(hi, 7 * n - 4)
      PROVE  parse_uint64(low4 \o groups(n)) = v
  <2> DEFINE data == low4 \o groups(n)
  <2>1. \A k \in 1 .. n : groups(n)[k] \in {More(v, 21 + 7 * k), Final(v, 21 + 7 * k)}
    OBVIOUS
  <2>2. groups(n) \in Seq(Byte) /\ Len(groups(n)) = n
    <3>1. \A k \in 1 .. n : 21 + 7 * k \in 0 .. 63
      OBVIOUS
    <3>2. \A k \in 1 .. n : groups(n)[k] \in Byte
      BY <2>1, <3>1, <1>2
    <3> QED
      BY <3>2
  <2>3. low4 \in Seq(Byte) /\ Len(low4) = 4
    BY <1>2
  <2>4. \A s, t \in Seq(Byte) :
           /\ s \o t \in Seq(Byte) /\ Len(s \o t) = Len(s) + Len(t)
           /\ \A k \in 1 .. Len(s) + Len(t) :
                 (s \o t)[k] = IF k <= Len(s) THEN s[k] ELSE t[k - Len(s)]
    OBVIOUS
  <2>5. \A k \in 1 .. 4 : low4[k] = More(v, 7 * (k - 1))
    OBVIOUS
  <2> HIDE DEF groups, low4
  <2>6. /\ data \in Seq(Byte) /\ Len(data) = 4 + n
        /\ \A k \in 1 .. 4 + n : data[k] = IF k <= 4 THEN low4[k] ELSE groups(n)[k - 4]
    <3>1. data \in Seq(Byte) /\ Len(data) = Len(low4) + Len(groups(n))
      BY <2>2, <2>3, <2>4
    <3>2. \A k \in 1 .. Len(low4) + Len(groups(n)) :
             data[k] = IF k <= Len(low4) THEN low4[k] ELSE groups(n)[k - Len(low4)]
      BY <2>2, <2>3, <2>4
    <3> HIDE DEF data
    <3> QED
      BY <3>1, <3>2, <2>2, <2>3
  <2> HIDE DEF data
  <2>7. ASSUME NEW k \in 1 .. Len(data)
        PROVE  data[k] = More(v, 7 * (k - 1)) \/ data[k] = Final(v, 7 * (k - 1))
    <3>1. CASE k <= 4
      BY <3>1, <2>5, <2>6
    <3>2. CASE k > 4
      <4>1. k - 4 \in 1 .. n /\ 21 + 7 * (k - 4) = 7 * (k - 1)
        BY <3>2, <2>6
      <4> QED
        BY <4>1, <3>2, <2>1, <2>6
    <3> QED
      BY <3>1, <3>2
  <2>8. ASSUME NEW i \in v PROVE i < 7 * Len(data)
    <3>1. i >= 32 => i - 32 < 7 * n - 4
      BY <1>1, <1>4 DEF Below
    <3>2. i \in 0 .. 63
      BY <1>1
    <3>3. i < 7 * (4 + n)
      BY <3>1, <3>2
    <3> QED
      BY <3>3, <2>6
  <2>9. Len(data) \in 5 .. 10
    BY <2>6
  <2>10. parse_uint64(data) = v
    BY <2>6, <2>7, <2>8, <2>9, GroupsRestored
  <2> QED
    BY <2>10 DEF data
<1>5. CASE hi # {} /\ Below(hi, 3)
  <2>1. uint64_pack(v) = low4 \o groups(1)
    BY <1>5 DEF uint64_pack
  <2>2. 7 * 1 - 4 = 3
    OBVIOUS
  <2> HIDE DEF low4, groups
  <2> QED
    BY <2>1, <2>2, <1>4, <1>5
<1>6. CASE hi # {} /\ ~Below(hi, 3)
  <2>1. uint64_pack(v) = low4 \o groups(first)
    BY <1>6 DEF uint64_pack
  <2>2. first \in 1 .. 6 /\ Below(hi, 7 * first - 4)
    <3> DEFINE len == IF Below(hi, 10) THEN 2 ELSE IF Below(hi, 17) THEN 3
                      ELSE IF Below(hi, 24) THEN 4 ELSE IF Below(hi, 31) THEN 5 ELSE 6
    <3>1. /\ 7 * 2 - 4 = 10 /\ 7 * 3 - 4 = 17 /\ 7 * 4 - 4 = 24
          /\ 7 * 5 - 4 = 31 /\ 7 * 6 - 4 = 38
      OBVIOUS
    <3>2. Below(hi, 38)
      BY DEF Shr, Below
    <3> HIDE DEF hi
    <3>3. /\ len \in 2 .. 6 /\ Below(hi, 7 * len - 4)
          /\ \A m \in 2 .. len - 1 : ~Below(hi, 7 * m - 4)
      BY <3>1, <3>2
    <3>4. first \in 2 .. 6 /\ Below(hi, 7 * first - 4)
      BY <3>3
    <3> HIDE DEF first
    <3> QED
      BY <3>4
  <2> HIDE DEF first, low4, groups
  <2> QED
    BY <2>1, <2>2, <1>4
<1> QED
  BY <1>3, <1>5, <1>6

(* What holds at 0 and goes from a number to the next holds of all of them. *)
LEMMA SetInduction ==
    ASSUME NEW T, 0 \in T, \A n \in Nat : n \in T => n + 1 \in T
    PROVE  Nat \subseteq T
<1> DEFINE R == Nat \ T
           Less == {pair \in Nat \X Nat : pair[1] < pair[2]}
<1> SUFFICES ASSUME R # {} PROVE FALSE
  OBVIOUS
<1>1. IsWellFoundedOn(Less, Nat)
  BY NatLessThanWellFounded DEF OpToRel
<1>2. PICK x \in R : \A y \in R : <<y, x>> \notin Less
  <2> HIDE DEF Less
  <2> QED
    BY <1>1, WFMin
<1>3. x \in Nat /\ x # 0
  OBVIOUS
<1>4. x - 1 \in Nat /\ <<x - 1, x>> \in Less
  BY <1>3
<1> QED
  BY <1>2, <1>3, <1>4

--------------------------------
(* The messages within a message *)

Below1(S) == UNION {Children(x) : x \in S}
LevelStep(m, f, k) == IF k = 0 THEN {m} ELSE Below1(f[k - 1])
IsLevel(m, f) == f = [k \in Nat |-> LevelStep(m, f, k)]

(* Level is a function of the levels before it, when there is one. *)
LEMMA LevelIs ==
    ASSUME NEW m, NEW n
    PROVE  Level(m, n) = (CHOOSE f : IsLevel(m, f))[n]
BY DEF Level, IsLevel, LevelStep, Below1

UpToLevel(m, n, f) == f = [k \in 0 .. n |-> LevelStep(m, f, k)]

(* There is one: the levels can be given up to any number. *)
LEMMA LevelExists ==
    ASSUME NEW m
    PROVE  \E f : IsLevel(m, f)
<1> DEFINE T == {n \in Nat : \E f : UpToLevel(m, n, f)}
           pick(n) == CHOOSE f : UpToLevel(m, n, f)
           g == [k \in Nat |-> pick(k)[k]]
<1>1. 0 \in T
  <2> DEFINE f == [k \in 0 .. 0 |-> {m}]
  <2>1. f = [k \in 0 .. 0 |-> LevelStep(m, f, k)]
    <3>1. \A k \in 0 .. 0 : LevelStep(m, f, k) = {m}
      BY DEF LevelStep
    <3> QED
      BY <3>1
  <2> HIDE DEF f
  <2> QED
    BY <2>1 DEF UpToLevel
<1>2. ASSUME NEW n \in Nat, n \in T PROVE n + 1 \in T
  <2>1. PICK f : UpToLevel(m, n, f)
    BY <1>2
  <2> DEFINE h == [k \in 0 .. n + 1 |-> LevelStep(m, f, k)]
  <2>2. \A k \in 0 .. n : h[k] = f[k]
    BY <2>1 DEF UpToLevel
  <2>3. \A k \in 0 .. n + 1 : LevelStep(m, f, k) = LevelStep(m, h, k)
    <3>1. \A k \in 0 .. n + 1 : k # 0 => k - 1 \in 0 .. n
      OBVIOUS
    <3> HIDE DEF h
    <3> QED
      BY <2>2, <3>1 DEF LevelStep
  <2>4. h = [k \in 0 .. n + 1 |-> LevelStep(m, h, k)]
    BY <2>3
  <2> HIDE DEF h
  <2> QED
    BY <2>4 DEF UpToLevel
<1>3. \A n \in Nat : UpToLevel(m, n, pick(n))
  <2>1. Nat \subseteq T
    <3> HIDE DEF T
    <3> QED
      BY <1>1, <1>2, SetInduction
  <2> QED
    BY <2>1
<1> HIDE DEF pick
<1>4. \A n \in Nat : pick(n + 1)[n] = pick(n)[n]
  <2> DEFINE A == {k \in Nat : \A n \in Nat : k <= n => pick(n + 1)[k] = pick(n)[k]}
  <2>0. \A n \in Nat : \A k \in 0 .. n : pick(n)[k] = LevelStep(m, pick(n), k)
    BY <1>3 DEF UpToLevel
  <2>1. 0 \in A
    <3>1. ASSUME NEW n \in Nat PROVE pick(n + 1)[0] = {m} /\ pick(n)[0] = {m}
      <4>1. n + 1 \in Nat /\ 0 \in 0 .. n /\ 0 \in 0 .. n + 1
        OBVIOUS
      <4> QED
        BY <4>1, <2>0 DEF LevelStep
    <3> QED
      BY <3>1
  <2>2. ASSUME NEW k \in Nat, k \in A PROVE k + 1 \in A
    <3> SUFFICES ASSUME NEW n \in Nat, k + 1 <= n PROVE pick(n + 1)[k + 1] = pick(n)[k + 1]
      OBVIOUS
    <3>1. n + 1 \in Nat /\ k + 1 \in 0 .. n /\ k + 1 \in 0 .. n + 1 /\ k <= n /\ k + 1 # 0
          /\ (k + 1) - 1 = k
      OBVIOUS
    <3>2. pick(n + 1)[k] = pick(n)[k]
      BY <2>2, <3>1
    <3>3. pick(n + 1)[k + 1] = LevelStep(m, pick(n + 1), k + 1)
      BY <2>0, <3>1
    <3>4. pick(n)[k + 1] = LevelStep(m, pick(n), k + 1)
      BY <2>0, <3>1
    <3> QED
      BY <3>1, <3>2, <3>3, <3>4 DEF LevelStep
  <2>3. Nat \subseteq A
    <3> HIDE DEF A
    <3> QED
      BY <2>1, <2>2, SetInduction
  <2> QED
    BY <2>3
<1>5. \A k \in Nat : g[k] = LevelStep(m, g, k)
  <2> SUFFICES ASSUME NEW k \in Nat PROVE pick(k)[k] = LevelStep(m, g, k)
    OBVIOUS
  <2>1. pick(k)[k] = LevelStep(m, pick(k), k)
    <3>1. k \in 0 .. k
      OBVIOUS
    <3> QED
      BY <3>1, <1>3 DEF UpToLevel
  <2>2. CASE k = 0
    BY <2>1, <2>2 DEF LevelStep
  <2>3. CASE k # 0
    <3>1. PICK n \in Nat : n = k - 1 /\ n + 1 = k
      <4>1. k - 1 \in Nat /\ (k - 1) + 1 = k
        BY <2>3
      <4> QED
        BY <4>1
    <3>2. pick(k)[n] = pick(n)[n] /\ g[n] = pick(n)[n]
      BY <3>1, <1>4
    <3> QED
      BY <2>1, <2>3, <3>1, <3>2 DEF LevelStep
  <2> QED
    BY <2>2, <2>3
<1>6. g = [k \in Nat |-> LevelStep(m, g, k)]
  <2>1. g = [k \in Nat |-> g[k]]
    OBVIOUS
  <2> HIDE DEF g
  <2> QED
    BY <1>5, <2>1
<1> HIDE DEF g
<1> QED
  BY <1>6 DEF IsLevel

(* The first level is the message itself, each other one the messages in
   those of the level before. *)
LEMMA LevelByLevel ==
    ASSUME NEW m
    PROVE  /\ Level(m, 0) = {m}
           /\ \A n \in Nat : Level(m, n + 1) = Below1(Level(m, n))
<1> DEFINE f == CHOOSE f : IsLevel(m, f)
<1>1. IsLevel(m, f)
  BY LevelExists
<1>2. \A n \in Nat : Level(m, n) = f[n]
  BY LevelIs
<1> HIDE DEF f
<1>3. \A n \in Nat : f[n] = LevelStep(m, f, n)
  BY <1>1 DEF IsLevel
<1>4. \A n \in Nat : n + 1 \in Nat /\ n + 1 # 0 /\ (n + 1) - 1 = n
  OBVIOUS
<1> QED
  BY <1>2, <1>3, <1>4 DEF LevelStep

(* A message has a finite depth: there is a level with no messages. *)
Finite(m) == \E n \in Nat : Level(m, n) = {}

(* Below an empty level there is none that is not. *)
LEMMA EmptyBelow ==
    ASSUME NEW m, NEW n \in Nat, Level(m, n) = {}
    PROVE  \A k \in Nat : n <= k => Level(m, k) = {}
<1> DEFINE T == {j \in Nat : Level(m, n + j) = {}}
<1>1. 0 \in T
  OBVIOUS
<1>2. ASSUME NEW j \in Nat, j \in T PROVE j + 1 \in T
  <2>1. Level(m, (n + j) + 1) = Below1(Level(m, n + j)) /\ (n + j) + 1 = n + (j + 1)
    BY LevelByLevel
  <2>2. Below1({}) = {}
    BY DEF Below1
  <2> QED
    BY <1>2, <2>1, <2>2
<1>3. Nat \subseteq T
  <2> HIDE DEF T
  <2> QED
    BY <1>1, <1>2, SetInduction
<1> QED
  <2> SUFFICES ASSUME NEW k \in Nat, n <= k PROVE Level(m, k) = {}
    OBVIOUS
  <2>1. k - n \in Nat /\ n + (k - n) = k
    OBVIOUS
  <2> QED
    BY <1>3, <2>1

IsDepth(m, f) == f = [n \in Nat |-> IF Level(m, n) = {} THEN n ELSE f[n + 1]]

(* Depth goes from level to level, when there is a function that does. *)
LEMMA DepthIs ==
    ASSUME NEW m
    PROVE  Depth(m) = (CHOOSE f : IsDepth(m, f))[0]
BY DEF Depth, IsDepth

(* A message that is finite has such a function: it gives the first empty
   level. *)
LEMMA DepthExists ==
    ASSUME NEW m, Finite(m)
    PROVE  \E f : IsDepth(m, f)
<1> DEFINE E == {n \in Nat : Level(m, n) = {}}
           Less == {pair \in Nat \X Nat : pair[1] < pair[2]}
<1>1. IsWellFoundedOn(Less, Nat)
  BY NatLessThanWellFounded DEF OpToRel
<1>2. E \subseteq Nat /\ E # {}
  BY DEF Finite
<1>3. PICK d \in E : \A y \in E : <<y, d>> \notin Less
  <2> HIDE DEF Less, E
  <2> QED
    BY <1>1, <1>2, WFMin
<1>4. d \in Nat /\ \A n \in Nat : Level(m, n) = {} <=> d <= n
  <2>1. d \in Nat /\ Level(m, d) = {} /\ \A n \in Nat : Level(m, n) = {} => ~ (n < d)
    BY <1>3
  <2>2. \A n \in Nat : d <= n => Level(m, n) = {}
    BY <2>1, EmptyBelow
  <2> QED
    BY <2>1, <2>2
<1> DEFINE g == [n \in Nat |-> IF d <= n THEN n ELSE d]
<1>5. ASSUME NEW n \in Nat
      PROVE  (IF d <= n THEN n ELSE d) = (IF Level(m, n) = {} THEN n ELSE g[n + 1])
  <2>1. n + 1 \in Nat /\ (~ (d <= n) => g[n + 1] = d)
    BY <1>4
  <2> QED
    BY <1>4, <2>1
<1>6. g = [n \in Nat |-> IF Level(m, n) = {} THEN n ELSE g[n + 1]]
  BY <1>5
<1> HIDE DEF g
<1> QED
  BY <1>6 DEF IsDepth

(* The depth of a message is the number of a level that is empty. *)
LEMMA DepthIsEmpty ==
    ASSUME NEW m, Finite(m)
    PROVE  Depth(m) \in Nat /\ Level(m, Depth(m)) = {}
<1> DEFINE f == CHOOSE f : IsDepth(m, f)
           T == {j \in Nat : \A n \in Nat : Level(m, n + j) = {} => f[n] \in Nat /\ Level(m, f[n]) = {}}
<1>1. IsDepth(m, f)
  BY DepthExists
<1>2. Depth(m) = f[0]
  BY DepthIs
<1> HIDE DEF f
<1>3. \A n \in Nat : f[n] = IF Level(m, n) = {} THEN n ELSE f[n + 1]
  BY <1>1 DEF IsDepth
<1>4. 0 \in T
  <2> SUFFICES ASSUME NEW n \in Nat, Level(m, n + 0) = {}
               PROVE  f[n] \in Nat /\ Level(m, f[n]) = {}
    OBVIOUS
  <2>1. n + 0 = n
    OBVIOUS
  <2> QED
    BY <1>3, <2>1
<1>5. ASSUME NEW j \in Nat, j \in T PROVE j + 1 \in T
  <2>1. ASSUME NEW n \in Nat, Level(m, n + (j + 1)) = {}
        PROVE  f[n] \in Nat /\ Level(m, f[n]) = {}
    <3>1. n + (j + 1) = (n + 1) + j /\ n + 1 \in Nat
      <4> HIDE DEF T
      <4> QED
        OBVIOUS
    <3>2. f[n + 1] \in Nat /\ Level(m, f[n + 1]) = {}
      BY <1>5, <2>1, <3>1
    <3> QED
      BY <1>3, <3>2
  <2>2. j + 1 \in Nat
    OBVIOUS
  <2> QED
    BY <2>1, <2>2
<1>6. PICK n \in Nat : Level(m, n) = {}
  BY DEF Finite
<1>7. Nat \subseteq T
  <2> HIDE DEF T
  <2> QED
    BY <1>4, <1>5, SetInduction
<1>8. 0 + n = n
  OBVIOUS
<1> QED
  BY <1>2, <1>6, <1>7, <1>8

(* A message is within itself, and so is what is in a message within it. *)
LEMMA WithinIs ==
    ASSUME NEW m, Finite(m)
    PROVE  /\ m \in Within(m)
           /\ \A x \in Within(m) : Children(x) \subseteq Within(m)
<1> DEFINE d == Depth(m)
<1>1. d \in Nat /\ Level(m, d) = {}
  BY DepthIsEmpty
<1>2. Level(m, 0) = {m} /\ 0 \in 0 .. d
  BY <1>1, LevelByLevel
<1>3. m \in Within(m)
  <2>1. m \in Level(m, 0)
    BY <1>2
  <2> HIDE DEF d
  <2> QED
    BY <1>2, <2>1 DEF Within, d
<1>4. ASSUME NEW x \in Within(m), NEW c \in Children(x) PROVE c \in Within(m)
  <2>1. PICK n \in 0 .. d : x \in Level(m, n)
    BY <1>4 DEF Within
  <2>2. n # d
    BY <1>1, <2>1
  <2>3. n + 1 \in 0 .. d /\ n \in Nat
    BY <1>1, <2>1, <2>2
  <2>4. c \in Level(m, n + 1)
    <3>1. Level(m, n + 1) = Below1(Level(m, n))
      BY <2>3, LevelByLevel
    <3> QED
      BY <2>1, <3>1, <1>4 DEF Below1
  <2> HIDE DEF d
  <2> QED
    BY <2>3, <2>4 DEF Within, d
<1> QED
  BY <1>3, <1>4

(* The messages within m from which at most k levels remain. *)
Bottom(m, k) == UNION {Level(m, n) : n \in {n \in 0 .. Depth(m) : Depth(m) <= n + k}}

(* None remain at the bottom, and each level holds what is in the one
   above. *)
LEMMA BottomIs ==
    ASSUME NEW m, Finite(m)
    PROVE  /\ Bottom(m, 0) = {}
           /\ \A k \in Nat : /\ Bottom(m, k) \subseteq Within(m)
                             /\ \A x \in Bottom(m, k + 1) : Children(x) \subseteq Bottom(m, k)
           /\ Bottom(m, Depth(m)) = Within(m)
<1> DEFINE d == Depth(m)
<1>1. d \in Nat /\ Level(m, d) = {}
  BY DepthIsEmpty
<1> HIDE DEF d
<1>2. Bottom(m, 0) = {}
  <2>1. \A n \in 0 .. d : d <= n + 0 => n = d
    BY <1>1
  <2> QED
    BY <1>1, <2>1 DEF Bottom, d
<1>3. ASSUME NEW k \in Nat
      PROVE  /\ Bottom(m, k) \subseteq Within(m)
             /\ \A x \in Bottom(m, k + 1) : Children(x) \subseteq Bottom(m, k)
  <2>1. Bottom(m, k) \subseteq Within(m)
    BY DEF Bottom, Within
  <2>2. ASSUME NEW x \in Bottom(m, k + 1), NEW c \in Children(x) PROVE c \in Bottom(m, k)
    <3>1. PICK n \in 0 .. d : d <= n + (k + 1) /\ x \in Level(m, n)
      BY <2>2 DEF Bottom, d
    <3>2. n # d
      BY <1>1, <3>1
    <3>3. n + 1 \in 0 .. d /\ n \in Nat /\ d <= (n + 1) + k
      BY <1>1, <3>1, <3>2
    <3>4. c \in Level(m, n + 1)
      <4>1. Level(m, n + 1) = Below1(Level(m, n))
        BY <3>3, LevelByLevel
      <4> QED
        BY <2>2, <3>1, <4>1 DEF Below1
    <3> QED
      BY <3>3, <3>4 DEF Bottom, d
  <2> QED
    BY <2>1, <2>2
<1>4. Bottom(m, d) = Within(m)
  <2>1. \A n \in 0 .. d : d <= n + d
    BY <1>1
  <2> QED
    BY <2>1 DEF Bottom, Within, d
<1> QED
  BY <1>2, <1>3, <1>4 DEF d

(* One more level from the bottom holds all those before. *)
LEMMA BottomGrows ==
    ASSUME NEW m, Finite(m), NEW k \in Nat
    PROVE  /\ Bottom(m, k + 1) \subseteq Within(m) /\ Bottom(m, k) \subseteq Bottom(m, k + 1)
           /\ \A x \in Bottom(m, k + 1) : Children(x) \subseteq Bottom(m, k)
<1>1. k + 1 \in Nat /\ Depth(m) \in Nat
  BY DepthIsEmpty
<1>2. \A n \in 0 .. Depth(m) : Depth(m) <= n + k => Depth(m) <= n + (k + 1)
  BY <1>1
<1>3. Bottom(m, k) \subseteq Bottom(m, k + 1)
  BY <1>2 DEF Bottom
<1> QED
  BY <1>1, <1>3, BottomIs

(* What holds of a message when it holds of those directly in it holds of
   all of them. *)
LEMMA TreeInduction ==
    ASSUME NEW m, Finite(m), NEW P,
           \A x \in Within(m) : Children(x) \subseteq P => x \in P
    PROVE  Within(m) \subseteq P
<1> DEFINE T == {k \in Nat : Bottom(m, k) \subseteq P}
<1>1. 0 \in T
  BY BottomIs
<1>2. ASSUME NEW k \in Nat, k \in T PROVE k + 1 \in T
  <2>1. Bottom(m, k + 1) \subseteq Within(m) /\ \A x \in Bottom(m, k + 1) : Children(x) \subseteq Bottom(m, k)
    <3>1. k + 1 \in Nat
      OBVIOUS
    <3> QED
      BY <3>1, BottomIs
  <2>2. Bottom(m, k + 1) \subseteq P
    BY <1>2, <2>1
  <2> QED
    BY <2>2
<1>3. Depth(m) \in T
  <2>1. Depth(m) \in Nat
    BY DepthIsEmpty
  <2> HIDE DEF T
  <2> QED
    BY <1>1, <1>2, <2>1, SetInduction
<1> QED
  BY <1>3, BottomIs

--------------------------------
(* Sums *)

(* The element that SumFunction adds next. *)
Chosen(s) == CHOOSE x \in s : TRUE
SumStep(f, g, s) == IF s = {} THEN 0 ELSE f[Chosen(s)] + g[s \ {Chosen(s)}]
IsSum(f, g) == g = [s \in SUBSET DOMAIN f |-> SumStep(f, g, s)]
PartSum(f, s) == (CHOOSE g : IsSum(f, g))[s]

(* SumFunction is a sum over all the domain. *)
LEMMA SumIs ==
    ASSUME NEW f
    PROVE  SumFunction(f) = PartSum(f, DOMAIN f)
BY DEF SumFunction, SumFunctionOnSet, FoldFunctionOnSet, MapThenFoldSet, IsSum, SumStep, Chosen,
       PartSum

(* The subsets of at most n elements. *)
Small(S, n) == {s \in SUBSET S : Cardinality(s) <= n}

(* A subset without one of its elements is smaller. *)
LEMMA Smaller ==
    ASSUME NEW S, IsFiniteSet(S), NEW s \in SUBSET S, s # {}
    PROVE  /\ Chosen(s) \in s /\ s \ {Chosen(s)} \in SUBSET S
           /\ Cardinality(s) \in Nat /\ Cardinality(s \ {Chosen(s)}) = Cardinality(s) - 1
<1>1. Chosen(s) \in s
  BY DEF Chosen
<1>2. IsFiniteSet(s) /\ Cardinality(s) \in Nat
  BY FS_Subset, FS_CardinalityType
<1> QED
  BY <1>1, <1>2, FS_RemoveElement

(* The small sets: only the empty one has no element, and with one element
   taken out a set is among the smaller. *)
LEMMA SmallSets ==
    ASSUME NEW S, IsFiniteSet(S)
    PROVE  /\ Small(S, 0) = {{}}
           /\ \A n \in Nat : \A s \in Small(S, n + 1) : s # {} => s \ {Chosen(s)} \in Small(S, n)
           /\ Small(S, Cardinality(S)) = SUBSET S
<1>1. \A s \in SUBSET S : IsFiniteSet(s) /\ Cardinality(s) \in Nat /\ Cardinality(s) <= Cardinality(S)
  BY FS_Subset, FS_CardinalityType
<1>2. \A s \in SUBSET S : Cardinality(s) <= 0 <=> s = {}
  BY <1>1, FS_EmptySet
<1>3. Small(S, 0) = {{}}
  BY <1>2 DEF Small
<1>4. ASSUME NEW n \in Nat, NEW s \in Small(S, n + 1), s # {}
      PROVE  s \ {Chosen(s)} \in Small(S, n)
  <2>1. s \in SUBSET S /\ Cardinality(s) <= n + 1
    BY <1>4 DEF Small
  <2>2. /\ s \ {Chosen(s)} \in SUBSET S
        /\ Cardinality(s) \in Nat /\ Cardinality(s \ {Chosen(s)}) = Cardinality(s) - 1
    BY <1>4, <2>1, Smaller
  <2> QED
    BY <2>1, <2>2 DEF Small
<1>5. Small(S, Cardinality(S)) = SUBSET S
  BY <1>1 DEF Small
<1> QED
  BY <1>3, <1>4, <1>5

(* There is a function that sums over every part of a finite domain. *)
LEMMA SumExists ==
    ASSUME NEW f, IsFiniteSet(DOMAIN f)
    PROVE  \E g : IsSum(f, g)
<1> DEFINE D == DOMAIN f
           T == {n \in Nat : \E g : g = [s \in Small(D, n) |-> SumStep(f, g, s)]}
<1>1. 0 \in T
  <2> DEFINE g == [s \in Small(D, 0) |-> 0]
  <2>1. Small(D, 0) = {{}}
    BY SmallSets
  <2>2. \A s \in Small(D, 0) : SumStep(f, g, s) = 0
    BY <2>1 DEF SumStep
  <2>3. g = [s \in Small(D, 0) |-> SumStep(f, g, s)]
    BY <2>2
  <2> QED
    BY <2>3
<1>2. ASSUME NEW n \in Nat, n \in T PROVE n + 1 \in T
  <2>1. PICK g : g = [s \in Small(D, n) |-> SumStep(f, g, s)]
    BY <1>2
  <2> DEFINE h == [s \in Small(D, n + 1) |-> SumStep(f, g, s)]
  <2>2. \A s \in Small(D, n) : s \in Small(D, n + 1) /\ h[s] = g[s]
    <3>1. Small(D, n) \subseteq Small(D, n + 1)
      <4>1. \A s \in SUBSET D : Cardinality(s) \in Nat
        BY FS_Subset, FS_CardinalityType
      <4> QED
        BY <4>1 DEF Small
    <3>2. \A s \in Small(D, n) : g[s] = SumStep(f, g, s)
      BY <2>1
    <3> HIDE DEF D
    <3> QED
      BY <3>1, <3>2
  <2>3. \A s \in Small(D, n + 1) : SumStep(f, g, s) = SumStep(f, h, s)
    <3>1. \A s \in Small(D, n + 1) : s # {} => s \ {Chosen(s)} \in Small(D, n)
      BY SmallSets
    <3> HIDE DEF D, h
    <3> QED
      BY <2>2, <3>1 DEF SumStep
  <2>4. h = [s \in Small(D, n + 1) |-> SumStep(f, h, s)]
    BY <2>3
  <2> HIDE DEF h
  <2> QED
    BY <2>4
<1>3. Cardinality(D) \in Nat
  BY FS_CardinalityType
<1>4. Cardinality(D) \in T
  <2> HIDE DEF T
  <2> QED
    BY <1>1, <1>2, <1>3, SetInduction
<1>5. PICK g : g = [s \in Small(D, Cardinality(D)) |-> SumStep(f, g, s)]
  BY <1>4
<1>6. Small(D, Cardinality(D)) = SUBSET D
  BY SmallSets
<1>7. g = [s \in SUBSET D |-> SumStep(f, g, s)]
  BY <1>5, <1>6
<1> QED
  BY <1>7 DEF IsSum

(* The sum over a part is one of its numbers and the sum over the others. *)
LEMMA PartSumIs ==
    ASSUME NEW f, IsFiniteSet(DOMAIN f), NEW s \in SUBSET DOMAIN f
    PROVE  PartSum(f, s) = IF s = {} THEN 0 ELSE f[Chosen(s)] + PartSum(f, s \ {Chosen(s)})
<1> DEFINE g == CHOOSE g : IsSum(f, g)
<1>1. IsSum(f, g)
  BY SumExists
<1> HIDE DEF g
<1>2. g[s] = SumStep(f, g, s)
  BY <1>1 DEF IsSum
<1> QED
  BY <1>2 DEF PartSum, g, SumStep

Numbers(f) == IsFiniteSet(DOMAIN f) /\ \A x \in DOMAIN f : f[x] \in Nat

(* A sum of natural numbers is one. *)
LEMMA PartSumType ==
    ASSUME NEW f, Numbers(f)
    PROVE  \A s \in SUBSET DOMAIN f : PartSum(f, s) \in Nat
<1> DEFINE D == DOMAIN f
           T == {n \in Nat : \A s \in Small(D, n) : PartSum(f, s) \in Nat}
<1>0. IsFiniteSet(D)
  BY DEF Numbers
<1>1. 0 \in T
  BY <1>0, SmallSets, PartSumIs
<1>2. ASSUME NEW n \in Nat, n \in T PROVE n + 1 \in T
  <2> SUFFICES ASSUME NEW s \in Small(D, n + 1) PROVE PartSum(f, s) \in Nat
    OBVIOUS
  <2>1. s \in SUBSET D
    BY DEF Small
  <2>2. CASE s = {}
    BY <1>0, <2>1, <2>2, PartSumIs
  <2>3. CASE s # {}
    <3>1. s \ {Chosen(s)} \in Small(D, n) /\ Chosen(s) \in D
      BY <1>0, <2>1, <2>3, SmallSets, Smaller
    <3>2. PartSum(f, s \ {Chosen(s)}) \in Nat /\ f[Chosen(s)] \in Nat
      BY <1>2, <3>1 DEF Numbers
    <3> QED
      BY <1>0, <2>1, <2>3, <3>2, PartSumIs
  <2> QED
    BY <2>2, <2>3
<1>3. Cardinality(D) \in T
  <2>1. Cardinality(D) \in Nat
    BY <1>0, FS_CardinalityType
  <2> HIDE DEF T
  <2> QED
    BY <1>1, <1>2, <2>1, SetInduction
<1> QED
  BY <1>0, <1>3, SmallSets

(* Any element may be the last that is added. *)
LEMMA SumOut ==
    ASSUME NEW f, Numbers(f)
    PROVE  \A s \in SUBSET DOMAIN f : \A x \in s : PartSum(f, s) = PartSum(f, s \ {x}) + f[x]
<1> DEFINE D == DOMAIN f
           T == {n \in Nat : \A s \in Small(D, n) :
                                \A x \in s : PartSum(f, s) = PartSum(f, s \ {x}) + f[x]}
<1>0. IsFiniteSet(D)
  BY DEF Numbers
<1>1. 0 \in T
  BY <1>0, SmallSets
<1>2. ASSUME NEW n \in Nat, n \in T PROVE n + 1 \in T
  <2> SUFFICES ASSUME NEW s \in Small(D, n + 1), NEW x \in s
               PROVE  PartSum(f, s) = PartSum(f, s \ {x}) + f[x]
    OBVIOUS
  <2> DEFINE y == Chosen(s)
             u == s \ {y}
             v == s \ {x}
             w == u \ {x}
  <2>1. s \in SUBSET D /\ s # {} /\ y \in s
    BY DEF Small, Chosen
  <2>2. u \in Small(D, n)
    BY <1>0, <2>1, SmallSets
  <2>3. PartSum(f, s) = f[y] + PartSum(f, u)
    BY <1>0, <2>1, PartSumIs
  <2>4. f[x] \in Nat /\ f[y] \in Nat /\ PartSum(f, u) \in Nat /\ PartSum(f, w) \in Nat
        /\ PartSum(f, v) \in Nat
    <3>1. x \in D /\ y \in D /\ u \in SUBSET D /\ w \in SUBSET D /\ v \in SUBSET D
      BY <2>1
    <3> HIDE DEF u, v, w, y
    <3> QED
      BY <3>1, PartSumType DEF Numbers
  <2>5. CASE x = y
    BY <2>3, <2>4, <2>5
  <2>6. CASE x # y
    <3>1. PartSum(f, u) = PartSum(f, w) + f[x]
      <4>1. x \in u
        BY <2>6
      <4> HIDE DEF u
      <4> QED
        BY <1>2, <2>2, <4>1
    <3>2. PartSum(f, v) = PartSum(f, v \ {y}) + f[y]
      <4>1. v \in Small(D, n) /\ y \in v
        <5>1. y \in v /\ v \in SUBSET D
          BY <2>1, <2>6
        <5>2. IsFiniteSet(s) /\ Cardinality(s) \in Nat
          BY <1>0, <2>1, FS_Subset, FS_CardinalityType
        <5>3. Cardinality(v) = Cardinality(s) - 1
          BY <5>2, FS_RemoveElement
        <5> QED
          BY <5>1, <5>2, <5>3 DEF Small
      <4> HIDE DEF v, y
      <4> QED
        BY <1>2, <4>1
    <3>3. v \ {y} = w
      OBVIOUS
    <3> HIDE DEF u, v, w, y
    <3> QED
      BY <2>3, <2>4, <3>1, <3>2, <3>3 DEF v
  <2> QED
    BY <2>5, <2>6
<1>3. Cardinality(D) \in T
  <2>1. Cardinality(D) \in Nat
    BY <1>0, FS_CardinalityType
  <2> HIDE DEF T
  <2> QED
    BY <1>1, <1>2, <2>1, SetInduction
<1> QED
  BY <1>0, <1>3, SmallSets

(* The sum of the first k numbers. *)
SumTo(f, k) == PartSum(f, 1 .. k)

(* Numbers in a sequence are added one after the other. *)
LEMMA SumSteps ==
    ASSUME NEW n \in Nat, NEW f, DOMAIN f = 1 .. n, \A i \in 1 .. n : f[i] \in Nat
    PROVE  /\ SumFunction(f) = SumTo(f, n)
           /\ SumTo(f, 0) = 0
           /\ \A k \in 0 .. n : SumTo(f, k) \in Nat
           /\ \A k \in 1 .. n : SumTo(f, k) = SumTo(f, k - 1) + f[k]
<1>1. Numbers(f)
  BY FS_Interval DEF Numbers
<1>2. SumTo(f, 0) = 0
  <2>1. 1 .. 0 = {} /\ {} \in SUBSET DOMAIN f
    OBVIOUS
  <2> QED
    BY <1>1, <2>1, PartSumIs DEF SumTo, Numbers
<1>3. ASSUME NEW k \in 0 .. n PROVE SumTo(f, k) \in Nat
  <2>1. 1 .. k \in SUBSET DOMAIN f
    OBVIOUS
  <2> QED
    BY <1>1, <2>1, PartSumType DEF SumTo
<1>4. ASSUME NEW k \in 1 .. n PROVE SumTo(f, k) = SumTo(f, k - 1) + f[k]
  <2>1. 1 .. k \in SUBSET DOMAIN f /\ k \in 1 .. k /\ (1 .. k) \ {k} = 1 .. k - 1
    OBVIOUS
  <2>2. PartSum(f, 1 .. k) = PartSum(f, (1 .. k) \ {k}) + f[k]
    BY <1>1, <2>1, SumOut
  <2> QED
    BY <2>1, <2>2 DEF SumTo
<1> QED
  BY <1>2, <1>3, <1>4, SumIs DEF SumTo

--------------------------------
(* Sequences joined *)

FlatStep(seqs, f, i) == IF i = 1 THEN seqs[i] ELSE f[i - 1] \o seqs[i]
IsFlat(seqs, f) == f = [i \in 1 .. Len(seqs) |-> FlatStep(seqs, f, i)]
(* The first k sequences joined. *)
FlatTo(seqs, k) == IF k = 0 THEN <<>> ELSE (CHOOSE f : IsFlat(seqs, f))[k]

(* FlattenSeq joins all of them. *)
LEMMA FlattenIs ==
    ASSUME NEW seqs, Len(seqs) # 0
    PROVE  FlattenSeq(seqs) = (CHOOSE f : IsFlat(seqs, f))[Len(seqs)]
BY DEF FlattenSeq, IsFlat, FlatStep

(* There is a function that joins the first of them, for any number. *)
LEMMA FlatExists ==
    ASSUME NEW seqs, Len(seqs) \in Nat
    PROVE  \E f : IsFlat(seqs, f)
<1> DEFINE T == {n \in Nat : \E f : f = [i \in 1 .. n |-> FlatStep(seqs, f, i)]}
<1>1. 0 \in T
  <2>1. 1 .. 0 = {}
    OBVIOUS
  <2> DEFINE f == [i \in 1 .. 0 |-> seqs[i]]
  <2>2. f = [i \in 1 .. 0 |-> FlatStep(seqs, f, i)]
    BY <2>1
  <2> HIDE DEF f
  <2> QED
    BY <2>2
<1>2. ASSUME NEW n \in Nat, n \in T PROVE n + 1 \in T
  <2>1. PICK f : f = [i \in 1 .. n |-> FlatStep(seqs, f, i)]
    BY <1>2
  <2> DEFINE g == [i \in 1 .. n + 1 |-> FlatStep(seqs, f, i)]
  <2>2. \A i \in 1 .. n : i \in 1 .. n + 1 /\ g[i] = f[i]
    <3>1. \A i \in 1 .. n : f[i] = FlatStep(seqs, f, i) /\ i \in 1 .. n + 1
      BY <2>1
    <3> QED
      BY <3>1
  <2>3. \A i \in 1 .. n + 1 : FlatStep(seqs, f, i) = FlatStep(seqs, g, i)
    <3>1. \A i \in 1 .. n + 1 : i # 1 => i - 1 \in 1 .. n
      OBVIOUS
    <3> HIDE DEF g
    <3> QED
      BY <2>2, <3>1 DEF FlatStep
  <2>4. g = [i \in 1 .. n + 1 |-> FlatStep(seqs, g, i)]
    BY <2>3
  <2> HIDE DEF g
  <2> QED
    BY <2>4
<1>3. Len(seqs) \in T
  <2> HIDE DEF T
  <2> QED
    BY <1>1, <1>2, SetInduction
<1> QED
  BY <1>3 DEF IsFlat

(* They are joined one after the other. *)
LEMMA FlatSteps ==
    ASSUME NEW S, NEW seqs \in Seq(Seq(S))
    PROVE  /\ FlattenSeq(seqs) = FlatTo(seqs, Len(seqs))
           /\ FlatTo(seqs, 0) = <<>>
           /\ \A k \in 0 .. Len(seqs) : FlatTo(seqs, k) \in Seq(S)
           /\ \A k \in 1 .. Len(seqs) : FlatTo(seqs, k) = FlatTo(seqs, k - 1) \o seqs[k]
<1> DEFINE n == Len(seqs)
           f == CHOOSE f : IsFlat(seqs, f)
           T == {k \in Nat : k <= n => FlatTo(seqs, k) \in Seq(S)}
<1>0. n \in Nat /\ \A i \in 1 .. n : seqs[i] \in Seq(S)
  OBVIOUS
<1>1. IsFlat(seqs, f)
  BY <1>0, FlatExists
<1> HIDE DEF f
<1>2. \A i \in 1 .. n : f[i] = FlatStep(seqs, f, i)
  BY <1>1 DEF IsFlat
<1>3. FlatTo(seqs, 0) = <<>> /\ \A i \in 1 .. n : FlatTo(seqs, i) = f[i]
  BY DEF FlatTo, f
<1>4. ASSUME NEW k \in 1 .. n PROVE FlatTo(seqs, k) = FlatTo(seqs, k - 1) \o seqs[k]
  <2>1. CASE k = 1
    BY <1>0, <1>2, <1>3, <2>1 DEF FlatStep
  <2>2. CASE k # 1
    <3>1. k - 1 \in 1 .. n
      BY <2>2
    <3>2. FlatTo(seqs, k - 1) = f[k - 1] /\ FlatTo(seqs, k) = f[k]
      BY <1>3, <3>1
    <3> QED
      BY <1>2, <2>2, <3>2 DEF FlatStep
  <2> QED
    BY <2>1, <2>2
<1>5. 0 \in T
  <2>1. <<>> \in Seq(S)
    OBVIOUS
  <2> QED
    BY <1>3, <2>1
<1>6. ASSUME NEW k \in Nat, k \in T PROVE k + 1 \in T
  <2> SUFFICES ASSUME k + 1 <= n PROVE FlatTo(seqs, k + 1) \in Seq(S)
    OBVIOUS
  <2>1. k + 1 \in 1 .. n /\ (k + 1) - 1 = k
    BY <1>0
  <2>2. FlatTo(seqs, k) \in Seq(S) /\ seqs[k + 1] \in Seq(S)
    BY <1>0, <1>6, <2>1
  <2>3. FlatTo(seqs, k + 1) = FlatTo(seqs, k) \o seqs[k + 1]
    BY <1>4, <2>1
  <2> QED
    BY <2>2, <2>3, ConcatProperties
<1>7. \A k \in 0 .. n : FlatTo(seqs, k) \in Seq(S)
  <2>1. Nat \subseteq T
    <3> HIDE DEF T
    <3> QED
      BY <1>5, <1>6, SetInduction
  <2> QED
    BY <2>1
<1>8. FlattenSeq(seqs) = FlatTo(seqs, n)
  <2>1. CASE n = 0
    <3>1. FlattenSeq(seqs) = seqs
      BY <2>1 DEF FlattenSeq
    <3>2. seqs = <<>>
      BY <2>1, EmptySeq
    <3> QED
      BY <1>3, <2>1, <3>1, <3>2
  <2>2. CASE n # 0
    BY <1>3, <2>2, FlattenIs DEF f, FlatTo
  <2> QED
    BY <2>1, <2>2
<1> QED
  BY <1>3, <1>4, <1>7, <1>8

(* What is joined is as long as its parts together. *)
LEMMA FlatLength ==
    ASSUME NEW S, NEW seqs \in Seq(Seq(S))
    PROVE  /\ FlattenSeq(seqs) \in Seq(S)
           /\ Len(FlattenSeq(seqs)) = SumFunction([i \in 1 .. Len(seqs) |-> Len(seqs[i])])
<1> DEFINE n == Len(seqs)
           l == [i \in 1 .. n |-> Len(seqs[i])]
           T == {k \in Nat : k <= n => Len(FlatTo(seqs, k)) = SumTo(l, k)}
<1>0. n \in Nat /\ \A i \in 1 .. n : seqs[i] \in Seq(S)
  OBVIOUS
<1>1. DOMAIN l = 1 .. n /\ \A i \in 1 .. n : l[i] \in Nat /\ l[i] = Len(seqs[i])
  BY <1>0
<1> HIDE DEF l
<1>2. /\ SumFunction(l) = SumTo(l, n)
      /\ SumTo(l, 0) = 0
      /\ \A k \in 1 .. n : SumTo(l, k) = SumTo(l, k - 1) + l[k]
  BY <1>0, <1>1, SumSteps
<1>3. /\ FlattenSeq(seqs) = FlatTo(seqs, n)
      /\ FlatTo(seqs, 0) = <<>>
      /\ \A k \in 0 .. n : FlatTo(seqs, k) \in Seq(S)
      /\ \A k \in 1 .. n : FlatTo(seqs, k) = FlatTo(seqs, k - 1) \o seqs[k]
  BY FlatSteps
<1>4. 0 \in T
  BY <1>2, <1>3
<1>5. ASSUME NEW k \in Nat, k \in T PROVE k + 1 \in T
  <2> SUFFICES ASSUME k + 1 <= n PROVE Len(FlatTo(seqs, k + 1)) = SumTo(l, k + 1)
    OBVIOUS
  <2>1. k + 1 \in 1 .. n /\ (k + 1) - 1 = k /\ k \in 0 .. n
    BY <1>0
  <2>2. FlatTo(seqs, k) \in Seq(S) /\ seqs[k + 1] \in Seq(S)
    BY <1>0, <1>3, <2>1
  <2>3. FlatTo(seqs, k + 1) = FlatTo(seqs, k) \o seqs[k + 1]
    BY <1>3, <2>1
  <2>4. Len(FlatTo(seqs, k + 1)) = Len(FlatTo(seqs, k)) + Len(seqs[k + 1])
    BY <2>2, <2>3
  <2>5. SumTo(l, k + 1) = SumTo(l, k) + l[k + 1]
    BY <1>2, <2>1
  <2> QED
    BY <1>1, <1>5, <2>1, <2>4, <2>5, SMTT(60)
<1>6. n \in T
  <2> HIDE DEF T
  <2> QED
    BY <1>0, <1>4, <1>5, SetInduction
<1>7. FlattenSeq(seqs) \in Seq(S)
  <2>1. n \in 0 .. n
    BY <1>0
  <2> QED
    BY <1>3, <2>1
<1> QED
  BY <1>2, <1>3, <1>6, <1>7 DEF l

(* The same added to each of n numbers. *)
LEMMA SumOfEach ==
    ASSUME NEW n \in Nat, NEW c \in Nat, NEW a, DOMAIN a = 1 .. n, \A i \in 1 .. n : a[i] \in Nat
    PROVE  /\ SumFunction(a) \in Nat
           /\ SumFunction([i \in 1 .. n |-> c + a[i]]) = c * n + SumFunction(a)
<1> DEFINE b == [i \in 1 .. n |-> c + a[i]]
           T == {k \in Nat : k <= n => SumTo(b, k) = c * k + SumTo(a, k)}
<1>1. DOMAIN b = 1 .. n /\ \A i \in 1 .. n : b[i] \in Nat /\ b[i] = c + a[i]
  OBVIOUS
<1> HIDE DEF b
<1>2. /\ SumFunction(a) = SumTo(a, n)
      /\ SumTo(a, 0) = 0
      /\ \A k \in 0 .. n : SumTo(a, k) \in Nat
      /\ \A k \in 1 .. n : SumTo(a, k) = SumTo(a, k - 1) + a[k]
  BY SumSteps
<1>3. /\ SumFunction(b) = SumTo(b, n)
      /\ SumTo(b, 0) = 0
      /\ \A k \in 1 .. n : SumTo(b, k) = SumTo(b, k - 1) + b[k]
  BY <1>1, SumSteps, ZenonT(60)
<1>4. 0 \in T
  BY <1>2, <1>3
<1>5. ASSUME NEW k \in Nat, k \in T PROVE k + 1 \in T
  <2> SUFFICES ASSUME k + 1 <= n PROVE SumTo(b, k + 1) = c * (k + 1) + SumTo(a, k + 1)
    OBVIOUS
  <2>1. k + 1 \in 1 .. n /\ (k + 1) - 1 = k /\ k \in 0 .. n
    OBVIOUS
  <2>2. SumTo(b, k) = c * k + SumTo(a, k)
    BY <1>5, <2>1
  <2>3. /\ SumTo(a, k + 1) = SumTo(a, k) + a[k + 1]
        /\ SumTo(b, k + 1) = SumTo(b, k) + (c + a[k + 1])
    BY <1>1, <1>2, <1>3, <2>1
  <2>4. SumTo(a, k) \in Nat /\ a[k + 1] \in Nat
    BY <1>2, <2>1
  <2>5. c * (k + 1) = c * k + c /\ c * k \in Nat
    OBVIOUS
  <2> QED
    BY <2>2, <2>3, <2>4, <2>5
<1>6. n \in T
  <2> HIDE DEF T
  <2> QED
    BY <1>4, <1>5, SetInduction
<1>7. SumTo(a, n) \in Nat
  BY <1>2
<1> QED
  BY <1>2, <1>3, <1>6, <1>7 DEF b

--------------------------------
(* Numbers and tags as bytes *)

(* The word of a number below 2^30 has at most 32 bits. *)
LEMMA BitsType ==
    ASSUME NEW n
    PROVE  Bits(n) \in Word(30) /\ Bits(n) \in Word(32)
BY DEF Bits, Word

(* A group of seven bits, with the bit that says more follow or without it,
   is a byte. *)
LEMMA GroupType ==
    ASSUME NEW v, NEW k
    PROVE  More(v, k) \in Byte /\ Final(v, k) \in Byte
BY DEF More, Final, Byte, Word

(* A number of 32 bits is packed into as many bytes as are counted for it. *)
LEMMA Uint32Bytes ==
    ASSUME NEW v \in Word(32)
    PROVE  /\ uint32_pack(v) \in Seq(Byte)
           /\ Len(uint32_pack(v)) = uint32_size(v) /\ uint32_size(v) \in 1 .. 5
<1>1. \A k : More(v, k) \in Byte /\ Final(v, k) \in Byte
  BY GroupType
<1>2. uint32_pack(v) \in Seq(Byte)
  BY <1>1 DEF uint32_pack
<1>3. uint32_size(v) \in 1 .. 5
  BY DEF uint32_size
<1> QED
  BY <1>2, <1>3, Uint32SizeIsExact

(* So is a signed one, which takes ten bytes when it is negative. *)
LEMMA Int32Bytes ==
    ASSUME NEW v \in Word(32)
    PROVE  /\ int32_pack(v) \in Seq(Byte)
           /\ Len(int32_pack(v)) = int32_size(v)
<1>1. \A k : More(v, k) \in Byte /\ Final(v, k) \in Byte
  BY GroupType
<1>2. CASE 31 \in v
  <2>1. {i \in 0 .. 3 : i + 28 \in v} \cup (4 .. 7) \in Byte /\ 0 .. 7 \in Byte /\ {0} \in Byte
    BY DEF Byte, Word
  <2>2. int32_pack(v) = <<More(v, 0), More(v, 7), More(v, 14), More(v, 21),
             {i \in 0 .. 3 : i + 28 \in v} \cup (4 .. 7),
             0 .. 7, 0 .. 7, 0 .. 7, 0 .. 7, {0}>>
    BY <1>2 DEF int32_pack
  <2>3. int32_pack(v) \in Seq(Byte)
    BY <1>1, <2>1, <2>2
  <2>4. Len(int32_pack(v)) = 10
    BY <2>2
  <2> QED
    BY <1>2, <2>3, <2>4 DEF int32_size
<1>3. CASE 31 \notin v
  BY <1>3, Uint32Bytes DEF int32_pack, int32_size
<1> QED
  BY <1>2, <1>3

(* So is a number of 64 bits. *)
LEMMA Uint64Bytes ==
    ASSUME NEW v \in Word(64)
    PROVE  /\ uint64_pack(v) \in Seq(Byte)
           /\ Len(uint64_pack(v)) = uint64_size(v) /\ uint64_size(v) \in 1 .. 10
<1> DEFINE hi == Shr(v, 32, 32)
           low4 == <<More(v, 0), More(v, 7), More(v, 14), More(v, 21)>>
           groups(n) == [k \in 1 .. n |-> IF k < n THEN More(v, 21 + 7 * k)
                                          ELSE Final(v, 21 + 7 * k)]
           c == CHOOSE n \in 2 .. 6 :
                              /\ Below(hi, 7 * n - 4)
                              /\ \A m \in 2 .. n - 1 : ~Below(hi, 7 * m - 4)
<1>1. \A k : More(v, k) \in Byte /\ Final(v, k) \in Byte
  BY GroupType
<1>2. low4 \in Seq(Byte)
  BY <1>1
<1>3. \A n \in Nat : groups(n) \in Seq(Byte)
  BY <1>1
<1>4. uint32_size(v) \in 1 .. 5 /\ uint64_size(v) \in 1 .. 10
  BY DEF uint32_size, uint64_size
<1>5. CASE hi = {}
  <2>1. uint64_pack(v) = uint32_pack(v)
    BY <1>5 DEF uint64_pack
  <2>2. uint32_pack(v) \in Seq(Byte)
    BY <1>1 DEF uint32_pack
  <2> QED
    BY <1>4, <2>1, <2>2, Uint64SizeIsExact
<1>6. CASE hi # {}
  <2>1. \E n \in Nat : uint64_pack(v) = low4 \o groups(n)
    <3>1. CASE Below(hi, 3)
      BY <1>6, <3>1 DEF uint64_pack
    <3>2. CASE ~Below(hi, 3)
      <4>1. uint64_pack(v) = low4 \o groups(c)
        BY <1>6, <3>2 DEF uint64_pack
      <4>2. c \in Nat
        <5>1. \E n \in 2 .. 6 : /\ Below(hi, 7 * n - 4)
                              /\ \A m \in 2 .. n - 1 : ~Below(hi, 7 * m - 4)
          <6>1. \A i \in hi : i \in Nat /\ i < 32
            BY DEF Shr
          <6> HIDE DEF hi
          <6>2. Below(hi, 38)
            BY <6>1 DEF Below
          <6>3. 7 * 2 - 4 = 10 /\ 7 * 3 - 4 = 17 /\ 7 * 4 - 4 = 24 /\ 7 * 5 - 4 = 31 /\ 7 * 6 - 4 = 38
            OBVIOUS
          <6>4. CASE Below(hi, 10)
            BY <6>3, <6>4
          <6>5. CASE ~Below(hi, 10) /\ Below(hi, 17)
            BY <6>3, <6>5
          <6>6. CASE ~Below(hi, 10) /\ ~Below(hi, 17) /\ Below(hi, 24)
            BY <6>3, <6>6
          <6>7. CASE ~Below(hi, 10) /\ ~Below(hi, 17) /\ ~Below(hi, 24) /\ Below(hi, 31)
            BY <6>3, <6>7
          <6>8. CASE ~Below(hi, 10) /\ ~Below(hi, 17) /\ ~Below(hi, 24) /\ ~Below(hi, 31)
            BY <6>2, <6>3, <6>8
          <6> QED
            BY <6>4, <6>5, <6>6, <6>7, <6>8
        <5> QED
          BY <5>1
      <4> QED
        BY <4>1, <4>2
    <3> QED
      BY <3>1, <3>2
  <2>2. PICK n \in Nat : uint64_pack(v) = low4 \o groups(n)
    BY <2>1
  <2>3. uint64_pack(v) \in Seq(Byte)
    <3>1. groups(n) \in Seq(Byte)
      BY <1>3
    <3> HIDE DEF low4, groups
    <3> QED
      BY <1>2, <2>2, <3>1, ConcatProperties
  <2> QED
    BY <1>4, <2>3, Uint64SizeIsExact
<1> QED
  BY <1>5, <1>6

(* The zigzag form of a number has as many bits as the number. *)
LEMMA ZigzagType ==
    ASSUME NEW w \in Nat \ {0}, NEW v
    PROVE  zigzag(v, w) \in Word(w)
<1>1. 0 \in 0 .. w - 1
  OBVIOUS
<1> QED
  BY <1>1 DEF zigzag, Shl, Word

(* A fixed-size number of n bytes is packed into n. *)
LEMMA FixedBytes ==
    ASSUME NEW n \in Nat, NEW v
    PROVE  fixed_pack(v, n) \in Seq(Byte) /\ Len(fixed_pack(v, n)) = n
<1> DEFINE b(k) == {i \in 0 .. 7 : i + 8 * (k - 1) \in v}
<1>1. \A k : b(k) \in Byte
  BY DEF Byte, Word
<1>2. fixed_pack(v, n) = [k \in 1 .. n |-> b(k)]
  BY DEF fixed_pack
<1> HIDE DEF b
<1> QED
  BY <1>1, <1>2

(* The tag of a field takes as many bytes as get_tag_size counts: it compares
   the number itself, before the shift. *)
LEMMA TagBytes ==
    ASSUME NEW id \in Word(30), NEW wiretype \in Word(3)
    PROVE  /\ tag_pack(id, wiretype) \in Seq(Byte)
           /\ Len(tag_pack(id, wiretype)) = get_tag_size(id) /\ get_tag_size(id) \in Nat
<1> DEFINE out == IF Below(id, 29) THEN uint32_pack(Shl(id, 3, 32)) ELSE uint64_pack(Shl(id, 3, 64))
<1>0. \A i \in id : i \in 0 .. 29
  BY DEF Word
<1>1. out \in Seq(Byte) /\ Len(out) = get_tag_size(id) /\ get_tag_size(id) \in 1 .. 5
  <2>1. CASE Below(id, 29)
    <3> DEFINE t == Shl(id, 3, 32)
    <3>1. t \in Word(32)
      BY DEF Shl, Word
    <3>2. \A k \in 3 .. 31 : Below(t, k) <=> Below(id, k - 3)
      <4>1. \A i \in id : i + 3 \in t
        <5>1. \A i \in id : i \in Nat /\ i < 29
          BY <1>0, <2>1 DEF Below
        <5>2. \A i \in id : i + 3 \in 0 .. 32 - 1 /\ (i + 3) - 3 = i
          BY <5>1
        <5> QED
          BY <5>2 DEF Shl
      <4>2. \A i \in t : i \in Nat /\ i - 3 \in id
        BY DEF Shl
      <4> HIDE DEF t
      <4>3. ASSUME NEW k \in 3 .. 31, Below(t, k), NEW i \in id PROVE i < k - 3
        BY <1>0, <4>1, <4>3 DEF Below
      <4>4. ASSUME NEW k \in 3 .. 31, Below(id, k - 3), NEW i \in t PROVE i < k
        BY <1>0, <4>2, <4>4 DEF Below
      <4> QED
        BY <4>3, <4>4 DEF Below
    <3>3. /\ Below(t, 7) <=> Below(id, 4)
          /\ Below(t, 14) <=> Below(id, 11)
          /\ Below(t, 21) <=> Below(id, 18)
          /\ Below(t, 28) <=> Below(id, 25)
      <4>1. 7 - 3 = 4 /\ 14 - 3 = 11 /\ 21 - 3 = 18 /\ 28 - 3 = 25
        OBVIOUS
      <4> HIDE DEF t
      <4> QED
        BY <3>2, <4>1
    <3>4. uint32_size(t) = get_tag_size(id)
      BY <3>3 DEF uint32_size, get_tag_size
    <3>5. out = uint32_pack(t)
      BY <2>1
    <3> HIDE DEF t, out
    <3> QED
      BY <3>1, <3>4, <3>5, Uint32Bytes
  <2>2. CASE ~Below(id, 29)
    <3> DEFINE t == Shl(id, 3, 64)
    <3>1. t \in Word(64)
      BY DEF Shl, Word
    <3>2. 29 \in id
      BY <1>0, <2>2 DEF Below
    <3>3. 32 \in t
      BY <3>2 DEF Shl
    <3>4. \A i \in t : i <= 32
      BY <1>0 DEF Shl
    <3>5. 0 \in Shr(t, 32, 32)
      <4> HIDE DEF t
      <4> QED
        BY <3>3 DEF Shr
    <3>6. \A i \in Shr(t, 32, 32) : i < 3
      <4>1. \A i \in Shr(t, 32, 32) : i \in 0 .. 31 /\ i + 32 \in t
        BY DEF Shr
      <4> HIDE DEF t
      <4> QED
        BY <3>4, <4>1
    <3>7. uint64_size(t) = 5
      <4> HIDE DEF t
      <4> QED
        BY <3>5, <3>6 DEF uint64_size, Below
    <3>8. get_tag_size(id) = 5
      BY <3>2 DEF get_tag_size, Below
    <3>9. out = uint64_pack(t)
      BY <2>2
    <3> HIDE DEF t, out
    <3>10. uint64_pack(t) \in Seq(Byte) /\ Len(uint64_pack(t)) = 5
      BY <3>1, <3>7, Uint64Bytes
    <3> QED
      BY <3>8, <3>9, <3>10
  <2> QED
    BY <2>1, <2>2
<1>2. tag_pack(id, wiretype) = <<out[1] \cup wiretype>> \o Tail(out)
  BY DEF tag_pack
<1> HIDE DEF out
<1>3. out[1] \in Byte /\ Tail(out) \in Seq(Byte) /\ Len(Tail(out)) = Len(out) - 1
  BY <1>1
<1>4. out[1] \cup wiretype \in Byte
  <2>1. out[1] \subseteq 0 .. 7
    BY <1>3 DEF Byte, Word
  <2>2. wiretype \subseteq 0 .. 7
    BY DEF Word
  <2>3. Byte = SUBSET (0 .. 7)
    BY DEF Byte, Word
  <2>4. out[1] \cup wiretype \subseteq 0 .. 7
    BY ONLY <2>1, <2>2
  <2> QED
    BY ONLY <2>3, <2>4
<1>5. <<out[1] \cup wiretype>> \in Seq(Byte) /\ Len(<<out[1] \cup wiretype>>) = 1
  BY <1>4
<1> QED
  BY <1>1, <1>2, <1>3, <1>5, ConcatProperties

--------------------------------
(* Sizes and bytes of a message *)

IsSize(m, s) == s = [x \in Within(m) |-> message_size(s, x)]
IsPack(m, p) == p = [x \in Within(m) |-> message_pack(p, x)]

(* The size and the bytes of a message are values of functions over the
   messages within it, when there are such functions. *)
LEMMA SizeIs ==
    ASSUME NEW m
    PROVE  /\ protobuf_c_message_get_packed_size(m) = (CHOOSE s : IsSize(m, s))[m]
           /\ protobuf_c_message_pack(m) = (CHOOSE p : IsPack(m, p))[m]
BY DEF protobuf_c_message_get_packed_size, protobuf_c_message_pack, IsSize, IsPack

FieldsOf(x) == Schema[x.desc].fields
ValuesOf(x, i) == x.val[FieldsOf(x)[i].name]

(* What is known of the values of a field. *)
LEMMA FieldsFit ==
    ASSUME NEW x, Fits(x)
    PROVE  /\ x.desc \in DOMAIN Schema /\ x.unknown \in Seq(Unknown)
           /\ FieldsOf(x) \in Seq(Range(FieldsOf(x))) /\ Len(FieldsOf(x)) \in Nat
           /\ \A i \in 1 .. Len(FieldsOf(x)) :
                LET f == FieldsOf(x)[i]
                    v == ValuesOf(x, i)
                IN  /\ f \in Range(FieldsOf(x)) /\ FieldWellFormed(f)
                    /\ Len(v) \in Nat
                    /\ f.type = "MESSAGE" => v \in Seq(Children(x))
                    /\ f.type # "MESSAGE" => v \in Seq(Values(f.type))
                    /\ f.label = "required" => Len(v) = 1
                    /\ f.label = "optional" => Len(v) <= 1
<1> DEFINE fs == FieldsOf(x)
<1>1. x.desc \in DOMAIN Schema /\ x.unknown \in Seq(Unknown)
  BY DEF Fits
<1>2. fs \in Seq(Range(fs)) /\ \A i \in 1 .. Len(fs) : FieldWellFormed(fs[i])
  BY <1>1, SchemaAssumption DEF FieldsOf
<1>3. Len(fs) \in Nat /\ \A i \in 1 .. Len(fs) : fs[i] \in Range(fs)
  BY <1>2
<1>4. ASSUME NEW i \in 1 .. Len(fs)
      PROVE  LET f == fs[i]
                 v == ValuesOf(x, i)
             IN  /\ Len(v) \in Nat
                 /\ f.type = "MESSAGE" => v \in Seq(Children(x))
                 /\ f.type # "MESSAGE" => v \in Seq(Values(f.type))
                 /\ f.label = "required" => Len(v) = 1
                 /\ f.label = "optional" => Len(v) <= 1
  <2> DEFINE f == fs[i]
             v == x.val[f.name]
             C == {c \in Children(x) : c.desc = f.sub}
  <2>1. v = ValuesOf(x, i)
    BY DEF ValuesOf
  <2>2. f \in Range(Schema[x.desc].fields)
    BY <1>3 DEF FieldsOf
  <2>3. /\ v \in Seq(IF f.type = "MESSAGE" THEN C ELSE Values(f.type))
        /\ f.label = "required" => Len(v) = 1
        /\ f.label = "optional" => Len(v) <= 1
    <3> HIDE DEF f, fs
    <3> QED
      BY <2>2 DEF Fits
  <2>4. C \subseteq Children(x)
    OBVIOUS
  <2> HIDE DEF f, v, C, fs
  <2>5. f.type = "MESSAGE" => v \in Seq(C)
    BY <2>3
  <2>6. f.type = "MESSAGE" => v \in Seq(Children(x))
    BY <2>4, <2>5
  <2>7. f.type # "MESSAGE" => v \in Seq(Values(f.type))
    BY <2>3
  <2>8. Len(v) \in Nat
    BY <2>3, SMTT(60)
  <2> QED
    BY <2>1, <2>3, <2>6, <2>7, <2>8 DEF f
<1> QED
  BY <1>1, <1>2, <1>3, <1>4

(* The size of a message depends on the sizes of the messages in it only. *)
LEMMA SizeLocal ==
    ASSUME NEW x, Fits(x), NEW s, NEW t, \A c \in Children(x) : s[c] = t[c]
    PROVE  message_size(s, x) = message_size(t, x)
<1> DEFINE fs == FieldsOf(x)
<1>1. ASSUME NEW i \in 1 .. Len(fs)
      PROVE  field_get_packed_size(s, fs[i], ValuesOf(x, i)) = field_get_packed_size(t, fs[i], ValuesOf(x, i))
  <2> DEFINE f == fs[i]
             v == ValuesOf(x, i)
  <2>1. /\ Len(v) \in Nat
        /\ f.type = "MESSAGE" => v \in Seq(Children(x))
        /\ f.type # "MESSAGE" => v \in Seq(Values(f.type))
        /\ f.label = "required" => Len(v) = 1
        /\ f.label \in {"required", "optional", "repeated"}
    BY FieldsFit DEF FieldWellFormed
  <2> HIDE DEF f, v, fs
  <2>2. \A j \in 1 .. Len(v) : ValueSize(s, f, v[j]) = ValueSize(t, f, v[j])
    <3>1. CASE f.type = "MESSAGE"
      BY <2>1, <3>1 DEF ValueSize
    <3>2. CASE f.type # "MESSAGE"
      BY <3>2 DEF ValueSize
    <3> QED
      BY <3>1, <3>2
  <2>3. v # <<>> => 1 \in 1 .. Len(v)
    BY <2>1
  <2>4. f.label = "required" => required_field_get_packed_size(s, f, v[1]) = required_field_get_packed_size(t, f, v[1])
    <3>1. f.label = "required" => 1 \in 1 .. Len(v)
      BY <2>1, SMTT(60)
    <3> QED
      BY <2>2, <3>1 DEF required_field_get_packed_size
  <2>5. optional_field_get_packed_size(s, f, v) = optional_field_get_packed_size(t, f, v)
    BY <2>2, <2>3 DEF optional_field_get_packed_size, required_field_get_packed_size
  <2>6. repeated_field_get_packed_size(s, f, v) = repeated_field_get_packed_size(t, f, v)
    <3>1. [j \in 1 .. Len(v) |-> ValueSize(s, f, v[j])] = [j \in 1 .. Len(v) |-> ValueSize(t, f, v[j])]
      BY <2>2
    <3> QED
      BY <3>1 DEF repeated_field_get_packed_size
  <2>7. field_get_packed_size(s, f, v) = field_get_packed_size(t, f, v)
    <3>1. CASE f.label = "required"
      BY <2>4, <3>1 DEF field_get_packed_size
    <3>2. CASE f.label = "optional"
      BY <2>5, <3>2 DEF field_get_packed_size
    <3>3. CASE f.label = "repeated"
      BY <2>6, <3>3 DEF field_get_packed_size
    <3> QED
      BY <2>1, <3>1, <3>2, <3>3
  <2> QED
    BY <2>7 DEF f, v
<1>2. [i \in 1 .. Len(fs) |-> field_get_packed_size(s, fs[i], x.val[fs[i].name])]
      = [i \in 1 .. Len(fs) |-> field_get_packed_size(t, fs[i], x.val[fs[i].name])]
  BY <1>1 DEF ValuesOf
<1> QED
  BY <1>2 DEF message_size, FieldsOf

(* So do its bytes. *)
LEMMA PackLocal ==
    ASSUME NEW x, Fits(x), NEW s, NEW t, \A c \in Children(x) : s[c] = t[c]
    PROVE  message_pack(s, x) = message_pack(t, x)
<1> DEFINE fs == FieldsOf(x)
<1>1. ASSUME NEW i \in 1 .. Len(fs)
      PROVE  field_pack(s, fs[i], ValuesOf(x, i)) = field_pack(t, fs[i], ValuesOf(x, i))
  <2> DEFINE f == fs[i]
             v == ValuesOf(x, i)
  <2>1. /\ Len(v) \in Nat
        /\ f.type = "MESSAGE" => v \in Seq(Children(x))
        /\ f.type # "MESSAGE" => v \in Seq(Values(f.type))
        /\ f.label = "required" => Len(v) = 1
        /\ f.label \in {"required", "optional", "repeated"}
    BY FieldsFit DEF FieldWellFormed
  <2> HIDE DEF f, v, fs
  <2>2. \A j \in 1 .. Len(v) : ValuePack(s, f, v[j]) = ValuePack(t, f, v[j])
    <3>1. CASE f.type = "MESSAGE"
      BY <2>1, <3>1 DEF ValuePack
    <3>2. CASE f.type # "MESSAGE"
      BY <3>2 DEF ValuePack
    <3> QED
      BY <3>1, <3>2
  <2>3. v # <<>> => 1 \in 1 .. Len(v)
    BY <2>1
  <2>4. \A j \in 1 .. Len(v) : required_field_pack(s, f, v[j]) = required_field_pack(t, f, v[j])
    BY <2>2 DEF required_field_pack
  <2>5. optional_field_pack(s, f, v) = optional_field_pack(t, f, v)
    BY <2>3, <2>4 DEF optional_field_pack
  <2>6. repeated_field_pack(s, f, v) = repeated_field_pack(t, f, v)
    <3>1. [j \in 1 .. Len(v) |-> ValuePack(s, f, v[j])] = [j \in 1 .. Len(v) |-> ValuePack(t, f, v[j])]
      BY <2>2
    <3>2. [j \in 1 .. Len(v) |-> required_field_pack(s, f, v[j])]
          = [j \in 1 .. Len(v) |-> required_field_pack(t, f, v[j])]
      BY <2>4
    <3> QED
      BY <3>1, <3>2 DEF repeated_field_pack
  <2>7. f.label = "required" => required_field_pack(s, f, v[1]) = required_field_pack(t, f, v[1])
    <3>1. f.label = "required" => 1 \in 1 .. Len(v)
      BY <2>1, SMTT(60)
    <3> QED
      BY <2>4, <3>1
  <2>8. field_pack(s, f, v) = field_pack(t, f, v)
    <3>1. CASE f.label = "required"
      BY <2>7, <3>1 DEF field_pack
    <3>2. CASE f.label = "optional"
      BY <2>5, <3>2 DEF field_pack
    <3>3. CASE f.label = "repeated"
      BY <2>6, <3>3 DEF field_pack
    <3> QED
      BY <2>1, <3>1, <3>2, <3>3
  <2> QED
    BY <2>8 DEF f, v
<1>2. [i \in 1 .. Len(fs) |-> field_pack(s, fs[i], x.val[fs[i].name])]
      = [i \in 1 .. Len(fs) |-> field_pack(t, fs[i], x.val[fs[i].name])]
  BY <1>1 DEF ValuesOf
<1> QED
  BY <1>2, Zenon DEF message_pack, FieldsOf

(* A message that can be sent is finite, and each within it has the values
   its descriptor wants. *)
LEMMA MessageIsFinite ==
    ASSUME NEW m, IsMessage(m)
    PROVE  Finite(m) /\ \A x \in Within(m) : Fits(x)
BY DEF IsMessage, Finite

(* There is a function for the sizes: from the bottom level up. *)
LEMMA SizeExists ==
    ASSUME NEW m, IsMessage(m)
    PROVE  \E s : IsSize(m, s)
<1> DEFINE T == {k \in Nat : \E s : s = [x \in Bottom(m, k) |-> message_size(s, x)]}
<1>0. Finite(m) /\ \A x \in Within(m) : Fits(x)
  BY MessageIsFinite
<1>1. 0 \in T
  <2> DEFINE s == [x \in Bottom(m, 0) |-> 0]
  <2>1. s = [x \in Bottom(m, 0) |-> message_size(s, x)]
    BY <1>0, BottomIs
  <2> HIDE DEF s
  <2> QED
    BY <2>1
<1>2. ASSUME NEW k \in Nat, k \in T PROVE k + 1 \in T
  <2>1. PICK s : s = [x \in Bottom(m, k) |-> message_size(s, x)]
    BY <1>2
  <2> DEFINE t == [x \in Bottom(m, k + 1) |-> message_size(s, x)]
  <2>2. /\ Bottom(m, k + 1) \subseteq Within(m) /\ Bottom(m, k) \subseteq Bottom(m, k + 1)
        /\ \A x \in Bottom(m, k + 1) : Children(x) \subseteq Bottom(m, k)
    BY <1>0, BottomGrows
  <2>3. \A x \in Bottom(m, k) : t[x] = s[x]
    <3>1. \A x \in Bottom(m, k) : s[x] = message_size(s, x)
      BY <2>1
    <3> QED
      BY <2>2, <3>1
  <2>4. \A x \in Bottom(m, k + 1) : message_size(s, x) = message_size(t, x)
    <3> SUFFICES ASSUME NEW x \in Bottom(m, k + 1) PROVE message_size(s, x) = message_size(t, x)
      OBVIOUS
    <3>1. Fits(x) /\ \A c \in Children(x) : s[c] = t[c]
      BY <1>0, <2>2, <2>3
    <3> HIDE DEF t
    <3> QED
      BY <3>1, SizeLocal
  <2>5. t = [x \in Bottom(m, k + 1) |-> message_size(t, x)]
    BY <2>4
  <2> HIDE DEF t
  <2> QED
    BY <2>5
<1>3. Depth(m) \in T
  <2>1. Depth(m) \in Nat
    BY <1>0, DepthIsEmpty
  <2> HIDE DEF T
  <2> QED
    BY <1>1, <1>2, <2>1, SetInduction
<1> QED
  BY <1>0, <1>3, BottomIs DEF IsSize

(* The same for the bytes. *)
LEMMA PackExists ==
    ASSUME NEW m, IsMessage(m)
    PROVE  \E p : IsPack(m, p)
<1> DEFINE T == {k \in Nat : \E s : s = [x \in Bottom(m, k) |-> message_pack(s, x)]}
<1>0. Finite(m) /\ \A x \in Within(m) : Fits(x)
  BY MessageIsFinite
<1>1. 0 \in T
  <2> DEFINE s == [x \in Bottom(m, 0) |-> 0]
  <2>1. s = [x \in Bottom(m, 0) |-> message_pack(s, x)]
    BY <1>0, BottomIs
  <2> HIDE DEF s
  <2> QED
    BY <2>1
<1>2. ASSUME NEW k \in Nat, k \in T PROVE k + 1 \in T
  <2>1. PICK s : s = [x \in Bottom(m, k) |-> message_pack(s, x)]
    BY <1>2
  <2> DEFINE t == [x \in Bottom(m, k + 1) |-> message_pack(s, x)]
  <2>2. /\ Bottom(m, k + 1) \subseteq Within(m) /\ Bottom(m, k) \subseteq Bottom(m, k + 1)
        /\ \A x \in Bottom(m, k + 1) : Children(x) \subseteq Bottom(m, k)
    BY <1>0, BottomGrows
  <2>3. \A x \in Bottom(m, k) : t[x] = s[x]
    <3>1. \A x \in Bottom(m, k) : s[x] = message_pack(s, x)
      BY <2>1
    <3> QED
      BY <2>2, <3>1
  <2>4. \A x \in Bottom(m, k + 1) : message_pack(s, x) = message_pack(t, x)
    <3> SUFFICES ASSUME NEW x \in Bottom(m, k + 1) PROVE message_pack(s, x) = message_pack(t, x)
      OBVIOUS
    <3>1. Fits(x) /\ \A c \in Children(x) : s[c] = t[c]
      BY <1>0, <2>2, <2>3
    <3> HIDE DEF t
    <3> QED
      BY <3>1, PackLocal
  <2>5. t = [x \in Bottom(m, k + 1) |-> message_pack(t, x)]
    BY <2>4
  <2> HIDE DEF t
  <2> QED
    BY <2>5
<1>3. Depth(m) \in T
  <2>1. Depth(m) \in Nat
    BY <1>0, DepthIsEmpty
  <2> HIDE DEF T
  <2> QED
    BY <1>1, <1>2, <2>1, SetInduction
<1> QED
  BY <1>0, <1>3, BottomIs DEF IsPack

(* A buffer of n bytes, exactly filled. *)
Exactly(b, n) == b \in Seq(Byte) /\ Len(b) = n /\ n \in Nat

(* Two buffers that are filled, one after the other. *)
LEMMA JoinExact ==
    ASSUME NEW a, NEW b, NEW k, NEW n, Exactly(a, k), Exactly(b, n)
    PROVE  Exactly(a \o b, k + n)
<1>1. a \in Seq(Byte) /\ b \in Seq(Byte) /\ Len(a) = k /\ Len(b) = n /\ k \in Nat /\ n \in Nat
  BY DEF Exactly
<1>2. a \o b \in Seq(Byte) /\ Len(a \o b) = Len(a) + Len(b)
  BY <1>1, ConcatProperties
<1>3. k + n \in Nat
  BY <1>1
<1> QED
  BY <1>1, <1>2, <1>3 DEF Exactly

(* A number or a boolean fills what is counted for it. *)
LEMMA ScalarExact ==
    ASSUME NEW type \in Types32 \cup Types64 \cup {"BOOL"}, NEW v \in Values(type)
    PROVE  Exactly(ScalarPack(type, v), ScalarSize(type, v))
<1> USE DEF Types32, Types64, Fixed32, Fixed64
<1>1. CASE type \in Types32
  <2>0. Values(type) = Word(32)
    BY <1>1 DEF Values
  <2>1. CASE type = "SINT32"
    <3>1. zigzag(v, 32) \in Word(32)
      BY ZigzagType
    <3>2. Exactly(uint32_pack(zigzag(v, 32)), uint32_size(zigzag(v, 32)))
      BY <3>1, Uint32Bytes DEF Exactly
    <3> QED
      BY <2>1, <3>2 DEF ScalarPack, ScalarSize
  <2>2. CASE type = "INT32"
    <3>1. Exactly(int32_pack(v), int32_size(v))
      BY <2>0, Int32Bytes DEF Exactly
    <3> QED
      BY <2>2, <3>1 DEF ScalarPack, ScalarSize
  <2>3. CASE type \in {"UINT32", "ENUM"}
    <3>1. Exactly(uint32_pack(v), uint32_size(v))
      BY <2>0, Uint32Bytes DEF Exactly
    <3> QED
      BY <2>3, <3>1 DEF ScalarPack, ScalarSize
  <2>4. CASE type \in Fixed32
    <3>1. Exactly(fixed_pack(v, 4), 4)
      BY FixedBytes DEF Exactly
    <3> QED
      BY <2>4, <3>1 DEF ScalarPack, ScalarSize
  <2> QED
    BY <1>1, <2>1, <2>2, <2>3, <2>4
<1>2. CASE type \in Types64
  <2>0. Values(type) = Word(64)
    BY <1>2 DEF Values
  <2>1. CASE type = "SINT64"
    <3>1. zigzag(v, 64) \in Word(64)
      BY ZigzagType
    <3>2. Exactly(uint64_pack(zigzag(v, 64)), uint64_size(zigzag(v, 64)))
      BY <3>1, Uint64Bytes DEF Exactly
    <3> QED
      BY <2>1, <3>2 DEF ScalarPack, ScalarSize
  <2>2. CASE type \in {"INT64", "UINT64"}
    <3>1. Exactly(uint64_pack(v), uint64_size(v))
      BY <2>0, Uint64Bytes DEF Exactly
    <3> QED
      BY <2>2, <3>1 DEF ScalarPack, ScalarSize
  <2>3. CASE type \in Fixed64
    <3>1. Exactly(fixed_pack(v, 8), 8)
      BY FixedBytes DEF Exactly
    <3> QED
      BY <2>3, <3>1 DEF ScalarPack, ScalarSize
  <2> QED
    BY <1>2, <2>1, <2>2, <2>3
<1>3. CASE type = "BOOL"
  <2>1. boolean_pack(v) \in Seq(Byte) /\ Len(boolean_pack(v)) = 1
    BY DEF boolean_pack, Byte, Word
  <2> QED
    BY <1>3, <2>1 DEF ScalarPack, ScalarSize, Exactly
<1> QED
  BY <1>1, <1>2, <1>3

(* So does a run of bytes with its length before it. *)
LEMMA DataExact ==
    ASSUME NEW bd, NEW n, Exactly(bd, n)
    PROVE  Exactly(binary_data_pack(bd), PrefixedSize(n))
<1>1. Exactly(uint32_pack(Bits(n)), uint32_size(Bits(n)))
  BY BitsType, Uint32Bytes DEF Exactly
<1>2. Exactly(uint32_pack(Bits(n)) \o bd, uint32_size(Bits(n)) + n)
  BY <1>1, JoinExact
<1> QED
  BY <1>2 DEF binary_data_pack, PrefixedSize, Exactly

(* So does any number of parts. *)
LEMMA FlatExact ==
    ASSUME NEW n \in Nat, NEW B, NEW N, DOMAIN B = 1 .. n, DOMAIN N = 1 .. n,
           B = [i \in 1 .. n |-> B[i]], N = [i \in 1 .. n |-> N[i]],
           \A i \in 1 .. n : Exactly(B[i], N[i])
    PROVE  Exactly(FlattenSeq(B), SumFunction(N))
<1>1. B \in Seq(Seq(Byte)) /\ Len(B) = n
  BY DEF Exactly
<1>2. N = [i \in 1 .. Len(B) |-> Len(B[i])]
  BY <1>1 DEF Exactly
<1>3. SumFunction(N) \in Nat
  <2>1. \A i \in 1 .. n : N[i] \in Nat
    BY DEF Exactly
  <2>2. 0 \in Nat
    OBVIOUS
  <2> QED
    BY <2>1, <2>2, SumOfEach
<1> QED
  BY <1>1, <1>2, <1>3, FlatLength DEF Exactly

(* A value of a field: a message within, of which it is known, or one of
   the type. *)
ValueFits(p, s, f, v) ==
    IF f.type = "MESSAGE" THEN Exactly(p[v], s[v]) ELSE v \in Values(f.type)

(* What a string is up to its first NUL is bytes, as many as strlen says. *)
LEMMA CStringIs ==
    ASSUME NEW v \in Seq(Byte)
    PROVE  Exactly(CString(v), strlen(v))
<1> DEFINE I == {i \in 1 .. Len(v) : \A j \in 1 .. i : v[j] # {}}
<1>1. Len(v) \in Nat /\ I \subseteq 1 .. Len(v)
  OBVIOUS
<1> HIDE DEF I
<1>2. IsFiniteSet(1 .. Len(v)) /\ Cardinality(1 .. Len(v)) = Len(v)
  <2> DEFINE n == Len(v)
  <2>1. n \in Nat /\ 1 \in Int /\ n \in Int
    BY <1>1
  <2> HIDE DEF n
  <2>2. IsFiniteSet(1 .. n) /\ Cardinality(1 .. n) = IF 1 > n THEN 0 ELSE n - 1 + 1
    BY ONLY <2>1, FS_Interval, Zenon
  <2>3. Cardinality(1 .. n) = n
    BY ONLY <2>1, <2>2
  <2> QED
    BY <2>2, <2>3 DEF n
<1>3. Cardinality(I) \in Nat /\ Cardinality(I) <= Len(v)
  BY <1>1, <1>2, FS_Subset, FS_CardinalityType
<1>4. strlen(v) = Cardinality(I)
  BY DEF strlen, I
<1>5. strlen(v) \in Nat /\ strlen(v) <= Len(v)
  BY <1>3, <1>4
<1>6. CString(v) \in Seq(Byte) /\ Len(CString(v)) = strlen(v)
  BY <1>1, <1>5, SubSeqProperties DEF CString
<1> QED
  BY <1>5, <1>6 DEF Exactly

(* A value fills what is counted for it, with the tag of its field or
   without. *)
LEMMA ValueExact ==
    ASSUME NEW p, NEW s, NEW f, FieldWellFormed(f), NEW v, ValueFits(p, s, f, v)
    PROVE  /\ Exactly(ValuePack(p, f, v), ValueSize(s, f, v))
           /\ Exactly(required_field_pack(p, f, v), required_field_get_packed_size(s, f, v))
<1>1. Exactly(ValuePack(p, f, v), ValueSize(s, f, v))
  <2>1. CASE f.type \in {"STRING", "BYTES"}
    <3>1. v \in Seq(Byte)
      BY <2>1 DEF ValueFits, Values, Types32, Types64, Fixed32, Fixed64
    <3>2. Exactly(v, Len(v))
      BY <3>1 DEF Exactly
    <3>3. /\ Exactly(binary_data_pack(v), PrefixedSize(Len(v)))
          /\ Exactly(binary_data_pack(CString(v)), PrefixedSize(strlen(v)))
      BY <3>1, <3>2, CStringIs, DataExact
    <3> QED
      BY <2>1, <3>3 DEF ValuePack, ValueSize
  <2>2. CASE f.type = "MESSAGE"
    <3>1. Exactly(binary_data_pack(p[v]), PrefixedSize(s[v]))
      BY <2>2, DataExact DEF ValueFits
    <3> QED
      BY <2>2, <3>1 DEF ValuePack, ValueSize
  <2>3. CASE f.type \notin {"STRING", "BYTES", "MESSAGE"}
    <3>1. f.type \in Types32 \cup Types64 \cup {"BOOL"} /\ v \in Values(f.type)
      BY <2>3 DEF FieldWellFormed, ValueFits, LengthPrefixed
    <3>2. Exactly(ScalarPack(f.type, v), ScalarSize(f.type, v))
      BY <3>1, ScalarExact
    <3> QED
      BY <2>3, <3>2 DEF ValuePack, ValueSize
  <2> QED
    BY <2>1, <2>2, <2>3
<1>2. WireType(f.type) \in Word(3)
  BY DEF WireType, Word, WIRE_TYPE_VARINT, WIRE_TYPE_64BIT, WIRE_TYPE_LENGTH_PREFIXED, WIRE_TYPE_32BIT
<1>3. Exactly(tag_pack(Bits(f.id), WireType(f.type)), get_tag_size(Bits(f.id)))
  BY <1>2, BitsType, TagBytes DEF Exactly
<1> QED
  BY <1>1, <1>3, JoinExact DEF required_field_pack, required_field_get_packed_size

(* All values of a field fill what is counted for the field, sent one by
   one or as one run. *)
LEMMA FieldExact ==
    ASSUME NEW p, NEW s, NEW f, FieldWellFormed(f), NEW v, Len(v) \in Nat,
           v \in Seq(Range(v)), f.label = "required" => Len(v) = 1,
           \A j \in 1 .. Len(v) : ValueFits(p, s, f, v[j])
    PROVE  Exactly(field_pack(p, f, v), field_get_packed_size(s, f, v))
<1> DEFINE n == Len(v)
           B == [j \in 1 .. n |-> ValuePack(p, f, v[j])]
           N == [j \in 1 .. n |-> ValueSize(s, f, v[j])]
           c == get_tag_size(Bits(f.id))
           BR == [j \in 1 .. n |-> required_field_pack(p, f, v[j])]
           NR == [j \in 1 .. n |-> required_field_get_packed_size(s, f, v[j])]
<1>1. \A j \in 1 .. n : /\ Exactly(ValuePack(p, f, v[j]), ValueSize(s, f, v[j]))
                        /\ Exactly(required_field_pack(p, f, v[j]), required_field_get_packed_size(s, f, v[j]))
  BY ValueExact
<1>2. f.label \in {"required", "optional", "repeated"}
  BY DEF FieldWellFormed
<1>3. v = <<>> <=> n = 0
  BY EmptySeq
<1>4. Exactly(<<>>, 0)
  BY DEF Exactly
<1>5. CASE f.label = "required"
  <2>1. 1 \in 1 .. n
    <3>1. n = 1
      BY <1>5
    <3> HIDE DEF n
    <3> QED
      BY <3>1
  <2>2. Exactly(required_field_pack(p, f, v[1]), required_field_get_packed_size(s, f, v[1]))
    BY <1>1, <2>1
  <2> QED
    BY <1>5, <2>2 DEF field_pack, field_get_packed_size
<1>6. CASE f.label = "optional"
  <2>1. v # <<>> => 1 \in 1 .. n
    BY <1>3
  <2>2. v # <<>> => Exactly(required_field_pack(p, f, v[1]), required_field_get_packed_size(s, f, v[1]))
    BY <1>1, <2>1
  <2>3. Exactly(optional_field_pack(p, f, v), optional_field_get_packed_size(s, f, v))
    <3>1. CASE v = <<>>
      BY <1>4, <3>1 DEF optional_field_pack, optional_field_get_packed_size
    <3>2. CASE v # <<>>
      BY <2>2, <3>2 DEF optional_field_pack, optional_field_get_packed_size
    <3> QED
      BY <3>1, <3>2
  <2> QED
    BY <1>6, <2>3 DEF field_pack, field_get_packed_size
<1>7. CASE f.label = "repeated"
  <2>1. Exactly(FlattenSeq(B), SumFunction(N))
    <3>1. \A j \in 1 .. n : Exactly(B[j], N[j])
      BY <1>1
    <3>2. DOMAIN B = 1 .. n /\ DOMAIN N = 1 .. n /\ B = [i \in 1 .. n |-> B[i]] /\ N = [i \in 1 .. n |-> N[i]]
      OBVIOUS
    <3> HIDE DEF B, N
    <3> QED
      BY <3>1, <3>2, FlatExact
  <2>2. Exactly(FlattenSeq(BR), SumFunction(NR))
    <3>1. \A j \in 1 .. n : Exactly(BR[j], NR[j])
      BY <1>1
    <3>2. DOMAIN BR = 1 .. n /\ DOMAIN NR = 1 .. n /\ BR = [i \in 1 .. n |-> BR[i]] /\ NR = [i \in 1 .. n |-> NR[i]]
      OBVIOUS
    <3> HIDE DEF BR, NR
    <3> QED
      BY <3>1, <3>2, FlatExact
  <2>3. SumFunction(NR) = c * n + SumFunction(N)
    <3>1. NR = [j \in 1 .. n |-> c + N[j]]
      BY DEF required_field_get_packed_size
    <3>2. c \in Nat
      <4>1. {} \in Word(3)
        BY DEF Word
      <4> QED
        BY <4>1, BitsType, TagBytes
    <3>3. DOMAIN N = 1 .. n /\ \A j \in 1 .. n : N[j] \in Nat
      BY <1>1 DEF Exactly
    <3> HIDE DEF NR, N, c
    <3> QED
      BY <3>1, <3>2, <3>3, SumOfEach
  <2>4. Exactly(tag_pack(Bits(f.id), WIRE_TYPE_LENGTH_PREFIXED) \o binary_data_pack(FlattenSeq(B)),
                c + PrefixedSize(SumFunction(N)))
    <3>1. WIRE_TYPE_LENGTH_PREFIXED \in Word(3)
      BY DEF WIRE_TYPE_LENGTH_PREFIXED, Word
    <3>2. Exactly(tag_pack(Bits(f.id), WIRE_TYPE_LENGTH_PREFIXED), c)
      BY <3>1, BitsType, TagBytes DEF Exactly
    <3>3. Exactly(binary_data_pack(FlattenSeq(B)), PrefixedSize(SumFunction(N)))
      BY <2>1, DataExact
    <3> HIDE DEF B, N, c
    <3> QED
      BY <3>2, <3>3, JoinExact
  <2>5. Exactly(repeated_field_pack(p, f, v), repeated_field_get_packed_size(s, f, v))
    <3>1. CASE v = <<>>
      BY <1>4, <3>1 DEF repeated_field_pack, repeated_field_get_packed_size
    <3>2. CASE v # <<>> /\ f.packed
      BY <2>4, <3>2 DEF repeated_field_pack, repeated_field_get_packed_size
    <3>3. CASE v # <<>> /\ ~f.packed
      BY <2>2, <2>3, <3>3 DEF repeated_field_pack, repeated_field_get_packed_size
    <3> QED
      BY <3>1, <3>2, <3>3
  <2> QED
    BY <1>7, <2>5 DEF field_pack, field_get_packed_size
<1> QED
  BY <1>2, <1>5, <1>6, <1>7

(* A message fills what is counted for it when those in it do. *)
LEMMA MessageExact ==
    ASSUME NEW x, Fits(x), NEW p, NEW s, \A c \in Children(x) : Exactly(p[c], s[c])
    PROVE  Exactly(message_pack(p, x), message_size(s, x))
<1> DEFINE fs == FieldsOf(x)
           B == [i \in 1 .. Len(fs) |-> field_pack(p, fs[i], x.val[fs[i].name])]
           N == [i \in 1 .. Len(fs) |-> field_get_packed_size(s, fs[i], x.val[fs[i].name])]
           us == x.unknown
           UB == [i \in 1 .. Len(us) |-> unknown_field_pack(us[i])]
           UN == [i \in 1 .. Len(us) |-> unknown_field_get_packed_size(us[i])]
<1>0. Len(fs) \in Nat /\ us \in Seq(Unknown)
  BY FieldsFit
<1>1. ASSUME NEW i \in 1 .. Len(fs) PROVE Exactly(B[i], N[i])
  <2> DEFINE f == fs[i]
             v == ValuesOf(x, i)
  <2>1. /\ FieldWellFormed(f) /\ Len(v) \in Nat
        /\ f.type = "MESSAGE" => v \in Seq(Children(x))
        /\ f.type # "MESSAGE" => v \in Seq(Values(f.type))
        /\ f.label = "required" => Len(v) = 1
    BY FieldsFit
  <2>2. B[i] = field_pack(p, f, v) /\ N[i] = field_get_packed_size(s, f, v)
    BY DEF ValuesOf
  <2> HIDE DEF f, v, fs
  <2>3. \A j \in 1 .. Len(v) : ValueFits(p, s, f, v[j])
    <3>1. CASE f.type = "MESSAGE"
      BY <2>1, <3>1 DEF ValueFits
    <3>2. CASE f.type # "MESSAGE"
      BY <2>1, <3>2 DEF ValueFits
    <3> QED
      BY <3>1, <3>2
  <2>4. v \in Seq(Range(v))
    <3>1. \E V : v \in Seq(V)
      BY <2>1
    <3>2. PICK V : v \in Seq(V)
      BY <3>1
    <3> QED
      BY <3>2 DEF Range
  <2>5. Exactly(field_pack(p, f, v), field_get_packed_size(s, f, v))
    BY <2>1, <2>3, <2>4, FieldExact
  <2> QED
    BY <2>2, <2>5
<1>2. Exactly(FlattenSeq(B), SumFunction(N))
  <2>1. DOMAIN B = 1 .. Len(fs) /\ DOMAIN N = 1 .. Len(fs)
        /\ B = [i \in 1 .. Len(fs) |-> B[i]] /\ N = [i \in 1 .. Len(fs) |-> N[i]]
    OBVIOUS
  <2> HIDE DEF B, N, fs
  <2> QED
    BY <1>0, <1>1, <2>1, FlatExact
<1>3. ASSUME NEW i \in 1 .. Len(us) PROVE Exactly(UB[i], UN[i])
  <2>1. us[i] \in Unknown
    BY <1>0
  <2>2. Exactly(us[i].data, Len(us[i].data)) /\ us[i].wiretype \in Word(3)
    BY <2>1 DEF Unknown, Exactly
  <2>3. Exactly(tag_pack(Bits(us[i].tag), us[i].wiretype), get_tag_size(Bits(us[i].tag)))
    BY <2>2, BitsType, TagBytes DEF Exactly
  <2>4. Exactly(unknown_field_pack(us[i]), unknown_field_get_packed_size(us[i]))
    BY <2>2, <2>3, JoinExact DEF unknown_field_pack, unknown_field_get_packed_size
  <2> QED
    BY <2>4
<1>4. Exactly(FlattenSeq(UB), SumFunction(UN))
  <2>1. DOMAIN UB = 1 .. Len(us) /\ DOMAIN UN = 1 .. Len(us)
        /\ UB = [i \in 1 .. Len(us) |-> UB[i]] /\ UN = [i \in 1 .. Len(us) |-> UN[i]]
        /\ Len(us) \in Nat
    BY <1>0
  <2> HIDE DEF UB, UN, us
  <2> QED
    BY <1>0, <1>3, <2>1, FlatExact
<1>5. /\ message_pack(p, x) = FlattenSeq(B) \o FlattenSeq(UB)
      /\ message_size(s, x) = SumFunction(N) + SumFunction(UN)
  BY DEF message_pack, message_size, FieldsOf
<1> HIDE DEF B, N, UB, UN
<1> QED
  BY <1>2, <1>4, <1>5, JoinExact

(* A message is packed into as many bytes as are counted for it, whatever its
   descriptor, its values and the depth of the messages in it
   (protobuf_c_message_get_packed_size and protobuf_c_message_pack). *)
THEOREM PackedSizeIsExact ==
    ASSUME NEW m, IsMessage(m)
    PROVE  /\ protobuf_c_message_pack(m) \in Seq(Byte)
           /\ Len(protobuf_c_message_pack(m)) = protobuf_c_message_get_packed_size(m)
<1> DEFINE s == CHOOSE s : IsSize(m, s)
           p == CHOOSE p : IsPack(m, p)
           P == {x \in Within(m) : Exactly(p[x], s[x])}
<1>1. IsSize(m, s) /\ IsPack(m, p)
  BY SizeExists, PackExists
<1>2. protobuf_c_message_get_packed_size(m) = s[m] /\ protobuf_c_message_pack(m) = p[m]
  BY SizeIs
<1> HIDE DEF s, p
<1>3. \A x \in Within(m) : s[x] = message_size(s, x) /\ p[x] = message_pack(p, x)
  BY <1>1 DEF IsSize, IsPack
<1>4. Finite(m) /\ \A x \in Within(m) : Fits(x)
  BY MessageIsFinite
<1>5. ASSUME NEW x \in Within(m), Children(x) \subseteq P PROVE x \in P
  <2>1. Exactly(message_pack(p, x), message_size(s, x))
    BY <1>4, <1>5, MessageExact
  <2> QED
    BY <1>3, <2>1
<1>6. Within(m) \subseteq P
  <2> HIDE DEF P
  <2> QED
    BY <1>4, <1>5, TreeInduction
<1>7. m \in P
  BY <1>4, <1>6, WithinIs
<1> QED
  BY <1>2, <1>7 DEF Exactly

--------------------------------
(* There is a first part, of the messages that can be sent. *)
SentInv == \E m \in Sent : sent = <<m>> \/ \E l : sent = <<m, l>>

(* A second part after the first. *)
LEMMA AppendTwo == \A m, l : Append(<<m>>, l) = <<m, l>> /\ Len(Append(<<m>>, l)) = 2
<1> SUFFICES ASSUME NEW m, NEW l PROVE Append(<<m>>, l) = <<m, l>> /\ Len(Append(<<m>>, l)) = 2
  OBVIOUS
<1>1. <<m>> \in Seq({m, l}) /\ <<m, l>> \in Seq({m, l}) /\ Append(<<m>>, l) \in Seq({m, l})
  OBVIOUS
<1>2. Len(Append(<<m>>, l)) = 2 /\ Append(<<m>>, l)[1] = m /\ Append(<<m>>, l)[2] = l
  BY <1>1
<1>3. Len(<<m, l>>) = 2 /\ <<m, l>>[1] = m /\ <<m, l>>[2] = l
  OBVIOUS
<1> DEFINE a == Append(<<m>>, l)
           b == <<m, l>>
<1>4. a \in Seq({m, l}) /\ b \in Seq({m, l}) /\ Len(a) = 2 /\ Len(b) = 2 /\ a[1] = b[1] /\ a[2] = b[2]
  BY <1>1, <1>2, <1>3
<1> HIDE DEF a, b
<1>5. a = b
  BY <1>4, SeqEqual
<1> QED
  BY <1>4, <1>5 DEF a, b

(* No step takes the first part away or changes it. *)
LEMMA SentStep == SentInv /\ [Next]_vars => SentInv'
<1> SUFFICES ASSUME SentInv, [Next]_vars PROVE SentInv'
  OBVIOUS
<1>1. CASE sent' = sent
  BY <1>1 DEF SentInv
<1>2. CASE Again
  <2>1. Len(sent) = 1 /\ \E l : sent' = Append(sent, l)
    BY <1>2 DEF Again, Untouched
  <2>2. PICK m, l : m \in Sent /\ sent = <<m>> /\ sent' = Append(<<m>>, l)
    <3>1. PICK m \in Sent : sent = <<m>> \/ \E l : sent = <<m, l>>
      BY DEF SentInv
    <3>2. sent = <<m>>
      BY <2>1, <3>1
    <3> QED
      BY <2>1, <3>2
  <2>3. sent' = <<m, l>>
    BY <2>2, AppendTwo
  <2> QED
    BY <2>2, <2>3 DEF SentInv
<1> QED
  BY <1>1, <1>2 DEF Next, Pack, Newer, Cut, Unpack, Free, vars

(* Until another sender touches the bytes they are those of the first part,
   and the size is its. *)
PackedInv ==
    phase = "packed" /\ Untouched =>
        /\ wire = protobuf_c_message_pack(sent[1])
        /\ size = protobuf_c_message_get_packed_size(sent[1])

(* The second goes from step to step as well: each one that touches the
   bytes is seen in the parts, the added fields or the end. *)
LEMMA PackedStep == SentInv /\ PackedInv /\ [Next]_vars => PackedInv'
<1> SUFFICES ASSUME SentInv, PackedInv, [Next]_vars PROVE PackedInv'
  OBVIOUS
<1>1. CASE Pack
  BY <1>1 DEF Pack, PackedInv
<1>2. CASE Again
  <2>1. PICK m, l : m \in Sent /\ sent = <<m>> /\ sent' = Append(<<m>>, l)
    <3>1. Len(sent) = 1 /\ \E l : sent' = Append(sent, l)
      BY <1>2 DEF Again, Untouched
    <3>2. PICK m \in Sent : sent = <<m>> \/ \E l : sent = <<m, l>>
      BY DEF SentInv
    <3>3. sent = <<m>>
      BY <3>1, <3>2
    <3> QED
      BY <3>1, <3>3
  <2>2. Len(sent') = 2
    BY <2>1, AppendTwo
  <2>3. ~Untouched'
    BY <2>2 DEF Untouched
  <2> QED
    BY <2>3 DEF PackedInv
<1>3. CASE Newer
  <2>1. PICK u : extra' = <<u>>
    BY <1>3 DEF Newer
  <2>2. extra' # <<>>
    BY <2>1
  <2> QED
    BY <2>2 DEF PackedInv, Untouched
<1>4. CASE Cut
  BY <1>4 DEF Cut, PackedInv, Untouched
<1>5. CASE Unpack
  BY <1>5 DEF Unpack, PackedInv
<1>6. CASE Free
  BY <1>6 DEF Free, PackedInv
<1>7. CASE UNCHANGED vars
  BY <1>7 DEF vars, PackedInv, Untouched
<1> QED
  BY <1>1, <1>2, <1>3, <1>4, <1>5, <1>6, <1>7 DEF Next

(* Both hold before anything is packed. *)
LEMMA InitPacked == Init => SentInv /\ PackedInv
BY DEF Init, SentInv, PackedInv

(* So the size is that of the bytes. *)
LEMMA PackedFits == SentInv /\ PackedInv => SizeIsExact
<1> SUFFICES ASSUME SentInv, PackedInv, phase = "packed", Untouched PROVE Len(wire) = size
  BY DEF SizeIsExact
<1>1. PICK m \in Sent : sent = <<m>> \/ \E l : sent = <<m, l>>
  BY DEF SentInv
<1>2. sent[1] = m
  BY <1>1
<1>3. IsMessage(m)
  BY SentAssumption
<1> QED
  BY <1>2, <1>3, PackedSizeIsExact DEF PackedInv

(* The buffer allocated for a message is exactly as large as what pack
   writes into it, for any descriptors and any message that can be sent
   (riack_commands.c:242). *)
THEOREM SizeOfTheBuffer == Spec => []SizeIsExact
BY InitPacked, SentStep, PackedStep, PackedFits, PTL DEF Spec

--------------------------------
(* The search for a field *)

(* The runs of numbers the search is in, counted from 0: first number,
   index of its field, how many fields, place of the field of v when v is
   in run i, and whether it is. *)
First(R, i) == R[i + 1][1]
Index(R, i) == R[i + 1][2]
Count(R, i) == Index(R, i + 1) - Index(R, i)
Place(R, v, i) == v - First(R, i) + Index(R, i) + 1
HasIt(R, v, i) == First(R, i) <= v /\ v < First(R, i) + Count(R, i)

(* A step of the search. *)
SearchStep(R, v, f, n, start) ==
    LET mid == start + n \div 2
    IN  IF n > 1
        THEN IF v < First(R, mid) THEN f[mid - start][start]
             ELSE IF v >= First(R, mid) + Count(R, mid) THEN f[start + n - (mid + 1)][mid + 1]
             ELSE Place(R, v, mid)
        ELSE IF n = 1 /\ First(R, start) <= v /\ v < First(R, start) + Count(R, start)
             THEN Place(R, v, start)
        ELSE 0

IsSearch(R, v, f) == f = [n \in Nat |-> [start \in Nat |-> SearchStep(R, v, f, n, start)]]

(* The search is a value of a function that makes its steps, when there is
   one. *)
LEMMA SearchIs ==
    ASSUME NEW R, NEW v
    PROVE  Search(R, v) = (CHOOSE f : IsSearch(R, v, f))[Len(R) - 1][0]
BY DEF Search, IsSearch, SearchStep, First, Index, Count, Place

(* What is left of n runs on either side of the middle is less than n of
   them. *)
LEMMA Halves ==
    ASSUME NEW n \in Nat, n > 1, NEW start \in Nat
    PROVE  LET mid == start + n \div 2
           IN  /\ mid \in Nat /\ start < mid /\ mid < start + n
               /\ mid - start \in 0 .. n - 1
               /\ start + n - (mid + 1) \in 0 .. n - 1
<1>1. PICK h \in Nat : h = n \div 2 /\ 1 <= h /\ h < n
  <2>1. n \div 2 \in Nat /\ 1 <= n \div 2 /\ n \div 2 < n
    OBVIOUS
  <2> QED
    BY <2>1
<1> QED
  BY <1>1

(* A step depends on the searches of fewer runs only. *)
LEMMA SearchStepLocal ==
    ASSUME NEW R, NEW v, NEW f, NEW g, NEW n \in Nat, NEW start \in Nat,
           \A k \in 0 .. n - 1 : f[k] = g[k]
    PROVE  SearchStep(R, v, f, n, start) = SearchStep(R, v, g, n, start)
<1>1. CASE n > 1
  <2> DEFINE mid == start + n \div 2
             a == mid - start
             b == start + n - (mid + 1)
  <2>1. a \in 0 .. n - 1 /\ b \in 0 .. n - 1
    BY <1>1, Halves
  <2>2. f[a] = g[a] /\ f[b] = g[b]
    BY <2>1
  <2> QED
    BY <2>2, <1>1 DEF SearchStep
<1>2. CASE ~(n > 1)
  BY <1>2 DEF SearchStep
<1> QED
  BY <1>1, <1>2

UpToSearch(R, v, n, f) == f = [k \in 0 .. n |-> [start \in Nat |-> SearchStep(R, v, f, k, start)]]

(* So two functions that make the steps agree where they are both given. *)
LEMMA OneSearch ==
    ASSUME NEW R, NEW v, NEW n \in Nat, NEW m \in Nat, NEW f, NEW g,
           UpToSearch(R, v, n, f), UpToSearch(R, v, m, g)
    PROVE  \A k \in Nat : k <= n /\ k <= m => f[k] = g[k]
<1> DEFINE T == {k \in Nat : \A j \in 0 .. k : j <= n /\ j <= m => f[j] = g[j]}
<1>0. /\ \A k \in 0 .. n : f[k] = [start \in Nat |-> SearchStep(R, v, f, k, start)]
      /\ \A k \in 0 .. m : g[k] = [start \in Nat |-> SearchStep(R, v, g, k, start)]
  BY DEF UpToSearch
<1>1. ASSUME NEW k \in Nat, k <= n, k <= m, \A j \in 0 .. k - 1 : f[j] = g[j]
      PROVE  f[k] = g[k]
  <2>1. \A start \in Nat : SearchStep(R, v, f, k, start) = SearchStep(R, v, g, k, start)
    BY <1>1, SearchStepLocal
  <2>2. k \in 0 .. n /\ k \in 0 .. m
    BY <1>1
  <2> QED
    BY <1>0, <2>1, <2>2
<1>2. 0 \in T
  <2>1. 0 <= n /\ 0 <= m /\ \A j \in 0 .. 0 - 1 : f[j] = g[j]
    OBVIOUS
  <2>2. f[0] = g[0]
    BY <1>1, <2>1
  <2> QED
    BY <2>2
<1>3. ASSUME NEW k \in Nat, k \in T PROVE k + 1 \in T
  <2>1. k + 1 <= n /\ k + 1 <= m => f[k + 1] = g[k + 1]
    <3> SUFFICES ASSUME k + 1 <= n, k + 1 <= m PROVE f[k + 1] = g[k + 1]
      OBVIOUS
    <3>1. k + 1 \in Nat /\ \A j \in 0 .. (k + 1) - 1 : f[j] = g[j]
      BY <1>3
    <3> QED
      BY <1>1, <3>1
  <2>2. \A j \in 0 .. k + 1 : j \in 0 .. k \/ j = k + 1
    OBVIOUS
  <2>3. k + 1 \in Nat
    OBVIOUS
  <2> QED
    BY <1>3, <2>1, <2>2, <2>3
<1>4. Nat \subseteq T
  <2> HIDE DEF T
  <2> QED
    BY <1>2, <1>3, SetInduction
<1>5. \A k \in Nat : k \in 0 .. k
  OBVIOUS
<1> QED
  BY <1>4, <1>5

(* And there is one that makes them for any number of runs. *)
LEMMA SearchExists ==
    ASSUME NEW R, NEW v
    PROVE  \E f : IsSearch(R, v, f)
<1> DEFINE T == {n \in Nat : \E f : UpToSearch(R, v, n, f)}
           pick(n) == CHOOSE f : UpToSearch(R, v, n, f)
           g == [n \in Nat |-> pick(n)[n]]
<1>1. 0 \in T
  <2> DEFINE f == [k \in 0 .. 0 |-> [start \in Nat |-> SearchStep(R, v, <<>>, k, start)]]
  <2>1. \A k \in 0 .. 0 : \A start \in Nat :
            SearchStep(R, v, <<>>, k, start) = SearchStep(R, v, f, k, start)
    <3>1. \A k \in 0 .. 0 : ~(k > 1)
      OBVIOUS
    <3> HIDE DEF f
    <3> QED
      BY <3>1 DEF SearchStep
  <2>2. f = [k \in 0 .. 0 |-> [start \in Nat |-> SearchStep(R, v, f, k, start)]]
    BY <2>1
  <2> HIDE DEF f
  <2> QED
    BY <2>2 DEF UpToSearch
<1>2. ASSUME NEW n \in Nat, n \in T PROVE n + 1 \in T
  <2>1. PICK f : UpToSearch(R, v, n, f)
    BY <1>2
  <2> DEFINE h == [k \in 0 .. n + 1 |-> [start \in Nat |-> SearchStep(R, v, f, k, start)]]
  <2>2. \A k \in 0 .. n : h[k] = f[k]
    <3>1. \A k \in 0 .. n : f[k] = [start \in Nat |-> SearchStep(R, v, f, k, start)]
      BY <2>1 DEF UpToSearch
    <3>2. \A k \in 0 .. n : k \in 0 .. n + 1
      OBVIOUS
    <3> QED
      BY <3>1, <3>2
  <2>3. \A k \in 0 .. n + 1 : \A start \in Nat :
            SearchStep(R, v, f, k, start) = SearchStep(R, v, h, k, start)
    <3> SUFFICES ASSUME NEW k \in 0 .. n + 1, NEW start \in Nat
                 PROVE  SearchStep(R, v, f, k, start) = SearchStep(R, v, h, k, start)
      OBVIOUS
    <3>1. k \in Nat /\ \A j \in 0 .. k - 1 : f[j] = h[j]
      <4>1. k \in Nat /\ \A j \in 0 .. k - 1 : j \in 0 .. n
        OBVIOUS
      <4> HIDE DEF h
      <4> QED
        BY <2>2, <4>1
    <3> HIDE DEF h
    <3> QED
      BY <3>1, SearchStepLocal
  <2>4. h = [k \in 0 .. n + 1 |-> [start \in Nat |-> SearchStep(R, v, h, k, start)]]
    BY <2>3
  <2> HIDE DEF h
  <2> QED
    BY <2>4 DEF UpToSearch
<1>3. \A n \in Nat : UpToSearch(R, v, n, pick(n))
  <2>1. Nat \subseteq T
    <3> HIDE DEF T
    <3> QED
      BY <1>1, <1>2, SetInduction
  <2> QED
    BY <2>1
<1> HIDE DEF pick
<1>4. \A n \in Nat : \A k \in 0 .. n : pick(n)[k] = pick(k)[k]
  <2> SUFFICES ASSUME NEW n \in Nat, NEW k \in 0 .. n PROVE pick(n)[k] = pick(k)[k]
    OBVIOUS
  <2>1. k \in Nat /\ k <= n /\ k <= k
    OBVIOUS
  <2> QED
    BY <1>3, <2>1, OneSearch
<1>5. \A n \in Nat : g[n] = [start \in Nat |-> SearchStep(R, v, g, n, start)]
  <2> SUFFICES ASSUME NEW n \in Nat
               PROVE  pick(n)[n] = [start \in Nat |-> SearchStep(R, v, g, n, start)]
    OBVIOUS
  <2>1. pick(n)[n] = [start \in Nat |-> SearchStep(R, v, pick(n), n, start)]
    <3>1. n \in 0 .. n
      OBVIOUS
    <3> QED
      BY <1>3, <3>1 DEF UpToSearch
  <2>2. \A k \in 0 .. n - 1 : pick(n)[k] = g[k]
    BY <1>4
  <2> HIDE DEF g
  <2>3. \A start \in Nat : SearchStep(R, v, pick(n), n, start) = SearchStep(R, v, g, n, start)
    BY <2>2, SearchStepLocal
  <2> QED
    BY <2>1, <2>3
<1>6. g = [n \in Nat |-> [start \in Nat |-> SearchStep(R, v, g, n, start)]]
  <2>1. g = [n \in Nat |-> g[n]]
    OBVIOUS
  <2> HIDE DEF g
  <2> QED
    BY <1>5, <2>1
<1> HIDE DEF g
<1> QED
  BY <1>6 DEF IsSearch

(* The runs of a descriptor follow one another. *)
Runs(R, n) ==
    /\ n \in Nat /\ Index(R, 0) = 0 /\ Index(R, n) \in Nat
    /\ \A i \in 0 .. n - 1 : /\ First(R, i) \in Nat /\ Index(R, i) \in Nat
                             /\ Index(R, i) < Index(R, i + 1) /\ Index(R, i + 1) \in Nat
                             /\ i + 1 < n => First(R, i) + Count(R, i) <= First(R, i + 1)

(* Each run ends before any later one begins. *)
LEMMA RunsInOrder ==
    ASSUME NEW R, NEW n, Runs(R, n)
    PROVE  \A i, j \in 0 .. n - 1 : i < j => First(R, i) + Count(R, i) <= First(R, j)
<1> DEFINE T == {k \in Nat : \A i \in 0 .. n - 1 : i + k + 1 \in 0 .. n - 1 =>
                                First(R, i) + Count(R, i) <= First(R, i + k + 1)}
<1>1. /\ n \in Nat
      /\ \A i \in 0 .. n - 1 : /\ First(R, i) \in Nat /\ Count(R, i) \in Nat
                               /\ i + 1 < n => First(R, i) + Count(R, i) <= First(R, i + 1)
  BY DEF Runs, Count
<1>2. 0 \in T
  <2> SUFFICES ASSUME NEW i \in 0 .. n - 1, i + 0 + 1 \in 0 .. n - 1
               PROVE  First(R, i) + Count(R, i) <= First(R, i + 0 + 1)
    OBVIOUS
  <2>1. i + 0 + 1 = i + 1 /\ i + 1 < n
    BY <1>1
  <2> QED
    BY <1>1, <2>1
<1>3. ASSUME NEW k \in Nat, k \in T PROVE k + 1 \in T
  <2>1. ASSUME NEW i \in 0 .. n - 1, i + (k + 1) + 1 \in 0 .. n - 1
        PROVE  First(R, i) + Count(R, i) <= First(R, i + (k + 1) + 1)
    <3>1. PICK j \in 0 .. n - 1 : j = i + k + 1 /\ j + 1 = i + (k + 1) + 1 /\ j + 1 < n /\ j + 1 \in 0 .. n - 1
      <4>1. i + k + 1 \in 0 .. n - 1 /\ (i + k + 1) + 1 = i + (k + 1) + 1 /\ (i + k + 1) + 1 < n
        BY <1>1, <2>1
      <4> QED
        BY <4>1, <2>1
    <3>2. First(R, i) + Count(R, i) <= First(R, j)
      BY <1>3, <3>1
    <3>3. First(R, j) + Count(R, j) <= First(R, j + 1)
      BY <1>1, <3>1
    <3>4. /\ First(R, i) \in Nat /\ Count(R, i) \in Nat /\ First(R, j) \in Nat /\ Count(R, j) \in Nat
          /\ First(R, j + 1) \in Nat
      BY <1>1, <3>1
    <3>5. First(R, i) + Count(R, i) <= First(R, j + 1)
      BY <3>2, <3>3, <3>4
    <3> QED
      BY <3>1, <3>5
  <2>2. k + 1 \in Nat
    OBVIOUS
  <2> QED
    BY <2>1, <2>2
<1>4. Nat \subseteq T
  <2> HIDE DEF T
  <2> QED
    BY <1>2, <1>3, SetInduction
<1>5. ASSUME NEW i \in 0 .. n - 1, NEW j \in 0 .. n - 1, i < j
      PROVE  First(R, i) + Count(R, i) <= First(R, j)
  <2>1. j - i - 1 \in Nat /\ i + (j - i - 1) + 1 = j
    BY <1>1, <1>5
  <2> QED
    BY <1>4, <2>1
<1> QED
  BY <1>5

(* The search of n runs from start on finds the one that has the number,
   and no place when none of them has it. *)
LEMMA SearchFinds ==
    ASSUME NEW R, NEW N, Runs(R, N), NEW v \in Nat, NEW f, IsSearch(R, v, f)
    PROVE  \A n, start \in Nat : start + n <= N =>
               /\ \A i \in start .. start + n - 1 : HasIt(R, v, i) => f[n][start] = Place(R, v, i)
               /\ (\A i \in start .. start + n - 1 : ~HasIt(R, v, i)) => f[n][start] = 0
<1> DEFINE Good(n, start) ==
               /\ \A i \in start .. start + n - 1 : HasIt(R, v, i) => f[n][start] = Place(R, v, i)
               /\ (\A i \in start .. start + n - 1 : ~HasIt(R, v, i)) => f[n][start] = 0
           T == {n \in Nat : \A k \in 0 .. n : \A start \in Nat : start + k <= N => Good(k, start)}
<1>1. \A n, start \in Nat : f[n][start] = SearchStep(R, v, f, n, start)
  BY DEF IsSearch
<1>2. /\ N \in Nat /\ \A i, j \in 0 .. N - 1 : i < j => First(R, i) + Count(R, i) <= First(R, j)
      /\ \A i \in 0 .. N - 1 : First(R, i) \in Nat /\ Count(R, i) \in Nat
  BY RunsInOrder DEF Runs, Count
<1>3. ASSUME NEW n \in Nat, NEW start \in Nat, start + n <= N,
             \A k \in 0 .. n - 1 : \A s \in Nat : s + k <= N => Good(k, s)
      PROVE  Good(n, start)
  <2> DEFINE mid == start + n \div 2
             a == mid - start
             b == start + n - (mid + 1)
  <2>1. CASE n > 1
    <3>1. /\ mid \in Nat /\ start < mid /\ mid < start + n /\ mid \in 0 .. N - 1
          /\ a \in 0 .. n - 1 /\ b \in 0 .. n - 1
          /\ start + a = mid /\ (mid + 1) + b = start + n
      BY <1>2, <1>3, <2>1, Halves
    <3>2. f[n][start] = IF v < First(R, mid) THEN f[a][start]
                        ELSE IF v >= First(R, mid) + Count(R, mid) THEN f[b][mid + 1]
                        ELSE Place(R, v, mid)
      BY <1>1, <2>1 DEF SearchStep
    <3>3. First(R, mid) \in Nat /\ Count(R, mid) \in Nat
      BY <1>2, <3>1
    <3> HIDE DEF mid, a, b, Good
    <3>4. CASE v < First(R, mid)
      <4>1. Good(a, start)
        BY <1>2, <1>3, <3>1
      <4>2. \A i \in start .. start + n - 1 : HasIt(R, v, i) => i \in start .. start + a - 1
        <5> SUFFICES ASSUME NEW i \in start .. start + n - 1, HasIt(R, v, i), i >= mid PROVE FALSE
          BY <3>1
        <5>1. i \in 0 .. N - 1 /\ First(R, i) \in Nat /\ First(R, i) <= v
          BY <1>2, <1>3 DEF HasIt
        <5>2. i = mid \/ First(R, mid) + Count(R, mid) <= First(R, i)
          BY <1>2, <3>1, <5>1
        <5> QED
          BY <3>3, <3>4, <5>1, <5>2
      <4>3. \A i \in start .. start + a - 1 : i \in start .. start + n - 1
        BY <3>1, <1>3
      <4> QED
        BY <3>2, <3>4, <4>1, <4>2, <4>3 DEF Good
    <3>5. CASE v >= First(R, mid) + Count(R, mid)
      <4>1. Good(b, mid + 1)
        BY <1>2, <1>3, <3>1
      <4>2. \A i \in start .. start + n - 1 : HasIt(R, v, i) => i \in mid + 1 .. (mid + 1) + b - 1
        <5> SUFFICES ASSUME NEW i \in start .. start + n - 1, HasIt(R, v, i), i <= mid PROVE FALSE
          BY <3>1
        <5>1. i \in 0 .. N - 1 /\ First(R, i) \in Nat /\ Count(R, i) \in Nat /\ v < First(R, i) + Count(R, i)
          BY <1>2, <1>3 DEF HasIt
        <5>2. i = mid \/ First(R, i) + Count(R, i) <= First(R, mid)
          BY <1>2, <3>1, <5>1
        <5> QED
          BY <3>3, <3>5, <5>1, <5>2
      <4>3. \A i \in mid + 1 .. (mid + 1) + b - 1 : i \in start .. start + n - 1
        BY <3>1, <1>3
      <4>4. ~(v < First(R, mid))
        BY <3>3, <3>5
      <4> QED
        BY <3>2, <3>5, <4>1, <4>2, <4>3, <4>4 DEF Good
    <3>6. CASE ~(v < First(R, mid)) /\ ~(v >= First(R, mid) + Count(R, mid))
      <4>1. HasIt(R, v, mid) /\ mid \in start .. start + n - 1
        BY <3>1, <3>3, <3>6 DEF HasIt
      <4>2. \A i \in start .. start + n - 1 : HasIt(R, v, i) => i = mid
        <5> SUFFICES ASSUME NEW i \in start .. start + n - 1, HasIt(R, v, i), i # mid PROVE FALSE
          OBVIOUS
        <5>1. /\ i \in 0 .. N - 1 /\ First(R, i) \in Nat /\ Count(R, i) \in Nat
              /\ v < First(R, i) + Count(R, i) /\ First(R, i) <= v
          BY <1>2, <1>3 DEF HasIt
        <5>2. First(R, mid) + Count(R, mid) <= First(R, i) \/ First(R, i) + Count(R, i) <= First(R, mid)
          BY <1>2, <3>1, <5>1
        <5> QED
          BY <3>3, <3>6, <5>1, <5>2
      <4> QED
        BY <3>2, <3>6, <4>1, <4>2 DEF Good
    <3> QED
      BY <3>4, <3>5, <3>6
  <2>2. CASE n = 1
    <3>1. \A i \in start .. start + n - 1 : i = start
      BY <2>2
    <3>2. start \in start .. start + n - 1
      BY <2>2
    <3>3. f[n][start] = IF HasIt(R, v, start) THEN Place(R, v, start) ELSE 0
      BY <1>1, <2>2 DEF SearchStep, HasIt
    <3> QED
      BY <3>1, <3>2, <3>3
  <2>3. CASE n = 0
    <3>1. \A i \in start .. start + n - 1 : FALSE
      BY <2>3
    <3>2. f[n][start] = 0
      BY <1>1, <2>3 DEF SearchStep
    <3> QED
      BY <3>1, <3>2
  <2>4. n > 1 \/ n = 1 \/ n = 0
    OBVIOUS
  <2> HIDE DEF Good
  <2> QED
    BY <2>1, <2>2, <2>3, <2>4
<1> HIDE DEF Good
<1>4. 0 \in T
  <2>1. \A k \in 0 .. 0 - 1 : \A s \in Nat : s + k <= N => Good(k, s)
    OBVIOUS
  <2>2. \A start \in Nat : start + 0 <= N => Good(0, start)
    BY <1>3, <2>1
  <2> QED
    BY <2>2
<1>5. ASSUME NEW n \in Nat, n \in T PROVE n + 1 \in T
  <2>1. n + 1 \in Nat /\ \A k \in 0 .. (n + 1) - 1 : k \in 0 .. n
    OBVIOUS
  <2>2. \A k \in 0 .. (n + 1) - 1 : \A s \in Nat : s + k <= N => Good(k, s)
    BY <1>5, <2>1
  <2>3. \A start \in Nat : start + (n + 1) <= N => Good(n + 1, start)
    BY <1>3, <2>1, <2>2
  <2>4. \A k \in 0 .. n + 1 : k \in 0 .. n \/ k = n + 1
    OBVIOUS
  <2> QED
    BY <1>5, <2>1, <2>3, <2>4
<1>6. Nat \subseteq T
  <2> HIDE DEF T
  <2> QED
    BY <1>4, <1>5, SetInduction
<1>7. \A n \in Nat : n \in 0 .. n
  OBVIOUS
<1>8. \A n, start \in Nat : start + n <= N => Good(n, start)
  BY <1>6, <1>7
<1> QED
  BY <1>8 DEF Good

(* A descriptor that is well formed has such runs. *)
LEMMA RunsOf ==
    ASSUME NEW d, RangesWellFormed(d), d.ranges # <<>>, Len(d.fields) \in Nat
    PROVE  LET n == Len(d.ranges) - 1
               R == d.ranges
           IN  /\ Runs(R, n) /\ Index(R, n) = Len(d.fields)
               /\ \A i \in 0 .. n - 1 : \A j \in Index(R, i) + 1 .. Index(R, i + 1) :
                     d.fields[j].id = First(R, i) + (j - 1) - Index(R, i)
<1> DEFINE R == d.ranges
           n == Len(d.ranges) - 1
<1>1. /\ n \in Nat
      /\ R[1][2] = 0 /\ R[n + 1][2] = Len(d.fields)
      /\ \A k \in 1 .. n :
            /\ R[k][1] \in Nat /\ R[k][2] \in Nat /\ R[k][2] < R[k + 1][2]
            /\ k < n => R[k][1] + (R[k + 1][2] - R[k][2]) <= R[k + 1][1]
            /\ \A i \in R[k][2] + 1 .. R[k + 1][2] :
                  d.fields[i].id = R[k][1] + (i - 1) - R[k][2]
  BY DEF RangesWellFormed
<1>2. Len(d.fields) \in Nat
  OBVIOUS
<1>3. \A i \in 0 .. n - 1 : i + 1 \in 1 .. n /\ (i + 1 < n => i + 2 \in 1 .. n) /\ (i + 1) + 1 = i + 2
  BY <1>1
<1>4. 0 + 1 = 1
  OBVIOUS
<1> HIDE DEF R, n
<1>5. \A i \in 0 .. n - 1 : (i + 1 < n \/ i + 1 = n) /\ i + 1 \in 1 .. n
  BY <1>1
<1>6. \A i \in 0 .. n - 1 : R[(i + 1) + 1][2] \in Nat
  <2> SUFFICES ASSUME NEW i \in 0 .. n - 1 PROVE R[(i + 1) + 1][2] \in Nat
    OBVIOUS
  <2>1. CASE i + 1 < n
    BY <1>1, <1>3, <2>1
  <2>2. CASE i + 1 = n
    BY <1>1, <1>2, <2>2
  <2> QED
    BY <1>5, <2>1, <2>2
<1>7. Runs(R, n)
  BY <1>1, <1>2, <1>4, <1>5, <1>6 DEF Runs, First, Index, Count
<1>8. Index(R, n) = Len(d.fields)
  BY <1>1 DEF Index
<1>9. \A i \in 0 .. n - 1 : \A j \in Index(R, i) + 1 .. Index(R, i + 1) :
          d.fields[j].id = First(R, i) + (j - 1) - Index(R, i)
  BY <1>1, <1>5 DEF First, Index
<1> QED
  BY <1>7, <1>8, <1>9 DEF R, n

(* The index of a run is not above that of a later one. *)
LEMMA RunsGrow ==
    ASSUME NEW R, NEW n, Runs(R, n)
    PROVE  \A i \in 0 .. n : Index(R, i) \in Nat /\ Index(R, i) <= Index(R, n)
<1> DEFINE T == {k \in Nat : \A i \in 0 .. n : i + k = n => Index(R, i) <= Index(R, n)}
<1>1. /\ n \in Nat /\ Index(R, n) \in Nat
      /\ \A i \in 0 .. n - 1 : Index(R, i) \in Nat /\ Index(R, i + 1) \in Nat /\ Index(R, i) < Index(R, i + 1)
  BY DEF Runs
<1>2. \A i \in 0 .. n : Index(R, i) \in Nat
  <2>1. \A i \in 0 .. n : i = n \/ i \in 0 .. n - 1
    BY <1>1
  <2> QED
    BY <1>1, <2>1
<1>3. 0 \in T
  BY <1>1
<1>4. ASSUME NEW k \in Nat, k \in T PROVE k + 1 \in T
  <2>1. ASSUME NEW i \in 0 .. n, i + (k + 1) = n PROVE Index(R, i) <= Index(R, n)
    <3>1. i \in 0 .. n - 1 /\ i + 1 \in 0 .. n /\ (i + 1) + k = n
      BY <1>1, <2>1
    <3>2. Index(R, i + 1) <= Index(R, n)
      BY <1>4, <3>1
    <3>3. /\ Index(R, i) \in Nat /\ Index(R, i + 1) \in Nat /\ Index(R, n) \in Nat
          /\ Index(R, i) < Index(R, i + 1)
      BY <1>1, <3>1
    <3> QED
      BY <3>2, <3>3
  <2>2. k + 1 \in Nat
    OBVIOUS
  <2> QED
    BY <2>1, <2>2
<1>5. Nat \subseteq T
  <2> HIDE DEF T
  <2> QED
    BY <1>3, <1>4, SetInduction
<1>6. ASSUME NEW i \in 0 .. n PROVE Index(R, i) <= Index(R, n)
  <2>1. n - i \in Nat /\ i + (n - i) = n
    BY <1>1
  <2> QED
    BY <1>5, <2>1
<1> QED
  BY <1>2, <1>6

(* Each field is in one of the runs. *)
LEMMA RunsCover ==
    ASSUME NEW R, NEW n, Runs(R, n)
    PROVE  \A j \in 1 .. Index(R, n) : \E i \in 0 .. n - 1 : j \in Index(R, i) + 1 .. Index(R, i + 1)
<1> DEFINE T == {k \in Nat : k <= n => \A j \in 1 .. Index(R, k) :
                    \E i \in 0 .. n - 1 : j \in Index(R, i) + 1 .. Index(R, i + 1)}
<1>1. /\ n \in Nat /\ Index(R, n) \in Nat /\ Index(R, 0) = 0
      /\ \A i \in 0 .. n - 1 : Index(R, i) \in Nat /\ Index(R, i + 1) \in Nat
  BY DEF Runs
<1>2. 0 \in T
  BY <1>1
<1>3. ASSUME NEW k \in Nat, k \in T PROVE k + 1 \in T
  <2>1. ASSUME k + 1 <= n, NEW j \in 1 .. Index(R, k + 1)
        PROVE  \E i \in 0 .. n - 1 : j \in Index(R, i) + 1 .. Index(R, i + 1)
    <3>1. k <= n /\ k \in 0 .. n - 1 /\ Index(R, k) \in Nat /\ Index(R, k + 1) \in Nat
      BY <1>1, <2>1
    <3>2. CASE j <= Index(R, k)
      <4>1. j \in 1 .. Index(R, k)
        BY <3>1, <3>2
      <4> QED
        BY <1>3, <3>1, <4>1
    <3>3. CASE ~(j <= Index(R, k))
      <4>1. j \in Index(R, k) + 1 .. Index(R, k + 1)
        BY <3>1, <3>3
      <4> QED
        BY <3>1, <4>1
    <3> QED
      BY <3>2, <3>3
  <2>2. k + 1 \in Nat
    OBVIOUS
  <2> QED
    BY <2>1, <2>2
<1>4. Nat \subseteq T
  <2> HIDE DEF T
  <2> QED
    BY <1>2, <1>3, SetInduction
<1> QED
  BY <1>1, <1>4

(* The numbers of a run that starts with first follow one another, and so do
   the places of their fields. *)
LEMMA InRun ==
    ASSUME NEW first \in Nat, NEW index \in Nat, NEW next \in Nat, NEW j \in index + 1 .. next, NEW id,
           id = first + (j - 1) - index
    PROVE  first <= id /\ id < first + (next - index) /\ j = id - first + index + 1
OBVIOUS

(* The binary search finds the field of every number a descriptor can be
   asked for, and none for a number that no field has (int_range_lookup). *)
THEOREM SearchIsLookup ==
    ASSUME NEW d, RangesWellFormed(d), Len(d.fields) \in Nat, d.ranges = <<>> => d.fields = <<>>,
           NEW id \in Nat
    PROVE  int_range_lookup(d.ranges, id) = FieldOf(d, id)
<1> DEFINE R == d.ranges
           n == Len(d.ranges) - 1
           f == CHOOSE f : IsSearch(R, id, f)
           places == {i \in 1 .. Len(d.fields) : d.fields[i].id = id}
<1>1. CASE R = <<>>
  <2>1. d.fields = <<>> /\ Len(d.fields) = 0
    BY <1>1
  <2>2. places = {}
    BY <2>1
  <2> QED
    BY <1>1, <2>2 DEF int_range_lookup, FieldOf
<1>2. CASE R # <<>>
  <2>1. /\ Runs(R, n) /\ Index(R, n) = Len(d.fields)
        /\ \A i \in 0 .. n - 1 : \A j \in Index(R, i) + 1 .. Index(R, i + 1) :
              d.fields[j].id = First(R, i) + (j - 1) - Index(R, i)
    BY <1>2, RunsOf
  <2>2. int_range_lookup(R, id) = f[n][0]
    BY <1>2, SearchIs DEF int_range_lookup
  <2>3. IsSearch(R, id, f)
    BY SearchExists
  <2>4. n \in Nat
    BY <2>1 DEF Runs
  <2> HIDE DEF n, R, f
  <2>5. /\ \A i \in 0 .. n - 1 : HasIt(R, id, i) => f[n][0] = Place(R, id, i)
        /\ (\A i \in 0 .. n - 1 : ~HasIt(R, id, i)) => f[n][0] = 0
    <3>1. 0 + n <= n /\ 0 + n - 1 = n - 1
      BY <2>4
    <3> QED
      BY <2>1, <2>3, <2>4, <3>1, SearchFinds
  <2>6. /\ \A i \in 0 .. n - 1 : /\ First(R, i) \in Nat /\ Index(R, i) \in Nat /\ Index(R, i + 1) \in Nat
                                 /\ Count(R, i) \in Nat /\ Count(R, i) = Index(R, i + 1) - Index(R, i)
                                 /\ Index(R, i + 1) <= Len(d.fields)
        /\ \A i, j \in 0 .. n - 1 : i < j => First(R, i) + Count(R, i) <= First(R, j)
    <3>1. \A i \in 0 .. n - 1 : i + 1 \in 0 .. n
      BY <2>4
    <3>2. \A i \in 0 .. n - 1 : Index(R, i + 1) <= Len(d.fields)
      BY <2>1, <3>1, RunsGrow
    <3>3. \A i \in 0 .. n - 1 : /\ First(R, i) \in Nat /\ Index(R, i) \in Nat /\ Index(R, i + 1) \in Nat
                                /\ Index(R, i) < Index(R, i + 1)
      BY <2>1 DEF Runs
    <3> QED
      BY <2>1, <3>2, <3>3, RunsInOrder DEF Count
  <2>7. ASSUME NEW j \in places PROVE \E i \in 0 .. n - 1 : HasIt(R, id, i) /\ j = Place(R, id, i)
    <3>1. PICK i \in 0 .. n - 1 : j \in Index(R, i) + 1 .. Index(R, i + 1)
      BY <2>1, RunsCover
    <3>2. d.fields[j].id = First(R, i) + (j - 1) - Index(R, i) /\ d.fields[j].id = id
      BY <2>1, <3>1
    <3>3. HasIt(R, id, i) /\ j = Place(R, id, i)
      <4>1. id = First(R, i) + (j - 1) - Index(R, i)
        BY <3>2
      <4>2. /\ First(R, i) \in Nat /\ Index(R, i) \in Nat /\ Index(R, i + 1) \in Nat
            /\ Count(R, i) = Index(R, i + 1) - Index(R, i) /\ j \in Int
        BY <2>6, <3>1
      <4>3. First(R, i) <= id /\ id < First(R, i) + Count(R, i) /\ j = id - First(R, i) + Index(R, i) + 1
        BY <3>1, <4>1, <4>2, InRun, SMTT(60)
      <4> QED
        BY <4>3 DEF HasIt, Place
    <3> QED
      BY <3>3
  <2>8. ASSUME NEW i \in 0 .. n - 1, HasIt(R, id, i) PROVE Place(R, id, i) \in places
    <3>1. Place(R, id, i) \in Index(R, i) + 1 .. Index(R, i + 1)
      BY <2>6, <2>8, SMTT(60) DEF HasIt, Place
    <3>2. d.fields[Place(R, id, i)].id = First(R, i) + (Place(R, id, i) - 1) - Index(R, i)
      BY <2>1, <3>1
    <3>3. d.fields[Place(R, id, i)].id = id
      BY <2>6, <3>2 DEF Place
    <3>4. Place(R, id, i) \in 1 .. Len(d.fields)
      BY <2>6, <3>1
    <3> QED
      BY <3>3, <3>4
  <2>9. ASSUME NEW i \in 0 .. n - 1, NEW j \in 0 .. n - 1, HasIt(R, id, i), HasIt(R, id, j) PROVE i = j
    <3>1. i < j \/ j < i \/ i = j
      BY <2>4
    <3> QED
      BY <2>6, <2>9, <3>1, SMTT(60) DEF HasIt
  <2>10. FieldOf(d, id) = IF places = {} THEN 0 ELSE CHOOSE i \in places : TRUE
    BY DEF FieldOf
  <2> HIDE DEF places
  <2>11. CASE \E i \in 0 .. n - 1 : HasIt(R, id, i)
    <3>1. PICK i \in 0 .. n - 1 : HasIt(R, id, i)
      BY <2>11
    <3>2. places # {} /\ \A j \in places : j = Place(R, id, i)
      BY <2>7, <2>8, <2>9, <3>1
    <3>3. FieldOf(d, id) = Place(R, id, i)
      BY <2>10, <3>2
    <3> QED
      BY <2>2, <2>5, <3>1, <3>3 DEF R
  <2>12. CASE \A i \in 0 .. n - 1 : ~HasIt(R, id, i)
    <3>1. places = {}
      BY <2>7, <2>12
    <3> QED
      BY <2>2, <2>5, <2>10, <2>12, <3>1 DEF R
  <2> QED
    BY <2>11, <2>12
<1> QED
  BY <1>1, <1>2

(* What is sent has a descriptor, so its fields are found. *)
LEMMA LookupInv == SentInv => FieldFound
<1> SUFFICES ASSUME SentInv PROVE FieldFound
  OBVIOUS
<1>1. PICK m \in Sent : sent = <<m>> \/ \E l : sent = <<m, l>>
  BY DEF SentInv
<1>2. sent[1] = m
  BY <1>1
<1>3. IsMessage(m) /\ m \in Within(m)
  <2>1. IsMessage(m)
    BY SentAssumption
  <2> QED
    BY <2>1, MessageIsFinite, WithinIs
<1>4. desc = m.desc /\ m.desc \in DOMAIN Schema
  BY <1>2, <1>3 DEF desc, IsMessage, Fits
<1> DEFINE d == Schema[desc]
<1>5. d.fields \in Seq(Range(d.fields)) /\ RangesWellFormed(d)
  BY <1>4, SchemaAssumption
<1>6. Len(d.fields) \in Nat /\ (d.ranges = <<>> => d.fields = <<>>)
  BY <1>5 DEF RangesWellFormed
<1>7. \A id \in 0 .. 70 : id \in Nat
  OBVIOUS
<1> HIDE DEF d
<1>8. \A id \in 0 .. 70 : int_range_lookup(d.ranges, id) = FieldOf(d, id)
  BY <1>5, <1>6, <1>7, SearchIsLookup
<1> QED
  BY <1>8 DEF FieldFound, d

(* The binary search over the ranges finds the field of every number, and
   none for the numbers between the ranges, whatever the descriptors
   (int_range_lookup). *)
THEOREM EveryFieldFound == Spec => []FieldFound
BY InitPacked, SentStep, LookupInv, PTL DEF Spec

--------------------------------
(* Messages as unpacking builds them *)

NamesOf(d) == {f.name : f \in Range(Schema[d].fields)}
Wanted(f) == f.label = "required" /\ f.default = <<>>
(* A sequence, of whatever elements. *)
IsList(s) == s \in Seq(Range(s))

(* What a field may hold: no required field is without a value when all is
   TRUE. *)
Holds(f, s, all) ==
    /\ IsList(s)
    /\ f.label # "repeated" => Len(s) <= 1
    /\ all /\ Wanted(f) => s # <<>>
    /\ f.type = "MESSAGE" => \A i \in 1 .. Len(s) : s[i].desc = f.sub

(* A message as unpacking builds it, complete when all is TRUE, *)
Built(x, all) ==
    /\ x.desc \in DOMAIN Schema
    /\ x = [desc |-> x.desc, unknown |-> x.unknown, val |-> x.val]
    /\ IsList(x.unknown)
    /\ x.val = [n \in NamesOf(x.desc) |-> x.val[n]]
    /\ \A f \in Range(Schema[x.desc].fields) : Holds(f, x.val[f.name], all)

(* and with the messages in it, of less than n levels. *)
Well(x, n, all) == Level(x, n) = {} /\ \A k \in Nat : \A y \in Level(x, k) : Built(y, all)

(* A level further down is a level of the messages directly in this one. *)
LEMMA LevelDown ==
    ASSUME NEW m
    PROVE  \A n \in Nat : Level(m, n + 1) = UNION {Level(c, n) : c \in Children(m)}
<1> DEFINE T == {n \in Nat : Level(m, n + 1) = UNION {Level(c, n) : c \in Children(m)}}
<1>1. 0 \in T
  <2>1. Level(m, 0 + 1) = Below1(Level(m, 0)) /\ Level(m, 0) = {m}
    BY LevelByLevel
  <2>2. Level(m, 0 + 1) = Children(m)
    BY <2>1 DEF Below1
  <2>3. \A c \in Children(m) : Level(c, 0) = {c}
    BY LevelByLevel
  <2>4. UNION {Level(c, 0) : c \in Children(m)} = Children(m)
    BY <2>3
  <2> QED
    BY <2>2, <2>4
<1>2. ASSUME NEW n \in Nat, n \in T PROVE n + 1 \in T
  <2>1. Level(m, (n + 1) + 1) = Below1(Level(m, n + 1))
    BY LevelByLevel
  <2>2. Level(m, n + 1) = UNION {Level(c, n) : c \in Children(m)}
    BY <1>2
  <2>3. \A c \in Children(m) : Level(c, n + 1) = Below1(Level(c, n))
    BY LevelByLevel
  <2>4. Below1(UNION {Level(c, n) : c \in Children(m)}) = UNION {Below1(Level(c, n)) : c \in Children(m)}
    BY DEF Below1
  <2>5. UNION {Level(c, n + 1) : c \in Children(m)} = UNION {Below1(Level(c, n)) : c \in Children(m)}
    BY <2>3
  <2> QED
    BY <2>1, <2>2, <2>4, <2>5
<1>3. Nat \subseteq T
  <2> HIDE DEF T
  <2> QED
    BY <1>1, <1>2, SetInduction
<1> QED
  BY <1>3

(* A message is well built when it is itself and the messages in it are. *)
LEMMA WellStep ==
    ASSUME NEW m, NEW n \in Nat, NEW all
    PROVE  Well(m, n + 1, all) <=> Built(m, all) /\ \A c \in Children(m) : Well(c, n, all)
<1>1. Level(m, 0) = {m} /\ \A k \in Nat : Level(m, k + 1) = UNION {Level(c, k) : c \in Children(m)}
  BY LevelByLevel, LevelDown
<1>2. ASSUME Well(m, n + 1, all)
      PROVE  Built(m, all) /\ \A c \in Children(m) : Well(c, n, all)
  <2>1. Level(m, n + 1) = {} /\ \A k \in Nat : \A y \in Level(m, k) : Built(y, all)
    BY <1>2 DEF Well
  <2>2. Built(m, all)
    BY <1>1, <2>1
  <2>3. ASSUME NEW c \in Children(m) PROVE Well(c, n, all)
    <3>1. Level(c, n) = {}
      BY <1>1, <2>1
    <3>2. \A k \in Nat : \A y \in Level(c, k) : Built(y, all)
      <4> SUFFICES ASSUME NEW k \in Nat, NEW y \in Level(c, k) PROVE Built(y, all)
        OBVIOUS
      <4>1. y \in Level(m, k + 1) /\ k + 1 \in Nat
        BY <1>1
      <4> QED
        BY <2>1, <4>1
    <3> QED
      BY <3>1, <3>2 DEF Well
  <2> QED
    BY <2>2, <2>3
<1>3. ASSUME Built(m, all), \A c \in Children(m) : Well(c, n, all)
      PROVE  Well(m, n + 1, all)
  <2>1. \A c \in Children(m) : Level(c, n) = {} /\ \A k \in Nat : \A y \in Level(c, k) : Built(y, all)
    BY <1>3 DEF Well
  <2>2. Level(m, n + 1) = {}
    BY <1>1, <2>1
  <2>3. ASSUME NEW k \in Nat, NEW y \in Level(m, k) PROVE Built(y, all)
    <3>1. CASE k = 0
      BY <1>1, <1>3, <2>3, <3>1
    <3>2. CASE k # 0
      <4>1. k - 1 \in Nat /\ (k - 1) + 1 = k
        BY <3>2
      <4>2. PICK c \in Children(m) : y \in Level(c, k - 1)
        BY <1>1, <2>3, <4>1
      <4> QED
        BY <2>1, <4>1, <4>2
    <3> QED
      BY <3>1, <3>2
  <2> QED
    BY <2>2, <2>3 DEF Well
<1> QED
  BY <1>2, <1>3

(* What that means for the messages within it. *)
LEMMA WellFinite ==
    ASSUME NEW m, NEW n \in Nat, NEW all, Well(m, n, all)
    PROVE  /\ n # 0 /\ Finite(m) /\ m \in Within(m) /\ Built(m, all)
           /\ \A c \in Children(m) : Well(c, n - 1, all)
           /\ \A k \in Nat : n <= k => Well(m, k, all)
           /\ \A x \in Within(m) : Built(x, all) /\ Well(x, n, all)
<1>1. Level(m, n) = {} /\ \A k \in Nat : \A y \in Level(m, k) : Built(y, all)
  BY DEF Well
<1>2. Level(m, 0) = {m}
  BY LevelByLevel
<1>3. n # 0 /\ Finite(m)
  BY <1>1, <1>2 DEF Finite
<1>4. m \in Within(m)
  BY <1>3, WithinIs
<1>5. n - 1 \in Nat /\ (n - 1) + 1 = n
  BY <1>3
<1>6. Built(m, all) /\ \A c \in Children(m) : Well(c, n - 1, all)
  BY <1>5, WellStep
<1>7. \A k \in Nat : n <= k => Well(m, k, all)
  BY <1>1, EmptyBelow DEF Well
<1> DEFINE T == {k \in Nat : \A x \in Level(m, k) : Well(x, n, all)}
<1>8. 0 \in T
  BY <1>2
<1>9. ASSUME NEW k \in Nat, k \in T PROVE k + 1 \in T
  <2>1. Level(m, k + 1) = Below1(Level(m, k))
    BY LevelByLevel
  <2>2. ASSUME NEW x \in Level(m, k), NEW c \in Children(x) PROVE Well(c, n, all)
    <3>1. Well(x, n, all)
      BY <1>9, <2>2
    <3>2. Well(c, n - 1, all)
      BY <1>5, <3>1, <2>2, WellStep
    <3>3. Level(c, n - 1) = {} /\ \A j \in Nat : \A y \in Level(c, j) : Built(y, all)
      BY <3>2 DEF Well
    <3>4. n - 1 <= n
      BY <1>5
    <3>5. Level(c, n) = {}
      BY <1>5, <3>3, <3>4, EmptyBelow
    <3> QED
      BY <3>3, <3>5 DEF Well
  <2> QED
    BY <2>1, <2>2 DEF Below1
<1>10. Nat \subseteq T
  <2> HIDE DEF T
  <2> QED
    BY <1>8, <1>9, SetInduction
<1>11. ASSUME NEW x \in Within(m) PROVE Built(x, all) /\ Well(x, n, all)
  <2>1. Depth(m) \in Nat
    BY <1>3, DepthIsEmpty
  <2>2. PICK k \in 0 .. Depth(m) : x \in Level(m, k)
    BY <1>11 DEF Within
  <2>3. k \in Nat
    BY <2>1, <2>2
  <2> QED
    BY <1>1, <1>10, <2>2, <2>3
<1> QED
  BY <1>3, <1>4, <1>6, <1>7, <1>11

(* A complete message is built. *)
LEMMA BuiltLess ==
    ASSUME NEW x, NEW all, Built(x, all)
    PROVE  Built(x, FALSE)
BY DEF Built, Holds

(* And so with those within it. *)
LEMMA WellLess ==
    ASSUME NEW m, NEW n, NEW all, Well(m, n, all)
    PROVE  Well(m, n, FALSE)
BY BuiltLess DEF Well

(* It has every required field, down to the last level. *)
LEMMA WellIsComplete ==
    ASSUME NEW m, NEW n \in Nat, Well(m, n, TRUE)
    PROVE  IsComplete(m)
<1>1. \A x \in Within(m) : Built(x, TRUE)
  BY WellFinite
<1> QED
  BY <1>1 DEF IsComplete, Built, Holds, Wanted

(* The fields of a descriptor: finitely many, each with a name of its own. *)
LEMMA FieldsKnown ==
    ASSUME NEW name \in DOMAIN Schema
    PROVE  LET fs == Schema[name].fields
           IN  /\ fs \in Seq(Range(fs)) /\ Len(fs) \in Nat
               /\ \A i \in 1 .. Len(fs) : fs[i] \in Range(fs) /\ FieldWellFormed(fs[i])
               /\ \A f \in Range(fs) : FieldWellFormed(f) /\ f.name \in NamesOf(name)
                                       /\ \E i \in 1 .. Len(fs) : f = fs[i]
               /\ \A i, j \in 1 .. Len(fs) : fs[i].name = fs[j].name => i = j
               /\ \A f, g \in Range(fs) : f.name = g.name => f = g
               /\ IsFiniteSet(Range(fs))
<1> DEFINE fs == Schema[name].fields
<1>1. /\ fs \in Seq(Range(fs))
      /\ \A i \in 1 .. Len(fs) : FieldWellFormed(fs[i])
      /\ \A i, j \in 1 .. Len(fs) : fs[i].name = fs[j].name => i = j
  BY SchemaAssumption
<1>2. DOMAIN fs = 1 .. Len(fs) /\ Len(fs) \in Nat
  BY <1>1
<1>3. Range(fs) = {fs[i] : i \in 1 .. Len(fs)}
  BY <1>2 DEF Range
<1>4. \A f \in Range(fs) : \E i \in 1 .. Len(fs) : f = fs[i]
  BY <1>3
<1>5. \A i \in 1 .. Len(fs) : fs[i] \in Range(fs)
  BY <1>3
<1>6. \A f \in Range(fs) : f.name \in NamesOf(name)
  BY DEF NamesOf
<1>7. ASSUME NEW f \in Range(fs), NEW g \in Range(fs), f.name = g.name
      PROVE  f = g
  <2>1. PICK i \in 1 .. Len(fs) : f = fs[i]
    BY <1>4
  <2>2. PICK j \in 1 .. Len(fs) : g = fs[j]
    BY <1>4
  <2> HIDE DEF fs
  <2> QED
    BY <1>1, <1>7, <2>1, <2>2
<1>8. IsFiniteSet(Range(fs))
  <2>1. IsFiniteSet(1 .. Len(fs))
    BY <1>2, FS_Interval
  <2> HIDE DEF fs
  <2>2. fs \in [1 .. Len(fs) -> Range(fs)]
    BY <1>1
  <2>3. fs \in Surjection(1 .. Len(fs), Range(fs))
    BY <1>4, <2>2 DEF Surjection
  <2> QED
    BY <2>1, <2>3, FS_Surjection DEF ExistsSurjection
<1> HIDE DEF fs
<1>9. \A f \in Range(fs) : FieldWellFormed(f)
  BY <1>1, <1>4
<1> QED
  BY <1>1, <1>2, <1>4, <1>5, <1>6, <1>7, <1>8, <1>9 DEF fs

(* The messages in a message are the values of its fields. *)
LEMMA ChildrenAre ==
    ASSUME NEW x, NEW all, Built(x, all)
    PROVE  /\ \A f \in Range(Schema[x.desc].fields) :
                 f.type = "MESSAGE" => \A i \in 1 .. Len(x.val[f.name]) : x.val[f.name][i] \in Children(x)
           /\ \A c \in Children(x) :
                 \E f \in Range(Schema[x.desc].fields) :
                    /\ f.type = "MESSAGE"
                    /\ \E i \in 1 .. Len(x.val[f.name]) : c = x.val[f.name][i]
<1> DEFINE F == Range(Schema[x.desc].fields)
<1>1. \A f \in F : DOMAIN x.val[f.name] = 1 .. Len(x.val[f.name])
  BY DEF Built, Holds, IsList
<1>2. Children(x) = UNION {Range(x.val[f.name]) : f \in {f \in F : f.type = "MESSAGE"}}
  BY DEF Children
<1> HIDE DEF F
<1>3. ASSUME NEW f \in F, f.type = "MESSAGE", NEW i \in 1 .. Len(x.val[f.name])
      PROVE  x.val[f.name][i] \in Children(x)
  <2>1. x.val[f.name][i] \in Range(x.val[f.name])
    BY <1>1, <1>3 DEF Range
  <2> QED
    BY <1>2, <1>3, <2>1
<1>4. ASSUME NEW c \in Children(x)
      PROVE  \E f \in F : f.type = "MESSAGE" /\ \E i \in 1 .. Len(x.val[f.name]) : c = x.val[f.name][i]
  <2>1. PICK f \in F : f.type = "MESSAGE" /\ c \in Range(x.val[f.name])
    BY <1>2, <1>4
  <2> QED
    BY <1>1, <2>1 DEF Range
<1> QED
  BY <1>3, <1>4 DEF F

--------------------------------
(* What a message takes *)

(* Equal summands have equal sums. *)
LEMMA SameSum ==
    ASSUME NEW f, Numbers(f), NEW g, Numbers(g)
    PROVE  \A s \in (SUBSET DOMAIN f) \cap (SUBSET DOMAIN g) :
               (\A x \in s : f[x] = g[x]) => PartSum(f, s) = PartSum(g, s)
<1> DEFINE D == DOMAIN f \cap DOMAIN g
           T == {n \in Nat : \A s \in Small(D, n) :
                                (\A x \in s : f[x] = g[x]) => PartSum(f, s) = PartSum(g, s)}
<1>0. IsFiniteSet(D) /\ D \subseteq DOMAIN f /\ D \subseteq DOMAIN g
      /\ IsFiniteSet(DOMAIN f) /\ IsFiniteSet(DOMAIN g)
  BY FS_Subset DEF Numbers
<1>1. 0 \in T
  <2>1. {} \in SUBSET DOMAIN f /\ {} \in SUBSET DOMAIN g
    OBVIOUS
  <2>2. PartSum(f, {}) = PartSum(g, {})
    BY <1>0, <2>1, PartSumIs
  <2>3. Small(D, 0) = {{}}
    BY <1>0, SmallSets
  <2> QED
    BY <2>2, <2>3
<1>2. ASSUME NEW n \in Nat, n \in T PROVE n + 1 \in T
  <2> HIDE DEF D
  <2> SUFFICES ASSUME NEW s \in Small(D, n + 1), \A x \in s : f[x] = g[x]
               PROVE  PartSum(f, s) = PartSum(g, s)
    <3>1. n + 1 \in Nat
      OBVIOUS
    <3> QED
      BY <3>1
  <2>1. s \in SUBSET D /\ s \in SUBSET DOMAIN f /\ s \in SUBSET DOMAIN g
    BY <1>0 DEF Small
  <2>2. CASE s = {}
    BY <1>0, <2>1, <2>2, PartSumIs
  <2>3. CASE s # {}
    <3>1. s \ {Chosen(s)} \in Small(D, n) /\ Chosen(s) \in s
      BY <1>0, <2>1, <2>3, SmallSets, Smaller
    <3>2. PartSum(f, s \ {Chosen(s)}) = PartSum(g, s \ {Chosen(s)})
      BY <1>2, <3>1
    <3> QED
      BY <1>0, <2>1, <2>3, <3>1, <3>2, PartSumIs
  <2> QED
    BY <2>2, <2>3
<1>3. Cardinality(D) \in T
  <2>1. Cardinality(D) \in Nat
    BY <1>0, FS_CardinalityType
  <2> HIDE DEF T
  <2> QED
    BY <1>1, <1>2, <2>1, SetInduction
<1>4. (SUBSET DOMAIN f) \cap (SUBSET DOMAIN g) = SUBSET D
  OBVIOUS
<1> HIDE DEF D
<1> QED
  BY <1>0, <1>3, <1>4, SmallSets

(* A sum with one summand changed. *)
LEMMA SumChanged ==
    ASSUME NEW f, Numbers(f), NEW g, Numbers(g), DOMAIN g = DOMAIN f,
           NEW a \in DOMAIN f, \A x \in DOMAIN f : x # a => g[x] = f[x]
    PROVE  /\ SumFunction(f) \in Nat /\ SumFunction(g) \in Nat
           /\ SumFunction(g) = SumFunction(f) - f[a] + g[a]
<1> DEFINE D == DOMAIN f
           s == D \ {a}
<1>1. D \in SUBSET DOMAIN f /\ D \in SUBSET DOMAIN g /\ s \in SUBSET DOMAIN f /\ s \in SUBSET DOMAIN g
  OBVIOUS
<1>2. SumFunction(f) = PartSum(f, D) /\ SumFunction(g) = PartSum(g, D)
  BY SumIs
<1>3. PartSum(f, D) = PartSum(f, s) + f[a] /\ PartSum(g, D) = PartSum(g, s) + g[a]
  BY <1>1, SumOut
<1>4. PartSum(f, s) = PartSum(g, s)
  <2>1. \A x \in s : f[x] = g[x]
    OBVIOUS
  <2> HIDE DEF s, D
  <2> QED
    BY <1>1, <2>1, SameSum
<1>5. PartSum(f, s) \in Nat /\ f[a] \in Nat /\ g[a] \in Nat
  BY <1>1, PartSumType DEF Numbers
<1> HIDE DEF s, D
<1> QED
  BY <1>2, <1>3, <1>4, <1>5

Summands(f, n) == n \in Nat /\ DOMAIN f = 1 .. n /\ \A i \in 1 .. n : f[i] \in Nat

Steps(f, n) ==
    /\ SumFunction(f) = SumTo(f, n) /\ SumFunction(f) \in Nat
    /\ SumTo(f, 0) = 0
    /\ \A k \in 0 .. n : SumTo(f, k) \in Nat
    /\ \A k \in 1 .. n : SumTo(f, k) = SumTo(f, k - 1) + f[k]

(* A sum over a sequence, one summand after the other. *)
LEMMA SumOfSummands ==
    ASSUME NEW n, NEW f, Summands(f, n)
    PROVE  Steps(f, n)
<1>1. n \in Nat /\ n \in 0 .. n
  BY DEF Summands
<1> QED
  BY <1>1, SumSteps, ZenonT(60) DEF Summands, Steps

Parts(f, m, g, n, h) ==
    /\ m \in Nat /\ n \in Nat /\ DOMAIN f = 1 .. m /\ DOMAIN g = 1 .. n /\ DOMAIN h = 1 .. m + n
    /\ \A i \in 1 .. m : f[i] \in Nat /\ h[i] = f[i]
    /\ \A i \in 1 .. n : g[i] \in Nat /\ h[m + i] = g[i]

(* The sum of two sequences, one after the other. *)
LEMMA SumOfParts ==
    ASSUME NEW f, NEW m, NEW g, NEW n, NEW h, Parts(f, m, g, n, h)
    PROVE  SumFunction(h) = SumFunction(f) + SumFunction(g)
<1>a. m \in Nat /\ n \in Nat /\ DOMAIN f = 1 .. m /\ DOMAIN g = 1 .. n /\ DOMAIN h = 1 .. m + n
  BY DEF Parts
<1>b. /\ \A i \in 1 .. m : f[i] \in Nat /\ h[i] = f[i]
      /\ \A i \in 1 .. n : g[i] \in Nat /\ h[m + i] = g[i]
  BY DEF Parts
<1> USE <1>a
<1>1. \A i \in 1 .. m + n : h[i] \in Nat
  <2> SUFFICES ASSUME NEW i \in 1 .. m + n PROVE h[i] \in Nat
    OBVIOUS
  <2>1. CASE i <= m
    BY <1>b, <2>1
  <2>2. CASE ~(i <= m)
    <3>1. i - m \in 1 .. n /\ m + (i - m) = i
      BY <2>2
    <3> QED
      BY <1>b, <3>1
  <2> QED
    BY <2>1, <2>2
<1>2. Summands(f, m) /\ Summands(g, n) /\ Summands(h, m + n)
  BY <1>1, <1>b DEF Summands
<1>3. Steps(f, m) /\ Steps(g, n) /\ Steps(h, m + n)
  BY <1>2, SumOfSummands
<1> DEFINE T == {k \in Nat : k <= m => SumTo(h, k) = SumTo(f, k)}
           U == {k \in Nat : k <= n => SumTo(h, m + k) = SumTo(f, m) + SumTo(g, k)}
<1>6. Nat \subseteq T
  <2>1. 0 \in T
    BY <1>3 DEF Steps
  <2>2. ASSUME NEW k \in Nat, k \in T PROVE k + 1 \in T
    <3> SUFFICES ASSUME k + 1 <= m PROVE SumTo(h, k + 1) = SumTo(f, k + 1)
      OBVIOUS
    <3>1. k + 1 \in 1 .. m /\ k + 1 \in 1 .. m + n /\ (k + 1) - 1 = k /\ k <= m
      OBVIOUS
    <3>2. SumTo(h, k) = SumTo(f, k) /\ h[k + 1] = f[k + 1]
      BY <1>b, <2>2, <3>1
    <3>3. SumTo(h, k + 1) = SumTo(h, k) + h[k + 1] /\ SumTo(f, k + 1) = SumTo(f, k) + f[k + 1]
      BY <1>3, <3>1 DEF Steps
    <3> QED
      BY <3>2, <3>3
  <2> HIDE DEF T
  <2> QED
    BY <2>1, <2>2, SetInduction
<1>7. SumTo(h, m) = SumTo(f, m)
  BY <1>6
<1>8. Nat \subseteq U
  <2>1. 0 \in U
    <3>1. m + 0 = m /\ SumTo(f, m) \in Nat
      BY <1>3 DEF Steps
    <3> QED
      BY <1>3, <1>7, <3>1 DEF Steps
  <2>2. ASSUME NEW k \in Nat, k \in U PROVE k + 1 \in U
    <3> SUFFICES ASSUME k + 1 <= n PROVE SumTo(h, m + (k + 1)) = SumTo(f, m) + SumTo(g, k + 1)
      OBVIOUS
    <3>1. /\ k + 1 \in 1 .. n /\ m + (k + 1) \in 1 .. m + n /\ (k + 1) - 1 = k /\ k <= n
          /\ m + (k + 1) - 1 = m + k /\ k \in 0 .. n
      OBVIOUS
    <3>2. SumTo(h, m + k) = SumTo(f, m) + SumTo(g, k) /\ h[m + (k + 1)] = g[k + 1] /\ g[k + 1] \in Nat
      BY <1>b, <2>2, <3>1
    <3>3. SumTo(h, m + (k + 1)) = SumTo(h, m + k) + h[m + (k + 1)]
      <4> HIDE DEF U
      <4> QED
        BY <1>3, <3>1 DEF Steps
    <3>5. SumTo(g, k + 1) = SumTo(g, k) + g[k + 1]
      <4> HIDE DEF U
      <4> QED
        BY <1>3, <3>1 DEF Steps
    <3>4. SumTo(f, m) \in Nat /\ SumTo(g, k) \in Nat
      BY <1>3, <3>1 DEF Steps
    <3> HIDE DEF U
    <3> QED
      BY <3>2, <3>3, <3>4, <3>5
  <2> HIDE DEF U
  <2> QED
    BY <2>1, <2>2, SetInduction
<1>9. SumTo(h, m + n) = SumTo(f, m) + SumTo(g, n)
  BY <1>8
<1> QED
  BY <1>3, <1>9 DEF Steps

BlockStep(b, x) ==
    1 + SumFunction([f \in Range(Schema[x.desc].fields) |-> FieldBlocks(b, f, x.val[f.name])])
      + (IF x.unknown = <<>> THEN 0 ELSE 1 + Len(x.unknown))
IsBlocks(m, b) == b = [x \in Within(m) |-> BlockStep(b, x)]

(* Blocks is a function of the messages within, when there is one. *)
LEMMA BlocksIs ==
    ASSUME NEW m
    PROVE  Blocks(m) = (CHOOSE b : IsBlocks(m, b))[m]
BY DEF Blocks, IsBlocks, BlockStep

(* A step of it only asks for the messages directly in this one. *)
LEMMA BlocksLocal ==
    ASSUME NEW x, Built(x, FALSE), NEW s, NEW t, \A c \in Children(x) : s[c] = t[c]
    PROVE  BlockStep(s, x) = BlockStep(t, x)
<1> DEFINE F == Range(Schema[x.desc].fields)
<1>1. ASSUME NEW f \in F
      PROVE  FieldBlocks(s, f, x.val[f.name]) = FieldBlocks(t, f, x.val[f.name])
  <2> DEFINE v == x.val[f.name]
  <2>1. f.type = "MESSAGE" => \A i \in 1 .. Len(v) : v[i] \in Children(x)
    BY ChildrenAre
  <2> HIDE DEF v
  <2>2. [i \in 1 .. Len(v) |-> IF f.type = "MESSAGE" THEN s[v[i]] ELSE DataBlocks(f, v[i])]
        = [i \in 1 .. Len(v) |-> IF f.type = "MESSAGE" THEN t[v[i]] ELSE DataBlocks(f, v[i])]
    BY <2>1
  <2>3. FieldBlocks(s, f, v) = FieldBlocks(t, f, v)
    BY <2>2 DEF FieldBlocks
  <2> QED
    BY <2>3 DEF v
<1>2. [f \in F |-> FieldBlocks(s, f, x.val[f.name])] = [f \in F |-> FieldBlocks(t, f, x.val[f.name])]
  BY <1>1
<1> QED
  BY <1>2 DEF BlockStep

(* There is such a function. *)
LEMMA BlocksExist ==
    ASSUME NEW m, NEW n \in Nat, Well(m, n, FALSE)
    PROVE  \E b : IsBlocks(m, b)
<1> DEFINE T == {k \in Nat : \E s : s = [x \in Bottom(m, k) |-> BlockStep(s, x)]}
<1>0. Finite(m) /\ \A x \in Within(m) : Built(x, FALSE)
  BY WellFinite
<1>1. 0 \in T
  <2> DEFINE s == [x \in Bottom(m, 0) |-> 0]
  <2>1. s = [x \in Bottom(m, 0) |-> BlockStep(s, x)]
    BY <1>0, BottomIs
  <2> HIDE DEF s
  <2> QED
    BY <2>1
<1>2. ASSUME NEW k \in Nat, k \in T PROVE k + 1 \in T
  <2>1. PICK s : s = [x \in Bottom(m, k) |-> BlockStep(s, x)]
    BY <1>2
  <2> DEFINE t == [x \in Bottom(m, k + 1) |-> BlockStep(s, x)]
  <2>2. /\ Bottom(m, k + 1) \subseteq Within(m) /\ Bottom(m, k) \subseteq Bottom(m, k + 1)
        /\ \A x \in Bottom(m, k + 1) : Children(x) \subseteq Bottom(m, k)
    BY <1>0, BottomGrows
  <2>3. \A x \in Bottom(m, k) : t[x] = s[x]
    <3>1. \A x \in Bottom(m, k) : s[x] = BlockStep(s, x)
      BY <2>1
    <3> QED
      BY <2>2, <3>1
  <2>4. \A x \in Bottom(m, k + 1) : BlockStep(s, x) = BlockStep(t, x)
    <3> SUFFICES ASSUME NEW x \in Bottom(m, k + 1) PROVE BlockStep(s, x) = BlockStep(t, x)
      OBVIOUS
    <3>1. Built(x, FALSE) /\ \A c \in Children(x) : s[c] = t[c]
      BY <1>0, <2>2, <2>3
    <3> HIDE DEF t
    <3> QED
      BY <3>1, BlocksLocal
  <2>5. t = [x \in Bottom(m, k + 1) |-> BlockStep(t, x)]
    BY <2>4
  <2> HIDE DEF t
  <2> QED
    BY <2>5
<1>3. Depth(m) \in T
  <2>1. Depth(m) \in Nat
    BY <1>0, DepthIsEmpty
  <2> HIDE DEF T
  <2> QED
    BY <1>1, <1>2, <2>1, SetInduction
<1> QED
  BY <1>0, <1>3, BottomIs DEF IsBlocks

(* The blocks of a value, of the values of a field, of their array, and of
   unknown fields. *)
ValueOwn(f, v) == IF f.type = "MESSAGE" THEN Blocks(v) ELSE DataBlocks(f, v)
ValuesOwn(f, s) == SumFunction([i \in 1 .. Len(s) |-> ValueOwn(f, s[i])])
ArrayOwn(f, s) == IF f.label = "repeated" /\ s # <<>> THEN 1 ELSE 0
Own(f, s) == ValuesOwn(f, s) + ArrayOwn(f, s)
UnknownOwn(u) == IF u = <<>> THEN 0 ELSE 1 + Len(u)
FieldsOwn(x) == [f \in Range(Schema[x.desc].fields) |-> Own(f, x.val[f.name])]

(* All values of a field that hold messages have some number of blocks. *)
Counted(f, s) == IsList(s) /\ (f.type = "MESSAGE" => \A i \in 1 .. Len(s) : Blocks(s[i]) \in Nat)

(* They are numbers. *)
LEMMA OwnType ==
    ASSUME NEW f, NEW s, Counted(f, s)
    PROVE  /\ Summands([i \in 1 .. Len(s) |-> ValueOwn(f, s[i])], Len(s))
           /\ ValuesOwn(f, s) \in Nat /\ ArrayOwn(f, s) \in Nat /\ Own(f, s) \in Nat
<1> DEFINE g == [i \in 1 .. Len(s) |-> ValueOwn(f, s[i])]
<1>1. Len(s) \in Nat
  BY DEF Counted, IsList
<1>2. \A i \in 1 .. Len(s) : ValueOwn(f, s[i]) \in Nat
  BY DEF Counted, ValueOwn, DataBlocks
<1>3. Summands(g, Len(s))
  BY <1>1, <1>2 DEF Summands
<1>4. SumFunction(g) \in Nat
  <2> HIDE DEF g
  <2> QED
    BY <1>3, SumOfSummands DEF Steps
<1> QED
  BY <1>3, <1>4 DEF ValuesOwn, ArrayOwn, Own

(* No value, no block. *)
LEMMA OwnNone ==
    ASSUME NEW f
    PROVE  ValuesOwn(f, <<>>) = 0 /\ Own(f, <<>>) = 0
<1>1. Counted(f, <<>>)
  BY DEF Counted, IsList
<1> DEFINE g == [i \in 1 .. Len(<<>>) |-> ValueOwn(f, <<>>[i])]
<1>2. Summands(g, Len(<<>>))
  BY <1>1, OwnType
<1>3. Len(<<>>) = 0
  OBVIOUS
<1>4. SumFunction(g) = 0
  <2> HIDE DEF g
  <2> QED
    BY <1>2, <1>3, SumOfSummands DEF Steps
<1> QED
  BY <1>4 DEF ValuesOwn, Own, ArrayOwn

(* One value has its own blocks. *)
LEMMA OwnOne ==
    ASSUME NEW f, NEW v, f.type = "MESSAGE" => Blocks(v) \in Nat
    PROVE  ValuesOwn(f, <<v>>) = ValueOwn(f, v) /\ ValueOwn(f, v) \in Nat /\ Counted(f, <<v>>)
<1> DEFINE s == <<v>>
           g == [i \in 1 .. Len(s) |-> ValueOwn(f, s[i])]
<1>1. s \in Seq({v}) /\ Len(s) = 1 /\ s[1] = v /\ Range(s) = {v}
  BY DEF Range
<1>2. Counted(f, s)
  BY <1>1 DEF Counted, IsList
<1> HIDE DEF s
<1>3. Summands(g, 1)
  BY <1>1, <1>2, OwnType
<1>4. g[1] = ValueOwn(f, v)
  BY <1>1
<1>5. SumFunction(g) = ValueOwn(f, v) /\ ValueOwn(f, v) \in Nat
  <2> HIDE DEF g
  <2>0. Steps(g, 1) /\ 1 \in 1 .. 1
    BY <1>3, SumOfSummands
  <2>3. g[1] \in Nat
    BY <1>3, <2>0 DEF Summands
  <2>1. /\ SumFunction(g) = SumTo(g, 1) /\ SumTo(g, 0) = 0 /\ g[1] \in Nat
        /\ \A k \in 1 .. 1 : SumTo(g, k) = SumTo(g, k - 1) + g[k]
    BY <2>0, <2>3 DEF Steps
  <2>2. SumTo(g, 1) = SumTo(g, 0) + g[1]
    <3>1. 1 \in 1 .. 1 /\ 1 - 1 = 0
      OBVIOUS
    <3> QED
      BY <2>1, <3>1
  <2> QED
    BY <1>4, <2>1, <2>2
<1> QED
  BY <1>2, <1>5 DEF ValuesOwn, s

(* Values joined have the blocks of both. *)
LEMMA OwnJoined ==
    ASSUME NEW f, NEW a, NEW b, Counted(f, a), Counted(f, b)
    PROVE  Counted(f, a \o b) /\ ValuesOwn(f, a \o b) = ValuesOwn(f, a) + ValuesOwn(f, b)
<1> DEFINE R == Range(a) \cup Range(b)
           m == Len(a)
           n == Len(b)
           s == a \o b
           fa == [i \in 1 .. Len(a) |-> ValueOwn(f, a[i])]
           fb == [i \in 1 .. Len(b) |-> ValueOwn(f, b[i])]
           fs == [i \in 1 .. Len(s) |-> ValueOwn(f, s[i])]
<1>1. a \in Seq(R) /\ b \in Seq(R) /\ m \in Nat /\ n \in Nat
  BY DEF Counted, IsList
<1>2. /\ s \in Seq(R) /\ Len(s) = m + n
      /\ \A i \in 1 .. m : s[i] = a[i]
      /\ \A i \in 1 .. n : s[m + i] = b[i]
  <2> HIDE DEF R
  <2>1. s \in Seq(R) /\ Len(s) = m + n
    BY <1>1
  <2>2. \A i \in 1 .. m + n : s[i] = IF i <= m THEN a[i] ELSE b[i - m]
    BY <1>1
  <2>3. \A i \in 1 .. m : s[i] = a[i]
    BY <1>1, <2>2
  <2>4. ASSUME NEW i \in 1 .. n PROVE s[m + i] = b[i]
    <3>1. m + i \in 1 .. m + n /\ ~(m + i <= m) /\ (m + i) - m = i
      BY <1>1
    <3> HIDE DEF s
    <3> QED
      BY <2>2, <3>1
  <2> QED
    BY <2>1, <2>3, <2>4
<1> HIDE DEF R, s, m, n
<1>3. IsList(s)
  BY <1>2 DEF IsList, Range
<1>4. \A i \in 1 .. Len(s) : f.type = "MESSAGE" => Blocks(s[i]) \in Nat
  <2> SUFFICES ASSUME NEW i \in 1 .. Len(s), f.type = "MESSAGE" PROVE Blocks(s[i]) \in Nat
    OBVIOUS
  <2>1. CASE i <= m
    BY <1>1, <1>2, <2>1 DEF Counted, m
  <2>2. CASE ~(i <= m)
    <3>1. i - m \in 1 .. n /\ m + (i - m) = i
      BY <1>1, <1>2, <2>2
    <3>2. s[i] = b[i - m]
      BY <1>2, <3>1
    <3> QED
      BY <3>1, <3>2 DEF Counted, n
  <2> QED
    BY <2>1, <2>2
<1>5. Counted(f, s)
  BY <1>3, <1>4 DEF Counted
<1>6. Summands(fa, m) /\ Summands(fb, n)
  BY OwnType DEF m, n
<1>7. /\ DOMAIN fa = 1 .. m /\ DOMAIN fb = 1 .. n /\ DOMAIN fs = 1 .. m + n
      /\ \A i \in 1 .. m : fa[i] \in Nat /\ fs[i] = fa[i]
      /\ \A i \in 1 .. n : fb[i] \in Nat /\ fs[m + i] = fb[i]
  <2>1. \A i \in 1 .. m : i \in 1 .. m + n
    BY <1>1
  <2>2. \A i \in 1 .. n : m + i \in 1 .. m + n
    BY <1>1
  <2>3. (\A i \in 1 .. m : fa[i] \in Nat) /\ \A i \in 1 .. n : fb[i] \in Nat
    <3> HIDE DEF fa, fb
    <3> QED
      BY <1>6 DEF Summands
  <2> QED
    BY <1>2, <2>1, <2>2, <2>3 DEF m, n
<1> HIDE DEF fa, fb, fs
<1>8. SumFunction(fs) = SumFunction(fa) + SumFunction(fb)
  <2>1. Parts(fa, m, fb, n, fs)
    BY <1>1, <1>7 DEF Parts
  <2> QED
    BY <2>1, SumOfParts
<1> QED
  BY <1>5, <1>8 DEF ValuesOwn, fa, fb, fs, s

(* What a message takes: itself, what its fields hold, its unknown fields. *)
LEMMA BlocksAre ==
    ASSUME NEW x, NEW n \in Nat, Well(x, n, FALSE)
    PROVE  /\ Blocks(x) = 1 + SumFunction(FieldsOwn(x)) + UnknownOwn(x.unknown)
           /\ Blocks(x) \in Nat /\ Numbers(FieldsOwn(x)) /\ UnknownOwn(x.unknown) \in Nat
           /\ SumFunction(FieldsOwn(x)) \in Nat
           /\ \A f \in Range(Schema[x.desc].fields) : Counted(f, x.val[f.name])
<1> DEFINE b == CHOOSE b : IsBlocks(x, b)
<1>1. IsBlocks(x, b)
  BY BlocksExist
<1>2. Finite(x) /\ x \in Within(x) /\ \A y \in Within(x) : Built(y, FALSE) /\ Well(y, n, FALSE) /\ Children(y) \subseteq Within(x)
  BY WellFinite, WithinIs
<1> HIDE DEF b
<1>3. \A y \in Within(x) : b[y] = BlockStep(b, y)
  BY <1>1 DEF IsBlocks
<1>4. ASSUME NEW y \in Within(x) PROVE b[y] = Blocks(y)
  <2> DEFINE c == CHOOSE c : IsBlocks(y, c)
             P == {z \in Within(y) : z \in Within(x) /\ c[z] = b[z]}
  <2>1. IsBlocks(y, c) /\ Blocks(y) = c[y]
    BY <1>2, BlocksExist, BlocksIs
  <2> HIDE DEF c
  <2>2. Finite(y) /\ y \in Within(y)
    BY <1>2, WellFinite
  <2>3. Within(y) \subseteq Within(x)
    <3> DEFINE Q == Within(x)
               K == {k \in Nat : Level(y, k) \subseteq Within(x)}
    <3>1. 0 \in K
      BY LevelByLevel, <1>4
    <3>2. ASSUME NEW k \in Nat, k \in K PROVE k + 1 \in K
      <4>1. Level(y, k + 1) = Below1(Level(y, k))
        BY LevelByLevel
      <4>2. Level(y, k) \subseteq Within(x)
        BY <3>2
      <4>3. Below1(Level(y, k)) \subseteq Within(x)
        BY <1>2, <4>2 DEF Below1
      <4> QED
        BY <4>1, <4>3
    <3>3. Nat \subseteq K
      <4> HIDE DEF K
      <4> QED
        BY <3>1, <3>2, SetInduction
    <3>4. Depth(y) \in Nat
      BY <2>2, DepthIsEmpty
    <3> QED
      BY <3>3, <3>4 DEF Within
  <2>4. ASSUME NEW z \in Within(y), Children(z) \subseteq P PROVE z \in P
    <3>1. Built(z, FALSE) /\ b[z] = BlockStep(b, z)
      BY <1>2, <1>3, <2>3, <2>4
    <3>2. c[z] = BlockStep(c, z)
      BY <2>1, <2>4 DEF IsBlocks
    <3>3. BlockStep(c, z) = BlockStep(b, z)
      BY <2>4, <3>1, BlocksLocal
    <3> QED
      BY <2>3, <2>4, <3>1, <3>2, <3>3
  <2>5. Within(y) \subseteq P
    <3> HIDE DEF P
    <3> QED
      BY <2>2, <2>4, TreeInduction
  <2> QED
    BY <2>1, <2>2, <2>5
<1> DEFINE P == {y \in Within(x) : b[y] \in Nat}
<1>5. ASSUME NEW y \in Within(x), \A c \in Children(y) : b[c] \in Nat
      PROVE  /\ b[y] = 1 + SumFunction(FieldsOwn(y)) + UnknownOwn(y.unknown)
             /\ b[y] \in Nat /\ Numbers(FieldsOwn(y)) /\ UnknownOwn(y.unknown) \in Nat
             /\ SumFunction(FieldsOwn(y)) \in Nat
             /\ \A f \in Range(Schema[y.desc].fields) : Counted(f, y.val[f.name])
  <2> DEFINE F == Range(Schema[y.desc].fields)
  <2>1. Built(y, FALSE) /\ Children(y) \subseteq Within(x)
    BY <1>2, <1>5
  <2>2. \A c \in Children(y) : b[c] = Blocks(c) /\ Blocks(c) \in Nat
    BY <1>4, <1>5, <2>1
  <2>3. ASSUME NEW f \in F
        PROVE  Counted(f, y.val[f.name]) /\ FieldBlocks(b, f, y.val[f.name]) = Own(f, y.val[f.name])
    <3> DEFINE v == y.val[f.name]
    <3>1. IsList(v)
      BY <2>1 DEF Built, Holds
    <3>2. f.type = "MESSAGE" => \A i \in 1 .. Len(v) : v[i] \in Children(y)
      BY <2>1, ChildrenAre
    <3> HIDE DEF v, F
    <3>3. Counted(f, v)
      BY <2>2, <3>1, <3>2 DEF Counted
    <3>4. [i \in 1 .. Len(v) |-> IF f.type = "MESSAGE" THEN b[v[i]] ELSE DataBlocks(f, v[i])]
          = [i \in 1 .. Len(v) |-> ValueOwn(f, v[i])]
      BY <2>2, <3>2 DEF ValueOwn
    <3>5. FieldBlocks(b, f, v) = Own(f, v)
      BY <3>4 DEF FieldBlocks, Own, ValuesOwn, ArrayOwn
    <3> QED
      BY <3>3, <3>5 DEF v
  <2>4. [f \in F |-> FieldBlocks(b, f, y.val[f.name])] = FieldsOwn(y)
    BY <2>3 DEF FieldsOwn
  <2>5. Numbers(FieldsOwn(y))
    <3>1. IsFiniteSet(F)
      BY <2>1, FieldsKnown DEF Built
    <3>2. \A f \in F : Own(f, y.val[f.name]) \in Nat
      BY <2>3, OwnType
    <3> QED
      BY <3>1, <3>2 DEF Numbers, FieldsOwn
  <2>6. SumFunction(FieldsOwn(y)) \in Nat
    <3>1. DOMAIN FieldsOwn(y) \in SUBSET DOMAIN FieldsOwn(y)
      OBVIOUS
    <3> QED
      BY <2>5, <3>1, SumIs, PartSumType
  <2>7. UnknownOwn(y.unknown) \in Nat
    BY <2>1 DEF UnknownOwn, Built, IsList
  <2>8. b[y] = 1 + SumFunction(FieldsOwn(y)) + UnknownOwn(y.unknown)
    BY <1>3, <2>4 DEF BlockStep, UnknownOwn
  <2> QED
    BY <2>3, <2>5, <2>6, <2>7, <2>8
<1>6. Within(x) \subseteq P
  <2>1. ASSUME NEW y \in Within(x), Children(y) \subseteq P PROVE y \in P
    BY <1>5, <2>1
  <2> HIDE DEF P
  <2> QED
    BY <1>2, <2>1, TreeInduction
<1>7. \A c \in Children(x) : b[c] \in Nat
  BY <1>2, <1>6
<1> HIDE DEF P
<1>8. b[x] = Blocks(x)
  BY <1>2, <1>4
<1> QED
  BY <1>2, <1>5, <1>7, <1>8

--------------------------------
(* Merging *)

SetField(x, f, s) == [x EXCEPT !.val[f.name] = s]

(* Setting a field changes that field only. *)
LEMMA FieldIsSet ==
    ASSUME NEW x, NEW all \in BOOLEAN, Built(x, all),
           NEW f \in Range(Schema[x.desc].fields), NEW s, Holds(f, s, all)
    PROVE  LET y == SetField(x, f, s)
           IN  /\ y.desc = x.desc /\ y.unknown = x.unknown /\ y.val[f.name] = s
               /\ \A g \in Range(Schema[x.desc].fields) : g # f => y.val[g.name] = x.val[g.name]
               /\ Built(y, all)
<1> DEFINE y == SetField(x, f, s)
           F == Range(Schema[x.desc].fields)
           N == NamesOf(x.desc)
<1>1. /\ x.desc \in DOMAIN Schema
      /\ x = [desc |-> x.desc, unknown |-> x.unknown, val |-> x.val]
      /\ IsList(x.unknown)
      /\ x.val = [m \in N |-> x.val[m]]
      /\ \A g \in F : Holds(g, x.val[g.name], all)
  BY DEF Built
<1>2. \A g, k \in F : g.name = k.name => g = k
  BY <1>1, FieldsKnown
<1>3. \A g \in F : g.name \in N
  BY <1>1, FieldsKnown
<1>4. y = [desc |-> x.desc, unknown |-> x.unknown, val |-> [x.val EXCEPT ![f.name] = s]]
  <2> HIDE DEF N, F
  <2> QED
    BY <1>1 DEF SetField
<1>5. y.desc = x.desc /\ y.unknown = x.unknown /\ y.val = [x.val EXCEPT ![f.name] = s]
  <2> HIDE DEF y
  <2> QED
    BY <1>4
<1> HIDE DEF y, F, N
<1>6. y.val = [m \in N |-> IF m = f.name THEN s ELSE x.val[m]]
  BY <1>1, <1>5
<1>7. y.val[f.name] = s /\ \A g \in F : g # f => y.val[g.name] = x.val[g.name]
  BY <1>2, <1>3, <1>6 DEF F
<1>8. Built(y, all)
  <2>1. y = [desc |-> y.desc, unknown |-> y.unknown, val |-> y.val]
    BY <1>4, <1>5
  <2>2. y.val = [m \in NamesOf(y.desc) |-> y.val[m]]
    BY <1>5, <1>6 DEF N
  <2>3. \A g \in F : Holds(g, y.val[g.name], all)
    BY <1>1, <1>7
  <2> QED
    BY <1>1, <1>5, <2>1, <2>2, <2>3 DEF Built, F
<1> QED
  BY <1>5, <1>7, <1>8 DEF y, F

(* A message after a field was set: its blocks differ by those of the
   field. *)
FieldChanged(x, f, s, y, n, all) ==
    /\ y.desc = x.desc /\ y.unknown = x.unknown /\ y.val[f.name] = s
    /\ \A g \in Range(Schema[x.desc].fields) : g # f => y.val[g.name] = x.val[g.name]
    /\ Well(y, n, all)
    /\ Blocks(x) \in Nat /\ Blocks(y) \in Nat
    /\ Own(f, x.val[f.name]) \in Nat /\ Own(f, s) \in Nat
    /\ Blocks(y) = Blocks(x) - Own(f, x.val[f.name]) + Own(f, s)

(* Which is what setting a field does. *)
LEMMA FieldSet ==
    ASSUME NEW x, NEW n \in Nat, NEW all \in BOOLEAN, Well(x, n, all),
           NEW f \in Range(Schema[x.desc].fields), NEW s, Holds(f, s, all),
           f.type = "MESSAGE" => \A i \in 1 .. Len(s) : Well(s[i], n - 1, all)
    PROVE  FieldChanged(x, f, s, SetField(x, f, s), n, all)
<1> DEFINE y == SetField(x, f, s)
           F == Range(Schema[x.desc].fields)
<1>1. n # 0 /\ n - 1 \in Nat /\ (n - 1) + 1 = n /\ Built(x, all) /\ \A c \in Children(x) : Well(c, n - 1, all)
  <2>1. n # 0 /\ Built(x, all) /\ \A c \in Children(x) : Well(c, n - 1, all)
    BY WellFinite
  <2>2. n - 1 \in Nat /\ (n - 1) + 1 = n
    BY <2>1
  <2> QED
    BY <2>1, <2>2
<1>2. /\ y.desc = x.desc /\ y.unknown = x.unknown /\ y.val[f.name] = s
      /\ \A g \in F : g # f => y.val[g.name] = x.val[g.name]
      /\ Built(y, all)
  BY <1>1, FieldIsSet
<1> HIDE DEF y, F
<1>3. Well(y, n, all)
  <2> SUFFICES ASSUME NEW c \in Children(y) PROVE Well(c, n - 1, all)
    BY <1>1, <1>2, WellStep
  <2>1. PICK g \in F : g.type = "MESSAGE" /\ \E i \in 1 .. Len(y.val[g.name]) : c = y.val[g.name][i]
    BY <1>2, ChildrenAre DEF F
  <2>2. CASE g = f
    BY <1>2, <2>1, <2>2
  <2>3. CASE g # f
    <3>1. c \in Children(x)
      BY <1>1, <1>2, <2>1, <2>3, ChildrenAre DEF F
    <3> QED
      BY <1>1, <3>1
  <2> QED
    BY <2>2, <2>3
<1>4. Well(x, n, FALSE) /\ Well(y, n, FALSE)
  BY <1>3, WellLess
<1>5. /\ Blocks(x) = 1 + SumFunction(FieldsOwn(x)) + UnknownOwn(x.unknown)
      /\ Blocks(x) \in Nat /\ Numbers(FieldsOwn(x)) /\ UnknownOwn(x.unknown) \in Nat
      /\ Counted(f, x.val[f.name])
  BY <1>4, BlocksAre
<1>6. /\ Blocks(y) = 1 + SumFunction(FieldsOwn(y)) + UnknownOwn(x.unknown)
      /\ Blocks(y) \in Nat /\ Numbers(FieldsOwn(y))
      /\ Counted(f, s)
  BY <1>2, <1>4, BlocksAre
<1>7. /\ DOMAIN FieldsOwn(x) = F /\ DOMAIN FieldsOwn(y) = F /\ f \in F
      /\ FieldsOwn(x)[f] = Own(f, x.val[f.name]) /\ FieldsOwn(y)[f] = Own(f, s)
      /\ \A g \in F : g # f => FieldsOwn(y)[g] = FieldsOwn(x)[g]
  BY <1>2 DEF FieldsOwn, F
<1>8. /\ SumFunction(FieldsOwn(x)) \in Nat /\ SumFunction(FieldsOwn(y)) \in Nat
      /\ SumFunction(FieldsOwn(y)) = SumFunction(FieldsOwn(x)) - FieldsOwn(x)[f] + FieldsOwn(y)[f]
  BY <1>5, <1>6, <1>7, SumChanged
<1>9. Own(f, x.val[f.name]) \in Nat /\ Own(f, s) \in Nat
  BY <1>5, <1>6, OwnType
<1>10. Blocks(y) = Blocks(x) - Own(f, x.val[f.name]) + Own(f, s)
  <2>1. SumFunction(FieldsOwn(y)) = SumFunction(FieldsOwn(x)) - Own(f, x.val[f.name]) + Own(f, s)
    BY <1>7, <1>8
  <2>2. \A a, b, c, d, u \in Nat : b = a - c + d => 1 + b + u = (1 + a + u) - c + d
    OBVIOUS
  <2>3. /\ SumFunction(FieldsOwn(x)) \in Nat /\ SumFunction(FieldsOwn(y)) \in Nat
        /\ UnknownOwn(x.unknown) \in Nat
    BY <1>5, <1>8
  <2>4. Blocks(x) = 1 + SumFunction(FieldsOwn(x)) + UnknownOwn(x.unknown)
    BY <1>5
  <2>5. Blocks(y) = 1 + SumFunction(FieldsOwn(y)) + UnknownOwn(x.unknown)
    BY <1>6
  <2> QED
    BY <1>9, <2>1, <2>2, <2>3, <2>4, <2>5
<1> QED
  BY <1>2, <1>3, <1>5, <1>6, <1>9, <1>10 DEF y, F, FieldChanged

--------------------------------
(* One field of merge_messages *)

(* The heap has changed by what the two messages have. *)
Balanced(s, e, l, h) == s.h.live - Blocks(s.earlier) - Blocks(s.latter) = h.live - Blocks(e) - Blocks(l)

MergeState(s) == s = [earlier |-> s.earlier, latter |-> s.latter, h |-> s.h, ok |-> s.ok]

(* A state of merging: both messages well built, and every block in one of
   them. *)
MergeInv(s, e, l, h, n) ==
    /\ MergeState(s)
    /\ s.ok \in BOOLEAN /\ s.h \in Heaps /\ s.h.crashed = h.crashed
    /\ s.earlier.desc = l.desc /\ s.latter.desc = l.desc
    /\ Well(s.earlier, n, FALSE) /\ Well(s.latter, n, TRUE)
    /\ Balanced(s, e, l, h)

MergedOK(s, e, l, h) == \A n \in Nat : Well(e, n, TRUE) /\ Well(l, n, TRUE) => MergeInv(s, e, l, h, n)

(* The fields from i on are still as they were. *)
Ahead(s, e, l, i) ==
    \A j \in i .. Len(Schema[l.desc].fields) :
        LET name == Schema[l.desc].fields[j].name
        IN  s.earlier.val[name] = e.val[name] /\ s.latter.val[name] = l.val[name]

(* Merging keeps this for the messages in these two. *)
MergesInside(mg, e, l) ==
    \A a \in Children(e), b \in Children(l), h \in Heaps :
        a.desc = b.desc => MergedOK(mg[<<a, b, h>>], a, b, h)

SameInside(mg, mf, e, l) ==
    \A a \in Children(e), b \in Children(l), h \in Heaps :
        a.desc = b.desc => mg[<<a, b, h>>] = mf[<<a, b, h>>]

(* Moved, as a record, *)
LEMMA SetMoved ==
    ASSUME NEW s, MergeState(s), NEW f, NEW both, NEW h
    PROVE  Moved(s, f, both, h)
           = [earlier |-> SetField(s.earlier, f, <<>>), latter |-> SetField(s.latter, f, both),
              h |-> h, ok |-> s.ok]
<1>0. PICK x, y, g, k : s = [earlier |-> x, latter |-> y, h |-> g, ok |-> k]
  BY DEF MergeState
<1>1. Moved(s, f, both, h)
      = [earlier |-> SetField(x, f, <<>>), latter |-> SetField(y, f, both), h |-> h, ok |-> k]
  <2> DEFINE s1 == [s EXCEPT !.earlier.val[f.name] = <<>>]
             s2 == [s1 EXCEPT !.latter.val[f.name] = both]
  <2>1. s1 = [earlier |-> SetField(x, f, <<>>), latter |-> y, h |-> g, ok |-> k]
    BY ONLY <1>0 DEF SetField
  <2> HIDE DEF s1
  <2>2. s2 = [earlier |-> SetField(x, f, <<>>), latter |-> SetField(y, f, both), h |-> g, ok |-> k]
    BY ONLY <2>1 DEF SetField
  <2> HIDE DEF s2
  <2>3. [s2 EXCEPT !.h = h]
        = [earlier |-> SetField(x, f, <<>>), latter |-> SetField(y, f, both), h |-> h, ok |-> k]
    BY ONLY <2>2
  <2> QED
    BY ONLY <2>3 DEF Moved, s1, s2
<1>4. s.earlier = x /\ s.latter = y /\ s.h = g /\ s.ok = k
  BY ONLY <1>0
<1> QED
  BY ONLY <1>1, <1>4

(* MergedInside, as a record, *)
LEMMA SetInside ==
    ASSUME NEW s, MergeState(s), NEW f, NEW sub
    PROVE  MergedInside(s, f, sub)
           = [earlier |-> SetField(s.earlier, f, <<sub.earlier>>),
              latter |-> SetField(s.latter, f, <<sub.latter>>),
              h |-> sub.h, ok |-> sub.ok]
<1>0. PICK x, y, g, k : s = [earlier |-> x, latter |-> y, h |-> g, ok |-> k]
  BY DEF MergeState
<1>2. MergedInside(s, f, sub)
      = [earlier |-> SetField(x, f, <<sub.earlier>>), latter |-> SetField(y, f, <<sub.latter>>),
         h |-> sub.h, ok |-> sub.ok]
  <2> DEFINE s1 == [s EXCEPT !.earlier.val[f.name] = <<sub.earlier>>]
             s2 == [s1 EXCEPT !.latter.val[f.name] = <<sub.latter>>]
             s3 == [s2 EXCEPT !.h = sub.h]
  <2>1. s1 = [earlier |-> SetField(x, f, <<sub.earlier>>), latter |-> y, h |-> g, ok |-> k]
    BY ONLY <1>0 DEF SetField
  <2> HIDE DEF s1
  <2>2. s2 = [earlier |-> SetField(x, f, <<sub.earlier>>), latter |-> SetField(y, f, <<sub.latter>>),
              h |-> g, ok |-> k]
    BY ONLY <2>1 DEF SetField
  <2> HIDE DEF s2
  <2>3. s3 = [earlier |-> SetField(x, f, <<sub.earlier>>), latter |-> SetField(y, f, <<sub.latter>>),
              h |-> sub.h, ok |-> k]
    BY ONLY <2>2
  <2> HIDE DEF s3
  <2>4. [s3 EXCEPT !.ok = sub.ok]
        = [earlier |-> SetField(x, f, <<sub.earlier>>), latter |-> SetField(y, f, <<sub.latter>>),
           h |-> sub.h, ok |-> sub.ok]
    BY ONLY <2>3
  <2> QED
    BY ONLY <2>4 DEF MergedInside, s1, s2, s3
<1>4. s.earlier = x /\ s.latter = y /\ s.h = g /\ s.ok = k
  BY ONLY <1>0
<1> QED
  BY ONLY <1>2, <1>4

(* and merging stopped, as a record. *)
LEMMA SetStopped ==
    ASSUME NEW s, MergeState(s)
    PROVE  [s EXCEPT !.ok = FALSE]
           = [earlier |-> s.earlier, latter |-> s.latter, h |-> s.h, ok |-> FALSE]
<1>0. PICK x, y, g, k : s = [earlier |-> x, latter |-> y, h |-> g, ok |-> k]
  BY DEF MergeState
<1>3. [s EXCEPT !.ok = FALSE] = [earlier |-> x, latter |-> y, h |-> g, ok |-> FALSE]
  <2>1. PICK z : z = FALSE
    OBVIOUS
  <2>2. [s EXCEPT !.ok = z] = [earlier |-> x, latter |-> y, h |-> g, ok |-> z]
    BY ONLY <1>0
  <2> QED
    BY ONLY <2>1, <2>2, Zenon
<1>4. s.earlier = x /\ s.latter = y /\ s.h = g /\ s.ok = k
  BY ONLY <1>0
<1> QED
  BY ONLY <1>3, <1>4

(* The heap after an allocation, after a release, and when bytes after the
   end are read. *)
LEMMA AllocatedHeap ==
    ASSUME NEW h \in Heaps
    PROVE  /\ h.live \in Int /\ h.left \in Nat /\ h.crashed \in BOOLEAN
           /\ \A n \in Int : /\ do_free(h, n) \in Heaps /\ do_free(h, n).crashed = h.crashed
                             /\ do_free(h, n).live = h.live - n
           /\ CanAlloc(h) => /\ do_alloc(h) \in Heaps /\ do_alloc(h).crashed = h.crashed
                             /\ do_alloc(h).live = h.live + 1
           /\ Beyond(h) \in Heaps /\ Beyond(h).crashed = h.crashed /\ Beyond(h).live = h.live
           /\ Beyond(h).beyond = TRUE
<1>0. PICK a \in Int, b \in Nat, c \in BOOLEAN, o \in BOOLEAN :
          h = [live |-> a, left |-> b, crashed |-> c, beyond |-> o]
  BY DEF Heaps
<1>1. h.live = a /\ h.left = b /\ h.crashed = c
  BY <1>0
<1>2. ASSUME NEW n \in Int
      PROVE  /\ do_free(h, n) \in Heaps /\ do_free(h, n).crashed = h.crashed
             /\ do_free(h, n).live = h.live - n
  <2>1. do_free(h, n) = [live |-> a - n, left |-> b, crashed |-> c, beyond |-> o]
    BY <1>0 DEF do_free
  <2>2. a - n \in Int
    OBVIOUS
  <2> QED
    BY <1>1, <2>1, <2>2 DEF Heaps
<1>3. ASSUME CanAlloc(h)
      PROVE  /\ do_alloc(h) \in Heaps /\ do_alloc(h).crashed = h.crashed
             /\ do_alloc(h).live = h.live + 1
  <2>1. do_alloc(h) = [live |-> a + 1, left |-> b - 1, crashed |-> c, beyond |-> o]
    <3> DEFINE g == [h EXCEPT !.live = h.live + 1]
    <3>1. g = [live |-> a + 1, left |-> b, crashed |-> c, beyond |-> o]
      BY ONLY <1>0, <1>1
    <3> HIDE DEF g
    <3>2. [g EXCEPT !.left = h.left - 1] = [live |-> a + 1, left |-> b - 1, crashed |-> c, beyond |-> o]
      BY <1>1, <3>1
    <3> QED
      BY <3>2 DEF do_alloc, g
  <2>2. a + 1 \in Int /\ b - 1 \in Nat
    BY <1>1, <1>3 DEF CanAlloc
  <2> QED
    BY <1>1, <2>1, <2>2 DEF Heaps
<1>4. PICK z \in BOOLEAN : z = TRUE
  OBVIOUS
<1>5. Beyond(h) = [h EXCEPT !.beyond = z]
  BY <1>4, Zenon DEF Beyond
<1>6. [h EXCEPT !.beyond = z] = [live |-> a, left |-> b, crashed |-> c, beyond |-> z]
  BY ONLY <1>0
<1> QED
  BY <1>1, <1>2, <1>3, <1>4, <1>5, <1>6 DEF Heaps

(* A step of merging that sets one field in both messages. *)
BothAre(s, t, e, l, h, n, i, f, a, b) ==
    /\ MergeInv(s, e, l, h, n) /\ n \in Nat
    /\ h.live \in Int /\ Blocks(e) \in Nat /\ Blocks(l) \in Nat
    /\ i \in 1 .. Len(Schema[l.desc].fields) /\ l.desc \in DOMAIN Schema
    /\ Ahead(s, e, l, i) /\ f = Schema[l.desc].fields[i]
    /\ Holds(f, a, FALSE) /\ Holds(f, b, TRUE)
    /\ f.type = "MESSAGE" => \A k \in 1 .. Len(a) : Well(a[k], n - 1, FALSE)
    /\ f.type = "MESSAGE" => \A k \in 1 .. Len(b) : Well(b[k], n - 1, TRUE)
    /\ t = [earlier |-> SetField(s.earlier, f, a), latter |-> SetField(s.latter, f, b),
            h |-> t.h, ok |-> t.ok]
    /\ t.ok \in BOOLEAN /\ t.h \in Heaps /\ t.h.crashed = h.crashed
    /\ Own(f, a) \in Nat /\ Own(f, b) \in Nat =>
          t.h.live = s.h.live - Own(f, e.val[f.name]) - Own(f, l.val[f.name]) + Own(f, a) + Own(f, b)

(* One field set in both. *)
LEMMA BothSet ==
    ASSUME NEW s, NEW t, NEW e, NEW l, NEW h, NEW n, NEW i, NEW f, NEW a, NEW b,
           BothAre(s, t, e, l, h, n, i, f, a, b)
    PROVE  MergeInv(t, e, l, h, n) /\ Ahead(t, e, l, i + 1)
<1>0. /\ MergeInv(s, e, l, h, n) /\ n \in Nat
      /\ h.live \in Int /\ Blocks(e) \in Nat /\ Blocks(l) \in Nat
      /\ i \in 1 .. Len(Schema[l.desc].fields) /\ l.desc \in DOMAIN Schema
      /\ Ahead(s, e, l, i) /\ f = Schema[l.desc].fields[i]
      /\ Holds(f, a, FALSE) /\ Holds(f, b, TRUE)
      /\ f.type = "MESSAGE" => \A k \in 1 .. Len(a) : Well(a[k], n - 1, FALSE)
      /\ f.type = "MESSAGE" => \A k \in 1 .. Len(b) : Well(b[k], n - 1, TRUE)
      /\ t = [earlier |-> SetField(s.earlier, f, a), latter |-> SetField(s.latter, f, b),
              h |-> t.h, ok |-> t.ok]
      /\ t.ok \in BOOLEAN /\ t.h \in Heaps /\ t.h.crashed = h.crashed
      /\ Own(f, a) \in Nat /\ Own(f, b) \in Nat =>
            t.h.live = s.h.live - Own(f, e.val[f.name]) - Own(f, l.val[f.name]) + Own(f, a) + Own(f, b)
  BY DEF BothAre
<1> USE <1>0
<1> DEFINE fs == Schema[l.desc].fields
           x == SetField(s.earlier, f, a)
           y == SetField(s.latter, f, b)
<1>1. f \in Range(fs) /\ Len(fs) \in Nat /\ (\A j \in 1 .. Len(fs) : fs[j] \in Range(fs))
      /\ (\A j \in 1 .. Len(fs) : fs[j] = f => j = i)
  BY FieldsKnown
<1>2. /\ s.earlier.desc = l.desc /\ s.latter.desc = l.desc
      /\ Well(s.earlier, n, FALSE) /\ Well(s.latter, n, TRUE)
      /\ s.h.live - Blocks(s.earlier) - Blocks(s.latter) = h.live - Blocks(e) - Blocks(l)
      /\ s.h.live \in Int
  BY DEF MergeInv, Balanced, Heaps
<1>3. s.earlier.val[f.name] = e.val[f.name] /\ s.latter.val[f.name] = l.val[f.name]
  <2>1. i \in i .. Len(fs)
    BY <1>1, SMTT(60)
  <2> QED
    BY <2>1, Zenon DEF Ahead
<1>4. /\ x.desc = l.desc
      /\ \A g \in Range(fs) : g # f => x.val[g.name] = s.earlier.val[g.name]
      /\ Well(x, n, FALSE) /\ Blocks(s.earlier) \in Nat /\ Blocks(x) \in Nat
      /\ Own(f, e.val[f.name]) \in Nat /\ Own(f, a) \in Nat
      /\ Blocks(x) = Blocks(s.earlier) - Own(f, e.val[f.name]) + Own(f, a)
  <2>1. f \in Range(Schema[s.earlier.desc].fields) /\ Schema[s.earlier.desc].fields = fs
    BY <1>1, <1>2
  <2>2. Well(s.earlier, n, FALSE)
    BY <1>2
  <2>3. FieldChanged(s.earlier, f, a, x, n, FALSE)
    BY ONLY <2>1, <2>2, <1>0, FieldSet, n \in Nat, Holds(f, a, FALSE),
            f.type = "MESSAGE" => \A k \in 1 .. Len(a) : Well(a[k], n - 1, FALSE)
  <2> HIDE DEF fs
  <2> QED
    BY <1>2, <1>3, <2>1, <2>3 DEF FieldChanged
<1>5. /\ y.desc = l.desc
      /\ \A g \in Range(fs) : g # f => y.val[g.name] = s.latter.val[g.name]
      /\ Well(y, n, TRUE) /\ Blocks(s.latter) \in Nat /\ Blocks(y) \in Nat
      /\ Own(f, l.val[f.name]) \in Nat /\ Own(f, b) \in Nat
      /\ Blocks(y) = Blocks(s.latter) - Own(f, l.val[f.name]) + Own(f, b)
  <2>1. f \in Range(Schema[s.latter.desc].fields) /\ Schema[s.latter.desc].fields = fs
    BY <1>1, <1>2
  <2>2. Well(s.latter, n, TRUE)
    BY <1>2
  <2>3. FieldChanged(s.latter, f, b, y, n, TRUE)
    BY ONLY <2>1, <2>2, <1>0, FieldSet, n \in Nat, Holds(f, b, TRUE),
            f.type = "MESSAGE" => \A k \in 1 .. Len(b) : Well(b[k], n - 1, TRUE)
  <2> HIDE DEF fs
  <2> QED
    BY <1>2, <1>3, <2>1, <2>3 DEF FieldChanged
<1>6. t.earlier = x /\ t.latter = y
  <2> HIDE DEF x, y
  <2> QED
    BY DEF x, y
<1> HIDE DEF x, y
<1>7. t.h.live - Blocks(x) - Blocks(y) = h.live - Blocks(e) - Blocks(l)
  <2>1. t.h.live = s.h.live - Own(f, e.val[f.name]) - Own(f, l.val[f.name]) + Own(f, a) + Own(f, b)
    BY <1>4, <1>5, Zenon
  <2>2. /\ Own(f, e.val[f.name]) \in Nat /\ Own(f, a) \in Nat
        /\ Own(f, l.val[f.name]) \in Nat /\ Own(f, b) \in Nat
        /\ Blocks(s.latter) \in Nat /\ Blocks(s.earlier) \in Nat
        /\ Blocks(x) = Blocks(s.earlier) - Own(f, e.val[f.name]) + Own(f, a)
        /\ Blocks(y) = Blocks(s.latter) - Own(f, l.val[f.name]) + Own(f, b)
    BY <1>4, <1>5, Zenon
  <2>3. s.h.live - Blocks(s.earlier) - Blocks(s.latter) = h.live - Blocks(e) - Blocks(l)
        /\ s.h.live \in Int
    BY <1>2
  <2>4. t.h.live \in Int
    BY SMTT(60) DEF Heaps
  <2>5. h.live \in Int /\ Blocks(e) \in Nat /\ Blocks(l) \in Nat
    BY <1>0, SMTT(60)
  <2> QED
    BY ONLY <2>1, <2>2, <2>3, <2>4, <2>5, SMTT(30)
<1>8. MergeInv(t, e, l, h, n)
  <2>1. MergeState(t)
    <3>1. PICK g, k : t = [earlier |-> x, latter |-> y, h |-> g, ok |-> k]
      BY DEF x, y
    <3> QED
      BY ONLY <3>1 DEF MergeState
  <2>2. Balanced(t, e, l, h)
    BY <1>6, <1>7, SMTT(60) DEF Balanced
  <2> QED
    BY <1>0, <1>4, <1>5, <1>6, <2>1, <2>2, Zenon DEF MergeInv
<1>9. Ahead(t, e, l, i + 1)
  <2> SUFFICES ASSUME NEW j \in i + 1 .. Len(fs)
               PROVE  t.earlier.val[fs[j].name] = e.val[fs[j].name] /\ t.latter.val[fs[j].name] = l.val[fs[j].name]
    BY Zenon DEF Ahead
  <2>1. j \in 1 .. Len(fs) /\ j \in i .. Len(fs) /\ j # i
    BY <1>1
  <2>2. fs[j] \in Range(fs) /\ fs[j] # f
    BY <1>1, <2>1, SMTT(60)
  <2>3. s.earlier.val[fs[j].name] = e.val[fs[j].name] /\ s.latter.val[fs[j].name] = l.val[fs[j].name]
    BY <2>1, Zenon DEF Ahead
  <2> QED
    BY <1>4, <1>5, <1>6, <2>2, <2>3, ZenonT(60)
<1> QED
  BY <1>8, <1>9, Zenon

(* What is known of the value of a field. *)
HasValue(f, s, x, n) ==
    /\ Holds(f, s, TRUE) /\ Counted(f, s)
    /\ f.type = "MESSAGE" => \A k \in 1 .. Len(s) :
          Well(s[k], n - 1, TRUE) /\ s[k] \in Children(x) /\ s[k].desc = f.sub

(* What a field of a well built message holds. *)
LEMMA ValueOf ==
    ASSUME NEW x, NEW n \in Nat, Well(x, n, TRUE), NEW f \in Range(Schema[x.desc].fields)
    PROVE  HasValue(f, x.val[f.name], x, n)
<1>1. Built(x, TRUE) /\ \A c \in Children(x) : Well(c, n - 1, TRUE)
  BY WellFinite
<1>2. Well(x, n, FALSE)
  BY WellLess
<1>3. Counted(f, x.val[f.name])
  BY <1>2, BlocksAre
<1>4. Holds(f, x.val[f.name], TRUE)
  BY <1>1 DEF Built
<1>5. f.type = "MESSAGE" => \A k \in 1 .. Len(x.val[f.name]) : x.val[f.name][k] \in Children(x)
  BY <1>1, ChildrenAre
<1>6. f.type = "MESSAGE" => \A k \in 1 .. Len(x.val[f.name]) : x.val[f.name][k].desc = f.sub
  BY <1>4 DEF Holds
<1> QED
  BY <1>1, <1>3, <1>4, <1>5, <1>6 DEF HasValue

(* A field may hold nothing. *)
LEMMA Nothing ==
    ASSUME NEW f
    PROVE  /\ Holds(f, <<>>, FALSE) /\ Counted(f, <<>>) /\ Own(f, <<>>) = 0 /\ IsList(<<>>)
           /\ \A n, all : f.type = "MESSAGE" => \A k \in 1 .. Len(<<>>) : Well(<<>>[k], n, all)
<1>1. Len(<<>>) = 0 /\ 1 .. Len(<<>>) = {} /\ IsList(<<>>)
  BY DEF IsList
<1> QED
  BY <1>1, OwnNone DEF Holds, Counted

(* A list of one. *)
LEMMA Single ==
    ASSUME NEW s, IsList(s), Len(s) <= 1, s # <<>>
    PROVE  s = <<s[1]>> /\ 1 \in 1 .. Len(s) /\ Len(s) = 1
<1>1. PICK R : s \in Seq(R)
  BY DEF IsList
<1>2. Len(s) \in Nat /\ Len(s) # 0 /\ DOMAIN s = 1 .. Len(s)
  BY <1>1
<1>3. Len(s) = 1
  BY <1>2
<1>4. DOMAIN <<s[1]>> = 1 .. 1 /\ <<s[1]>>[1] = s[1]
  OBVIOUS
<1>5. s = [i \in 1 .. 1 |-> s[i]]
  BY <1>1, <1>3
<1>6. s = <<s[1]>>
  BY <1>5
<1> QED
  BY <1>3, <1>6

(* One value is a list. *)
LEMMA IsListOfOne ==
    ASSUME NEW v
    PROVE  IsList(<<v>>) /\ Len(<<v>>) = 1 /\ <<v>> # <<>> /\ <<v>>[1] = v
<1>1. <<v>> \in Seq({v}) /\ Len(<<v>>) = 1 /\ <<v>>[1] = v /\ Range(<<v>>) = {v}
  BY DEF Range
<1>2. <<v>> # <<>>
  OBVIOUS
<1> QED
  BY <1>1, <1>2 DEF IsList

(* A sequence is a list, whatever its elements are taken from. *)
LEMMA ListOf ==
    ASSUME NEW R, NEW s \in Seq(R)
    PROVE  IsList(s)
BY DEF IsList, Range

(* The elements of two lists, one after the other. *)
LEMMA Elements ==
    ASSUME NEW a, NEW b, IsList(a), IsList(b)
    PROVE  /\ IsList(a \o b) /\ Len(a \o b) = Len(a) + Len(b) /\ Len(a) \in Nat /\ Len(b) \in Nat
           /\ \A k \in 1 .. Len(a \o b) :
                 \/ \E i \in 1 .. Len(a) : (a \o b)[k] = a[i]
                 \/ \E i \in 1 .. Len(b) : (a \o b)[k] = b[i]
           /\ a # <<>> \/ b # <<>> => a \o b # <<>>
<1> DEFINE R == Range(a) \cup Range(b)
           s == a \o b
<1>1. a \in Seq(R) /\ b \in Seq(R)
  BY DEF IsList
<1> HIDE DEF R
<1>2. s \in Seq(R) /\ Len(s) = Len(a) + Len(b) /\ Len(a) \in Nat /\ Len(b) \in Nat
  BY <1>1
<1>3. \A k \in 1 .. Len(a) + Len(b) : s[k] = IF k <= Len(a) THEN a[k] ELSE b[k - Len(a)]
  BY <1>1
<1>4. a # <<>> => Len(a) # 0
  BY <1>1
<1>5. b # <<>> => Len(b) # 0
  BY <1>1
<1>6. Len(<<>>) = 0
  OBVIOUS
<1> HIDE DEF s
<1>7. IsList(s)
  BY <1>2, ListOf
<1>8. ASSUME NEW k \in 1 .. Len(s)
      PROVE  (\E i \in 1 .. Len(a) : s[k] = a[i]) \/ \E i \in 1 .. Len(b) : s[k] = b[i]
  <2>1. CASE k <= Len(a)
    BY <1>2, <1>3, <2>1
  <2>2. CASE ~(k <= Len(a))
    <3>1. k - Len(a) \in 1 .. Len(b)
      BY <1>2, <2>2
    <3> QED
      BY <1>2, <1>3, <2>2, <3>1
  <2> QED
    BY <2>1, <2>2
<1> QED
  BY <1>2, <1>4, <1>5, <1>6, <1>7, <1>8 DEF s

(* Repeated values, one after the other, in one array instead of two. *)
LEMMA RepeatedJoined ==
    ASSUME NEW f, f.label = "repeated", NEW a, NEW b, a # <<>>, b # <<>>,
           NEW x, NEW y, NEW n, HasValue(f, a, x, n), HasValue(f, b, y, n)
    PROVE  /\ Holds(f, a \o b, TRUE)
           /\ f.type = "MESSAGE" => \A k \in 1 .. Len(a \o b) : Well((a \o b)[k], n - 1, TRUE)
           /\ Own(f, a) \in Nat /\ Own(f, b) \in Nat /\ Own(f, a \o b) = Own(f, a) + Own(f, b) - 1
<1>1. IsList(a) /\ IsList(b) /\ Counted(f, a) /\ Counted(f, b)
  BY DEF HasValue, Holds
<1>2. IsList(a \o b) /\ a \o b # <<>>
  BY <1>1, Elements
<1>3. \A k \in 1 .. Len(a \o b) :
         \/ \E i \in 1 .. Len(a) : (a \o b)[k] = a[i]
         \/ \E i \in 1 .. Len(b) : (a \o b)[k] = b[i]
  BY <1>1, Elements
<1>4. Counted(f, a \o b) /\ ValuesOwn(f, a \o b) = ValuesOwn(f, a) + ValuesOwn(f, b)
  BY <1>1, OwnJoined
<1> DEFINE s == a \o b
<1> HIDE DEF s
<1>5. f.type = "MESSAGE" => \A k \in 1 .. Len(s) : Well(s[k], n - 1, TRUE) /\ s[k].desc = f.sub
  BY <1>3 DEF HasValue, s
<1>6. Holds(f, s, TRUE)
  BY <1>2, <1>5 DEF Holds, Wanted, s
<1>7. ValuesOwn(f, a) \in Nat /\ ValuesOwn(f, b) \in Nat
  BY <1>1, OwnType
<1>8. Own(f, a) = ValuesOwn(f, a) + 1 /\ Own(f, b) = ValuesOwn(f, b) + 1 /\ Own(f, s) = ValuesOwn(f, s) + 1
  BY <1>2 DEF Own, ArrayOwn, s
<1>10. Own(f, a) \in Nat /\ Own(f, b) \in Nat
  BY <1>7, <1>8
<1>9. Own(f, s) = Own(f, a) + Own(f, b) - 1
  BY <1>4, <1>7, <1>8 DEF s
<1> QED
  BY <1>5, <1>6, <1>9, <1>10 DEF s

(* Merging one field keeps every block in one of the messages. *)
LEMMA MergeFieldKeeps ==
    ASSUME NEW n \in Nat, NEW e, NEW l, NEW h \in Heaps, e.desc = l.desc,
           Well(e, n, TRUE), Well(l, n, TRUE),
           NEW i \in 1 .. Len(Schema[l.desc].fields), NEW s,
           MergeInv(s, e, l, h, n), Ahead(s, e, l, i), NEW mg, MergesInside(mg, e, l)
    PROVE  LET t == MergeField(mg, s, Schema[l.desc].fields[i])
           IN  MergeInv(t, e, l, h, n) /\ Ahead(t, e, l, i + 1)
<1> DEFINE fs == Schema[l.desc].fields
           f == fs[i]
           ev == e.val[f.name]
           lv == l.val[f.name]
           t == MergeField(mg, s, f)
<1> SUFFICES MergeInv(t, e, l, h, n) /\ Ahead(t, e, l, i + 1)
  OBVIOUS
<1>1. /\ l.desc \in DOMAIN Schema /\ f \in Range(fs) /\ Len(fs) \in Nat
      /\ h.live \in Int /\ Blocks(e) \in Nat /\ Blocks(l) \in Nat /\ n # 0
  <2>1. Well(e, n, FALSE) /\ Well(l, n, FALSE) /\ Built(l, TRUE) /\ n # 0
    BY WellLess, WellFinite
  <2>2. Blocks(e) \in Nat /\ Blocks(l) \in Nat
    BY <2>1, BlocksAre
  <2>3. l.desc \in DOMAIN Schema
    BY <2>1 DEF Built
  <2> QED
    BY <2>1, <2>2, <2>3, FieldsKnown, AllocatedHeap
<1>2. HasValue(f, ev, e, n) /\ HasValue(f, lv, l, n)
  BY <1>1, ValueOf
<1>3. /\ MergeState(s)
      /\ s.h \in Heaps /\ s.h.crashed = h.crashed /\ s.ok \in BOOLEAN
      /\ s.earlier.desc = l.desc /\ s.latter.desc = l.desc
      /\ Well(s.earlier, n, FALSE) /\ Well(s.latter, n, TRUE)
      /\ Balanced(s, e, l, h)
  BY DEF MergeInv
<1>4. s.earlier.val[f.name] = ev /\ s.latter.val[f.name] = lv
  <2>1. i \in i .. Len(fs)
    BY <1>1
  <2> QED
    BY <2>1, SMTT(60) DEF Ahead
<1>5. Ahead(s, e, l, i + 1)
  <2>1. \A j \in i + 1 .. Len(fs) : j \in i .. Len(fs)
    BY <1>1
  <2> HIDE DEF f
  <2> QED
    BY <2>1 DEF Ahead
<1>0. f = Schema[l.desc].fields[i] /\ fs = Schema[l.desc].fields /\ ev = e.val[f.name] /\ lv = l.val[f.name]
  OBVIOUS
<1> HIDE DEF ev, lv, f, fs, t
<1>6. CASE t = s
  BY <1>5, <1>6
<1>7. CASE t = [s EXCEPT !.ok = FALSE]
  <2>1. t = [earlier |-> s.earlier, latter |-> s.latter, h |-> s.h, ok |-> FALSE]
    BY <1>3, <1>7, SetStopped
  <2>2. t.earlier = s.earlier /\ t.latter = s.latter /\ t.h = s.h /\ t.ok = FALSE
    BY <2>1
  <2>3. t = [earlier |-> t.earlier, latter |-> t.latter, h |-> t.h, ok |-> t.ok]
    BY <2>1, <2>2
  <2>4. Balanced(t, e, l, h)
    BY <1>3, <2>2 DEF Balanced
  <2>5. MergeInv(t, e, l, h, n)
    BY <1>3, <2>2, <2>3, <2>4 DEF MergeInv, MergeState
  <2>6. t.earlier = s.earlier /\ t.latter = s.latter
    BY ONLY <2>2
  <2>7. Ahead(t, e, l, i + 1)
    <3> SUFFICES ASSUME NEW j \in i + 1 .. Len(Schema[l.desc].fields)
                 PROVE  /\ t.earlier.val[Schema[l.desc].fields[j].name] = e.val[Schema[l.desc].fields[j].name]
                        /\ t.latter.val[Schema[l.desc].fields[j].name] = l.val[Schema[l.desc].fields[j].name]
      BY Zenon DEF Ahead
    <3>1. /\ s.earlier.val[Schema[l.desc].fields[j].name] = e.val[Schema[l.desc].fields[j].name]
          /\ s.latter.val[Schema[l.desc].fields[j].name] = l.val[Schema[l.desc].fields[j].name]
      BY ONLY <1>5, j \in i + 1 .. Len(Schema[l.desc].fields), Zenon DEF Ahead
    <3> QED
      BY ONLY <2>6, <3>1, Zenon
  <2> QED
    BY <2>5, <2>7
<1>8. CASE ev # <<>> /\ Own(f, lv) = 0 /\ t = Moved(s, f, ev, s.h)
  <2>1. t = [earlier |-> SetField(s.earlier, f, <<>>), latter |-> SetField(s.latter, f, ev), h |-> s.h, ok |-> s.ok]
    <3>2. Moved(s, f, ev, s.h)
          = [earlier |-> SetField(s.earlier, f, <<>>), latter |-> SetField(s.latter, f, ev), h |-> s.h, ok |-> s.ok]
      BY <1>3, SetMoved
    <3> QED
      BY <1>8, <3>2
  <2>2. t.h = s.h /\ t.ok = s.ok
    BY <2>1
  <2>3. t = [earlier |-> SetField(s.earlier, f, <<>>), latter |-> SetField(s.latter, f, ev), h |-> t.h, ok |-> t.ok]
    BY <2>1, <2>2
  <2>4. s.h.live \in Int /\ Own(f, <<>>) = 0
    BY <1>3, AllocatedHeap, Nothing
  <2>5. Own(f, ev) \in Nat => s.h.live = s.h.live - Own(f, ev) - Own(f, lv) + Own(f, <<>>) + Own(f, ev)
    BY <1>8, <2>4
  <2>6. Holds(f, ev, TRUE) /\ (f.type = "MESSAGE" => \A k \in 1 .. Len(ev) : Well(ev[k], n - 1, TRUE))
    BY <1>2 DEF HasValue
  <2>7. Holds(f, <<>>, FALSE) /\ (f.type = "MESSAGE" => \A k \in 1 .. Len(<<>>) : Well(<<>>[k], n - 1, FALSE))
    BY Nothing
  <2> QED
    <3>1. BothAre(s, t, e, l, h, n, i, f, <<>>, ev)
      BY <1>0, <1>1, <1>3, <2>2, <2>3, <2>5, <2>6, <2>7, Zenon DEF BothAre
    <3> QED
      BY <3>1, BothSet
<1>9. CASE /\ f.label = "repeated" /\ ev # <<>> /\ lv # <<>> /\ CanAlloc(s.h)
           /\ t = Moved(s, f, ev \o lv, do_free(do_alloc(s.h), 2))
  <2> DEFINE both == ev \o lv
             g == do_free(do_alloc(s.h), 2)
  <2>1. t = [earlier |-> SetField(s.earlier, f, <<>>), latter |-> SetField(s.latter, f, both), h |-> g, ok |-> s.ok]
    <3>1. Moved(s, f, both, g)
          = [earlier |-> SetField(s.earlier, f, <<>>), latter |-> SetField(s.latter, f, both), h |-> g, ok |-> s.ok]
      BY <1>3, SetMoved
    <3> QED
      BY <1>9, <3>1
  <2>2. s.h.live \in Int /\ g \in Heaps /\ g.crashed = h.crashed /\ g.live = s.h.live - 1
    <3>1. /\ s.h.live \in Int /\ do_alloc(s.h) \in Heaps /\ do_alloc(s.h).crashed = h.crashed
          /\ do_alloc(s.h).live = s.h.live + 1
      BY <1>3, <1>9, AllocatedHeap
    <3>2. g \in Heaps /\ g.crashed = h.crashed /\ g.live = do_alloc(s.h).live - 2
      <4>1. do_alloc(s.h) \in Heaps /\ 2 \in Int
        BY <3>1
      <4>2. /\ g \in Heaps /\ g.crashed = do_alloc(s.h).crashed
            /\ g.live = do_alloc(s.h).live - 2
        BY ONLY <4>1, AllocatedHeap
      <4> QED
        BY <3>1, <4>2
    <3> QED
      BY <3>1, <3>2
  <2>3. /\ Holds(f, both, TRUE)
        /\ f.type = "MESSAGE" => \A k \in 1 .. Len(both) : Well(both[k], n - 1, TRUE)
        /\ Own(f, ev) \in Nat /\ Own(f, lv) \in Nat /\ Own(f, both) = Own(f, ev) + Own(f, lv) - 1
    BY <1>2, <1>9, RepeatedJoined
  <2> HIDE DEF both, g
  <2>4. t.h = g /\ t.ok = s.ok
    BY <2>1
  <2>5. t = [earlier |-> SetField(s.earlier, f, <<>>), latter |-> SetField(s.latter, f, both), h |-> t.h, ok |-> t.ok]
    BY <2>1, <2>4
  <2>6. t.h.live = s.h.live - Own(f, ev) - Own(f, lv) + Own(f, <<>>) + Own(f, both)
    <3>1. Own(f, <<>>) = 0
      BY Nothing
    <3> QED
      BY <2>2, <2>3, <2>4, <3>1, SMTT(60)
  <2>7. Holds(f, <<>>, FALSE) /\ (f.type = "MESSAGE" => \A k \in 1 .. Len(<<>>) : Well(<<>>[k], n - 1, FALSE))
    BY Nothing
  <2>8. BothAre(s, t, e, l, h, n, i, f, <<>>, both)
    BY <1>0, <1>1, <1>3, <2>2, <2>3, <2>4, <2>5, <2>6, <2>7, Zenon DEF BothAre
  <2> QED
    BY <2>8, BothSet
<1>10. CASE /\ f.type = "MESSAGE" /\ f.label # "repeated" /\ ev # <<>> /\ lv # <<>>
            /\ t = MergedInside(s, f, mg[<<ev[1], lv[1], s.h>>])
  <2> DEFINE a == ev[1]
             b == lv[1]
             sub == mg[<<a, b, s.h>>]
  <2>1. IsList(ev) /\ IsList(lv) /\ Len(ev) <= 1 /\ Len(lv) <= 1
    BY <1>2, <1>10 DEF HasValue, Holds
  <2>2. /\ ev = <<a>> /\ 1 \in 1 .. Len(ev) /\ lv = <<b>> /\ 1 \in 1 .. Len(lv)
    BY <1>10, <2>1, Single
  <2>3. /\ Well(a, n - 1, TRUE) /\ a \in Children(e) /\ a.desc = f.sub
        /\ Well(b, n - 1, TRUE) /\ b \in Children(l) /\ b.desc = f.sub
    BY <1>2, <1>10, <2>2 DEF HasValue
  <2>4. t = [earlier |-> SetField(s.earlier, f, <<sub.earlier>>),
             latter |-> SetField(s.latter, f, <<sub.latter>>), h |-> sub.h, ok |-> sub.ok]
    <3>1. MergedInside(s, f, sub)
          = [earlier |-> SetField(s.earlier, f, <<sub.earlier>>),
             latter |-> SetField(s.latter, f, <<sub.latter>>), h |-> sub.h, ok |-> sub.ok]
      BY <1>3, SetInside
    <3> QED
      BY <1>10, <3>1
  <2> HIDE DEF sub, a, b
  <2>5. n - 1 \in Nat
    BY <1>1
  <2>6. MergeInv(sub, a, b, s.h, n - 1)
    <3>1. MergedOK(sub, a, b, s.h)
      BY <1>3, <2>3 DEF MergesInside, sub
    <3> QED
      BY <2>3, <2>5, <3>1 DEF MergedOK
  <2>7. /\ sub.ok \in BOOLEAN /\ sub.h \in Heaps /\ sub.h.crashed = h.crashed
        /\ sub.earlier.desc = f.sub /\ sub.latter.desc = f.sub
        /\ Well(sub.earlier, n - 1, FALSE) /\ Well(sub.latter, n - 1, TRUE)
        /\ sub.h.live - Blocks(sub.earlier) - Blocks(sub.latter) = s.h.live - Blocks(a) - Blocks(b)
    BY <1>3, <2>3, <2>6 DEF MergeInv, Balanced
  <2>8. Well(sub.latter, n - 1, FALSE) /\ Well(a, n - 1, FALSE) /\ Well(b, n - 1, FALSE)
    BY <2>3, <2>7, WellLess
  <2>9. Blocks(sub.earlier) \in Nat /\ Blocks(sub.latter) \in Nat /\ Blocks(a) \in Nat /\ Blocks(b) \in Nat
    BY <2>5, <2>7, <2>8, BlocksAre
  <2>10. \A v : Blocks(v) \in Nat => Own(f, <<v>>) = Blocks(v)
    <3> SUFFICES ASSUME NEW v, Blocks(v) \in Nat PROVE Own(f, <<v>>) = Blocks(v)
      OBVIOUS
    <3>1. ValuesOwn(f, <<v>>) = Blocks(v)
      BY <1>10, OwnOne DEF ValueOwn
    <3>2. ArrayOwn(f, <<v>>) = 0
      BY <1>10 DEF ArrayOwn
    <3> QED
      BY <3>1, <3>2 DEF Own
  <2>11. \A v, all : v.desc = f.sub => Holds(f, <<v>>, all)
    <3> SUFFICES ASSUME NEW v, NEW all, v.desc = f.sub PROVE Holds(f, <<v>>, all)
      OBVIOUS
    <3>1. IsList(<<v>>) /\ Len(<<v>>) = 1 /\ <<v>> # <<>> /\ <<v>>[1] = v
      BY IsListOfOne
    <3>2. \A k \in 1 .. Len(<<v>>) : k = 1
      BY <3>1
    <3> QED
      BY <1>10, <3>1, <3>2 DEF Holds
  <2>12. \A v, all : Well(v, n - 1, all) => \A k \in 1 .. Len(<<v>>) : Well(<<v>>[k], n - 1, all)
    <3> SUFFICES ASSUME NEW v, NEW all, Well(v, n - 1, all), NEW k \in 1 .. Len(<<v>>)
                 PROVE  Well(<<v>>[k], n - 1, all)
      OBVIOUS
    <3>1. Len(<<v>>) = 1 /\ <<v>>[1] = v
      OBVIOUS
    <3>2. k = 1
      BY <3>1
    <3> QED
      BY <3>1, <3>2
  <2>13. t.h = sub.h /\ t.ok = sub.ok
    BY <2>4
  <2>14. t = [earlier |-> SetField(s.earlier, f, <<sub.earlier>>),
              latter |-> SetField(s.latter, f, <<sub.latter>>), h |-> t.h, ok |-> t.ok]
    BY <2>4, <2>13
  <2>15. t.h.live = s.h.live - Own(f, ev) - Own(f, lv) + Own(f, <<sub.earlier>>) + Own(f, <<sub.latter>>)
    <3>1. /\ Own(f, ev) = Blocks(a) /\ Own(f, lv) = Blocks(b)
          /\ Own(f, <<sub.earlier>>) = Blocks(sub.earlier) /\ Own(f, <<sub.latter>>) = Blocks(sub.latter)
      BY <2>2, <2>9, <2>10
    <3>2. s.h.live \in Int /\ sub.h.live \in Int
      BY <1>3, <2>7, AllocatedHeap
    <3> QED
      BY <2>7, <2>9, <2>13, <3>1, <3>2
  <2>16. Holds(f, <<sub.earlier>>, FALSE) /\ Holds(f, <<sub.latter>>, TRUE)
    BY <2>7, <2>11
  <2>17. /\ \A k \in 1 .. Len(<<sub.earlier>>) : Well(<<sub.earlier>>[k], n - 1, FALSE)
         /\ \A k \in 1 .. Len(<<sub.latter>>) : Well(<<sub.latter>>[k], n - 1, TRUE)
    BY <2>7, <2>12
  <2> DEFINE x == <<sub.earlier>>
             y == <<sub.latter>>
  <2> HIDE DEF x, y
  <2>18. BothAre(s, t, e, l, h, n, i, f, x, y)
    BY <1>0, <1>1, <1>3, <2>7, <2>13, <2>14, <2>15, <2>16, <2>17 DEF BothAre, x, y
  <2> QED
    BY <2>18, BothSet
<1>12. Own(f, <<>>) = 0
  BY Nothing
<1>13. f.type = "BYTES" /\ f.label = "optional" => Own(f, <<<<>>>>) = 0
  <2> DEFINE v == <<>>
  <2>1. DataBlocks(f, v) \in Nat /\ (f.type = "BYTES" => DataBlocks(f, v) = 0)
    BY DEF DataBlocks
  <2>2. f.type = "BYTES" => ValuesOwn(f, <<v>>) = DataBlocks(f, v)
    <3> HIDE DEF v
    <3> QED
      BY OwnOne DEF ValueOwn
  <2> QED
    BY <2>1, <2>2 DEF Own, ArrayOwn
<1>11. \/ t = s
       \/ t = [s EXCEPT !.ok = FALSE]
       \/ ev # <<>> /\ Own(f, lv) = 0 /\ t = Moved(s, f, ev, s.h)
       \/ /\ f.label = "repeated" /\ ev # <<>> /\ lv # <<>> /\ CanAlloc(s.h)
          /\ t = Moved(s, f, ev \o lv, do_free(do_alloc(s.h), 2))
       \/ /\ f.type = "MESSAGE" /\ f.label # "repeated" /\ ev # <<>> /\ lv # <<>>
          /\ t = MergedInside(s, f, mg[<<ev[1], lv[1], s.h>>])
  BY <1>4, <1>12, <1>13 DEF MergeField, NeedToMerge, t
<1> QED
  BY <1>6, <1>7, <1>8, <1>9, <1>10, <1>11 DEF f, fs, t

--------------------------------
(* All fields of two messages *)

(* Two ways to merge what is inside do the same to a field. *)
SameField(mg, mf, s, l, i) ==
    MergeField(mg, s, Schema[l.desc].fields[i]) = MergeField(mf, s, Schema[l.desc].fields[i])

(* They do when they agree on the messages directly inside. *)
LEMMA MergeFieldSame ==
    ASSUME NEW n \in Nat, NEW e, NEW l, NEW h, Well(e, n, TRUE), Well(l, n, TRUE), e.desc = l.desc,
           NEW i \in 1 .. Len(Schema[l.desc].fields), NEW s,
           MergeInv(s, e, l, h, n), Ahead(s, e, l, i), NEW mg, NEW mf, SameInside(mg, mf, e, l)
    PROVE  SameField(mg, mf, s, l, i)
<1> DEFINE fs == Schema[l.desc].fields
           f == fs[i]
           ev == e.val[f.name]
           lv == l.val[f.name]
<1>1. f \in Range(fs) /\ Len(fs) \in Nat
  <2>1. Built(l, TRUE)
    BY WellFinite
  <2> QED
    BY <2>1, FieldsKnown DEF Built
<1>2. HasValue(f, ev, e, n) /\ HasValue(f, lv, l, n)
  BY <1>1, ValueOf
<1>3. s.earlier.val[f.name] = ev /\ s.latter.val[f.name] = lv
  <2>1. i \in i .. Len(fs)
    BY <1>1
  <2> QED
    BY <2>1 DEF Ahead
<1>4. s.h \in Heaps
  BY DEF MergeInv
<1> HIDE DEF ev, lv, f, fs
<1>5. ASSUME f.type = "MESSAGE", f.label # "repeated", ev # <<>>, lv # <<>>
      PROVE  mg[<<ev[1], lv[1], s.h>>] = mf[<<ev[1], lv[1], s.h>>]
  <2>1. IsList(ev) /\ IsList(lv) /\ Len(ev) <= 1 /\ Len(lv) <= 1
    BY <1>2, <1>5 DEF HasValue, Holds
  <2>2. 1 \in 1 .. Len(ev) /\ 1 \in 1 .. Len(lv)
    BY <1>5, <2>1, Single
  <2>3. ev[1] \in Children(e) /\ ev[1].desc = f.sub /\ lv[1] \in Children(l) /\ lv[1].desc = f.sub
    BY <1>2, <1>5, <2>2 DEF HasValue
  <2> QED
    BY <1>4, <2>3 DEF SameInside
<1>6. MergeField(mg, s, f) = MergeField(mf, s, f)
  BY <1>3, <1>5 DEF MergeField
<1> QED
  BY <1>6 DEF f, fs, SameField

MergeStep(mg, e, l, h, m, i) ==
    IF i = 0 THEN [earlier |-> e, latter |-> l, h |-> h, ok |-> TRUE]
    ELSE MergeField(mg, m[i - 1], Schema[l.desc].fields[i])
IsMerged(mg, e, l, h, m) ==
    m = [i \in 0 .. Len(Schema[l.desc].fields) |-> MergeStep(mg, e, l, h, m, i)]

(* MergeFields is a function of the number of fields, when there is one. *)
LEMMA MergeFieldsIs ==
    ASSUME NEW mg, NEW e, NEW l, NEW h
    PROVE  MergeFields(mg, e, l, h)
           = (CHOOSE m : IsMerged(mg, e, l, h, m))[Len(Schema[l.desc].fields)]
BY DEF MergeFields, IsMerged, MergeStep

(* There is such a function. *)
LEMMA MergedExists ==
    ASSUME NEW mg, NEW e, NEW l, NEW h, l.desc \in DOMAIN Schema
    PROVE  \E m : IsMerged(mg, e, l, h, m)
<1> DEFINE T == {k \in Nat : \E m : m = [i \in 0 .. k |-> MergeStep(mg, e, l, h, m, i)]}
<1>1. 0 \in T
  <2> DEFINE m == [i \in 0 .. 0 |-> MergeStep(mg, e, l, h, <<>>, 0)]
  <2>1. \A i \in 0 .. 0 : MergeStep(mg, e, l, h, m, i) = MergeStep(mg, e, l, h, <<>>, 0)
    BY DEF MergeStep
  <2>2. m = [i \in 0 .. 0 |-> MergeStep(mg, e, l, h, m, i)]
    BY <2>1
  <2> HIDE DEF m
  <2> QED
    BY <2>2
<1>2. ASSUME NEW k \in Nat, k \in T PROVE k + 1 \in T
  <2>1. PICK m : m = [i \in 0 .. k |-> MergeStep(mg, e, l, h, m, i)]
    BY <1>2
  <2> DEFINE t == [i \in 0 .. k + 1 |-> IF i \in 0 .. k THEN m[i] ELSE MergeStep(mg, e, l, h, m, k + 1)]
  <2>2. \A i \in 0 .. k : t[i] = m[i] /\ m[i] = MergeStep(mg, e, l, h, m, i)
    BY <2>1
  <2>3. t[k + 1] = MergeStep(mg, e, l, h, m, k + 1)
    OBVIOUS
  <2>4. DOMAIN t = 0 .. k + 1 /\ t = [i \in 0 .. k + 1 |-> t[i]]
    OBVIOUS
  <2> HIDE DEF t
  <2>5. \A i \in 0 .. k + 1 : MergeStep(mg, e, l, h, t, i) = MergeStep(mg, e, l, h, m, i)
    <3> SUFFICES ASSUME NEW i \in 0 .. k + 1, i # 0
                 PROVE  MergeStep(mg, e, l, h, t, i) = MergeStep(mg, e, l, h, m, i)
      BY DEF MergeStep
    <3>1. i - 1 \in 0 .. k
      OBVIOUS
    <3>2. t[i - 1] = m[i - 1]
      BY <2>2, <3>1
    <3> QED
      BY <3>2 DEF MergeStep
  <2>6. \A i \in 0 .. k + 1 : i \in 0 .. k \/ i = k + 1
    OBVIOUS
  <2>7. \A i \in 0 .. k + 1 : t[i] = MergeStep(mg, e, l, h, t, i)
    BY <2>2, <2>3, <2>5, <2>6
  <2>8. t = [i \in 0 .. k + 1 |-> MergeStep(mg, e, l, h, t, i)]
    BY <2>4, <2>7
  <2>9. k + 1 \in Nat
    OBVIOUS
  <2> QED
    BY <2>8, <2>9
<1>3. Len(Schema[l.desc].fields) \in T
  <2>1. Len(Schema[l.desc].fields) \in Nat
    BY FieldsKnown
  <2> HIDE DEF T
  <2> QED
    BY <1>1, <1>2, <2>1, SetInduction
<1> QED
  BY <1>3 DEF IsMerged

(* It keeps every block in one of the messages. *)
LEMMA MergedKeeps ==
    ASSUME NEW n \in Nat, NEW e, NEW l, NEW h \in Heaps, e.desc = l.desc,
           Well(e, n, TRUE), Well(l, n, TRUE), NEW mg, MergesInside(mg, e, l),
           NEW m, IsMerged(mg, e, l, h, m)
    PROVE  \A i \in 0 .. Len(Schema[l.desc].fields) : MergeInv(m[i], e, l, h, n) /\ Ahead(m[i], e, l, i + 1)
<1> DEFINE fs == Schema[l.desc].fields
           N == Len(fs)
           T == {i \in Nat : i <= N => MergeInv(m[i], e, l, h, n) /\ Ahead(m[i], e, l, i + 1)}
<1>1. N \in Nat
  <2>1. Built(l, TRUE)
    BY WellFinite
  <2> QED
    BY <2>1, FieldsKnown DEF Built
<1>2. \A i \in 0 .. N : m[i] = MergeStep(mg, e, l, h, m, i)
  BY DEF IsMerged
<1> HIDE DEF fs, N
<1>3. 0 \in T
  <2> DEFINE s == [earlier |-> e, latter |-> l, h |-> h, ok |-> TRUE]
  <2>1. m[0] = s
    <3>1. 0 \in 0 .. N
      BY <1>1
    <3>2. MergeStep(mg, e, l, h, m, 0) = s
      BY DEF MergeStep
    <3> HIDE DEF s
    <3> QED
      BY <1>2, <3>1, <3>2
  <2>2. MergeState(s)
    BY DEF MergeState
  <2>3. Well(e, n, FALSE)
    BY WellLess
  <2>4. MergeInv(s, e, l, h, n)
    BY <2>2, <2>3 DEF MergeInv, Balanced
  <2>5. Ahead(s, e, l, 1)
    BY DEF Ahead
  <2> HIDE DEF s
  <2>6. 0 + 1 = 1
    OBVIOUS
  <2> QED
    BY <2>1, <2>4, <2>5, <2>6
<1>4. ASSUME NEW i \in Nat, i \in T PROVE i + 1 \in T
  <2> SUFFICES ASSUME i + 1 <= N PROVE MergeInv(m[i + 1], e, l, h, n) /\ Ahead(m[i + 1], e, l, (i + 1) + 1)
    OBVIOUS
  <2>1. i <= N /\ i + 1 \in 1 .. N /\ i + 1 \in 0 .. N /\ (i + 1) - 1 = i /\ i + 1 # 0
    BY <1>1
  <2>2. MergeInv(m[i], e, l, h, n) /\ Ahead(m[i], e, l, i + 1)
    BY <1>4, <2>1
  <2>3. m[i + 1] = MergeField(mg, m[i], fs[i + 1])
    BY <1>2, <2>1 DEF MergeStep, fs
  <2> DEFINE j == i + 1
             s == m[i]
  <2>4. j \in 1 .. Len(Schema[l.desc].fields)
    BY <2>1 DEF N, fs
  <2> HIDE DEF j, s, T
  <2>5. MergeInv(s, e, l, h, n) /\ Ahead(s, e, l, j)
    BY <2>2 DEF s, j
  <2>6. LET t == MergeField(mg, s, Schema[l.desc].fields[j]) IN MergeInv(t, e, l, h, n) /\ Ahead(t, e, l, j + 1)
    BY <2>4, <2>5, MergeFieldKeeps
  <2> QED
    BY <2>3, <2>6 DEF j, s, fs
<1>5. Nat \subseteq T
  <2> HIDE DEF T
  <2> QED
    BY <1>3, <1>4, SetInduction
<1>6. \A i \in 0 .. N : i \in Nat /\ i <= N
  BY <1>1
<1> QED
  BY <1>5, <1>6 DEF N, fs

(* And so merging all fields does. *)
LEMMA MergeFieldsKeeps ==
    ASSUME NEW e, NEW l, NEW h \in Heaps, e.desc = l.desc, NEW mg, MergesInside(mg, e, l)
    PROVE  MergedOK(MergeFields(mg, e, l, h), e, l, h)
<1> SUFFICES ASSUME NEW n \in Nat, Well(e, n, TRUE), Well(l, n, TRUE)
             PROVE  MergeInv(MergeFields(mg, e, l, h), e, l, h, n)
  BY DEF MergedOK
<1> DEFINE m == CHOOSE m : IsMerged(mg, e, l, h, m)
<1>1. l.desc \in DOMAIN Schema
  BY WellFinite DEF Built
<1>2. IsMerged(mg, e, l, h, m) /\ MergeFields(mg, e, l, h) = m[Len(Schema[l.desc].fields)]
  BY <1>1, MergedExists, MergeFieldsIs
<1> HIDE DEF m
<1>3. Len(Schema[l.desc].fields) \in Nat
  BY <1>1, FieldsKnown
<1>4. Len(Schema[l.desc].fields) \in 0 .. Len(Schema[l.desc].fields)
  BY <1>3
<1> QED
  BY <1>2, <1>4, MergedKeeps

SameFields(mg, mf, e, l, h) == MergeFields(mg, e, l, h) = MergeFields(mf, e, l, h)

(* All fields are merged alike by two ways that agree on what is inside. *)
LEMMA MergeFieldsSame ==
    ASSUME NEW n \in Nat, NEW e, NEW l, NEW h \in Heaps, e.desc = l.desc,
           Well(e, n, TRUE), Well(l, n, TRUE), NEW mg, MergesInside(mg, e, l),
           NEW mf, SameInside(mg, mf, e, l)
    PROVE  SameFields(mg, mf, e, l, h)
<1> DEFINE m == CHOOSE w : IsMerged(mg, e, l, h, w)
           k == CHOOSE w : IsMerged(mf, e, l, h, w)
           N == Len(Schema[l.desc].fields)
<1>1. l.desc \in DOMAIN Schema
  BY WellFinite DEF Built
<1>2. IsMerged(mg, e, l, h, m) /\ MergeFields(mg, e, l, h) = m[N]
  BY <1>1, MergedExists, MergeFieldsIs
<1>3. IsMerged(mf, e, l, h, k) /\ MergeFields(mf, e, l, h) = k[N]
  BY <1>1, MergedExists, MergeFieldsIs
<1>4. N \in Nat
  BY <1>1, FieldsKnown
<1> HIDE DEF m, k
<1>5. \A i \in 0 .. N : MergeInv(m[i], e, l, h, n) /\ Ahead(m[i], e, l, i + 1)
  BY <1>2, MergedKeeps
<1>6. \A i \in 0 .. N : m[i] = MergeStep(mg, e, l, h, m, i) /\ k[i] = MergeStep(mf, e, l, h, k, i)
  BY <1>2, <1>3 DEF IsMerged
<1> DEFINE T == {i \in Nat : i <= N => m[i] = k[i]}
<1>7. 0 \in T
  BY <1>4, <1>6 DEF MergeStep
<1>8. ASSUME NEW i \in Nat, i \in T PROVE i + 1 \in T
  <2> HIDE DEF N
  <2> SUFFICES ASSUME i + 1 <= N PROVE m[i + 1] = k[i + 1]
    OBVIOUS
  <2>1. i <= N /\ i \in 0 .. N /\ i + 1 \in 1 .. N /\ i + 1 \in 0 .. N /\ (i + 1) - 1 = i /\ i + 1 # 0
    BY <1>4
  <2>2. MergeInv(m[i], e, l, h, n) /\ Ahead(m[i], e, l, i + 1) /\ m[i] = k[i]
    BY <1>5, <1>8, <2>1
  <2>3. /\ m[i + 1] = MergeField(mg, m[i], Schema[l.desc].fields[i + 1])
        /\ k[i + 1] = MergeField(mf, m[i], Schema[l.desc].fields[i + 1])
    BY <1>6, <2>1, <2>2 DEF MergeStep
  <2> HIDE DEF T
  <2>4. i + 1 \in 1 .. Len(Schema[l.desc].fields)
    BY <2>1 DEF N
  <2> DEFINE j == i + 1
             s == m[i]
  <2>6. j \in 1 .. Len(Schema[l.desc].fields) /\ MergeInv(s, e, l, h, n) /\ Ahead(s, e, l, j)
    BY <2>2, <2>4
  <2> HIDE DEF j, s
  <2>7. SameField(mg, mf, s, l, j)
    BY <2>6, MergeFieldSame
  <2>5. MergeField(mg, m[i], Schema[l.desc].fields[i + 1]) = MergeField(mf, m[i], Schema[l.desc].fields[i + 1])
    BY <2>7 DEF j, s, SameField
  <2> QED
    BY <2>3, <2>5
<1>9. N \in T
  <2> HIDE DEF T, N
  <2> QED
    BY <1>4, <1>7, <1>8, SetInduction
<1> QED
  BY <1>2, <1>3, <1>9 DEF SameFields

--------------------------------
(* The messages within two messages *)

Pairs(e, l) == {c \in Within(e) \X Within(l) \X Heaps : c[1].desc = c[2].desc}
IsMerge(P, mg) == mg = [c \in P |-> MergeFields(mg, c[1], c[2], c[3])]

(* merge_messages is a function of pairs of messages, when there is one. *)
LEMMA MergeIs ==
    ASSUME NEW e, NEW l, NEW h
    PROVE  merge_messages(e, l, h) = (CHOOSE mg : IsMerge(Pairs(e, l), mg))[<<e, l, h>>]
BY DEF merge_messages, IsMerge, Pairs

(* The pairs whose earlier message has less than k levels. *)
Shallow(e, l, k) == {c \in Pairs(e, l) : Well(c[1], k, TRUE)}
AllMerged(P, mg) == \A c \in P : MergedOK(mg[c], c[1], c[2], c[3])

(* What is in two messages is a level less deep. *)
LEMMA InsideMerges ==
    ASSUME NEW n \in Nat, NEW e, NEW l, Well(e, n, TRUE), Well(l, n, TRUE), NEW k \in Nat,
           NEW c \in Shallow(e, l, k + 1), NEW mg, AllMerged(Shallow(e, l, k), mg)
    PROVE  /\ MergesInside(mg, c[1], c[2]) /\ c[1].desc = c[2].desc /\ c[3] \in Heaps
           /\ \E m \in Nat : Well(c[1], m, TRUE) /\ Well(c[2], m, TRUE)
           /\ \A a \in Children(c[1]), b \in Children(c[2]), h \in Heaps :
                 a.desc = b.desc => <<a, b, h>> \in Shallow(e, l, k)
<1> DEFINE x == c[1]
           y == c[2]
           S == Shallow(e, l, k)
<1>0. /\ \A z \in Within(e) : Children(z) \subseteq Within(e)
      /\ \A z \in Within(l) : Well(z, n, TRUE) /\ Children(z) \subseteq Within(l)
  BY WellFinite, WithinIs
<1>1. /\ Well(x, k + 1, TRUE) /\ x \in Within(e) /\ y \in Within(l) /\ c[3] \in Heaps
      /\ x.desc = y.desc
  BY DEF Shallow, Pairs
<1>2. k + 1 \in Nat /\ (k + 1) - 1 = k
  OBVIOUS
<1> HIDE DEF x, y
<1>3. \A a \in Children(x) : Well(a, k, TRUE) /\ a \in Within(e)
  BY <1>0, <1>1, <1>2, WellFinite, ZenonT(60)
<1>4. \A b \in Children(y) : b \in Within(l)
  BY <1>0, <1>1
<1>5. ASSUME NEW a \in Children(x), NEW b \in Children(y), NEW h \in Heaps, a.desc = b.desc
      PROVE  <<a, b, h>> \in S
  <2> DEFINE d == <<a, b, h>>
  <2>1. d[1] = a /\ d[2] = b /\ d \in Within(e) \X Within(l) \X Heaps
    BY <1>3, <1>4, <1>5
  <2> HIDE DEF d
  <2>2. d \in S
    BY <1>3, <1>5, <2>1 DEF Shallow, Pairs
  <2> QED
    BY <2>2 DEF d
<1> HIDE DEF S
<1>6. MergesInside(mg, x, y)
  <2> SUFFICES ASSUME NEW a \in Children(x), NEW b \in Children(y), NEW h \in Heaps, a.desc = b.desc
               PROVE  MergedOK(mg[<<a, b, h>>], a, b, h)
    BY DEF MergesInside
  <2> DEFINE d == <<a, b, h>>
  <2>1. d[1] = a /\ d[2] = b /\ d[3] = h /\ d \in S
    BY <1>5
  <2> HIDE DEF d
  <2>2. MergedOK(mg[d], a, b, h)
    BY <2>1 DEF AllMerged, S
  <2> QED
    BY <2>2 DEF d
<1>7. \E m \in Nat : Well(x, m, TRUE) /\ Well(y, m, TRUE)
  <2> DEFINE m == n + (k + 1)
  <2>1. m \in Nat /\ n <= m /\ k + 1 <= m
    OBVIOUS
  <2> HIDE DEF m
  <2>2. Well(x, m, TRUE)
    BY <1>1, <1>2, <2>1, WellFinite
  <2>3. Well(y, m, TRUE)
    BY <1>0, <1>1, <2>1, WellFinite
  <2> QED
    BY <2>1, <2>2, <2>3
<1> QED
  BY <1>1, <1>5, <1>6, <1>7 DEF x, y, S

(* There are none without a level, and in the end all. *)
LEMMA ShallowGrows ==
    ASSUME NEW n \in Nat, NEW e, NEW l, Well(e, n, TRUE)
    PROVE  /\ Shallow(e, l, 0) = {} /\ Pairs(e, l) \subseteq Shallow(e, l, n)
           /\ \A k \in Nat : Shallow(e, l, k) \subseteq Shallow(e, l, k + 1)
<1>1. Shallow(e, l, 0) = {}
  BY WellFinite DEF Shallow
<1>2. Pairs(e, l) \subseteq Shallow(e, l, n)
  <2>1. \A x \in Within(e) : Well(x, n, TRUE)
    BY WellFinite
  <2> QED
    BY <2>1 DEF Shallow, Pairs
<1>3. ASSUME NEW k \in Nat PROVE Shallow(e, l, k) \subseteq Shallow(e, l, k + 1)
  <2>1. k + 1 \in Nat /\ k <= k + 1
    OBVIOUS
  <2> QED
    BY <2>1, WellFinite DEF Shallow
<1> QED
  BY <1>1, <1>2, <1>3

(* There is a function that merges all pairs. *)
LEMMA MergeExists ==
    ASSUME NEW n \in Nat, NEW e, NEW l, Well(e, n, TRUE), Well(l, n, TRUE)
    PROVE  \E mg : IsMerge(Pairs(e, l), mg)
<1> DEFINE P(k) == Shallow(e, l, k)
           T == {k \in Nat : \E mg : IsMerge(P(k), mg) /\ AllMerged(P(k), mg)}
<1>1. 0 \in T
  <2>1. P(0) = {}
    BY ShallowGrows
  <2> DEFINE mg == [c \in {} |-> MergeFields(<<>>, c[1], c[2], c[3])]
  <2>2. mg = [c \in {} |-> MergeFields(mg, c[1], c[2], c[3])]
    OBVIOUS
  <2> HIDE DEF mg
  <2> QED
    BY <2>1, <2>2 DEF IsMerge, AllMerged
<1>2. ASSUME NEW k \in Nat, k \in T PROVE k + 1 \in T
  <2>1. PICK mg : IsMerge(P(k), mg) /\ AllMerged(P(k), mg)
    BY <1>2
  <2> DEFINE t == [c \in P(k + 1) |-> MergeFields(mg, c[1], c[2], c[3])]
  <2>2. k + 1 \in Nat
    OBVIOUS
  <2>3. P(k) \subseteq P(k + 1)
    BY ShallowGrows
  <2>4. \A c \in P(k) : t[c] = mg[c]
    <3>1. \A c \in P(k) : mg[c] = MergeFields(mg, c[1], c[2], c[3])
      BY <2>1 DEF IsMerge
    <3> HIDE DEF P
    <3> QED
      BY <2>3, <3>1
  <2>5. DOMAIN t = P(k + 1) /\ (\A c \in P(k + 1) : t[c] = MergeFields(mg, c[1], c[2], c[3]))
        /\ t = [c \in P(k + 1) |-> t[c]]
    OBVIOUS
  <2> HIDE DEF t
  <2>6. ASSUME NEW c \in P(k + 1)
        PROVE  t[c] = MergeFields(t, c[1], c[2], c[3]) /\ MergedOK(t[c], c[1], c[2], c[3])
    <3>1. /\ MergesInside(mg, c[1], c[2]) /\ c[1].desc = c[2].desc /\ c[3] \in Heaps
          /\ \E m \in Nat : Well(c[1], m, TRUE) /\ Well(c[2], m, TRUE)
          /\ \A a \in Children(c[1]), b \in Children(c[2]), h \in Heaps :
                a.desc = b.desc => <<a, b, h>> \in P(k)
      BY <2>1, InsideMerges
    <3>2. PICK m \in Nat : Well(c[1], m, TRUE) /\ Well(c[2], m, TRUE)
      BY <3>1
    <3> DEFINE x == c[1]
               y == c[2]
               q == c[3]
    <3>3. x.desc = y.desc /\ q \in Heaps /\ MergesInside(mg, x, y) /\ Well(x, m, TRUE) /\ Well(y, m, TRUE)
      BY <3>1, <3>2
    <3>4. SameInside(mg, t, x, y)
      <4> HIDE DEF P
      <4> QED
        BY <2>4, <3>1 DEF SameInside
    <3> HIDE DEF x, y, q, P
    <3>5. MergedOK(MergeFields(mg, x, y, q), x, y, q)
      BY <3>3, MergeFieldsKeeps
    <3>6. SameFields(mg, t, x, y, q)
      BY <3>3, <3>4, MergeFieldsSame
    <3> QED
      BY <2>5, <3>5, <3>6 DEF x, y, q, SameFields
  <2>7. IsMerge(P(k + 1), t) /\ AllMerged(P(k + 1), t)
    <3> HIDE DEF P
    <3> QED
      BY <2>5, <2>6 DEF IsMerge, AllMerged
  <2> QED
    BY <2>2, <2>7
<1>3. n \in T
  <2> HIDE DEF T
  <2> QED
    BY <1>1, <1>2, SetInduction
<1>4. P(n) = Pairs(e, l)
  <2>1. Pairs(e, l) \subseteq Shallow(e, l, n)
    BY ShallowGrows
  <2> QED
    BY <2>1 DEF Shallow
<1> QED
  BY <1>3, <1>4

(* Merging two messages of any depth loses no block and frees none twice:
   when it ends, whichever allocation failed, what is allocated is what the
   two messages still hold (merge_messages). *)
THEOREM MergeAccounts ==
    ASSUME NEW n \in Nat, NEW e, NEW l, Well(e, n, TRUE), Well(l, n, TRUE), e.desc = l.desc, NEW h \in Heaps
    PROVE  MergeInv(merge_messages(e, l, h), e, l, h, n)
<1> DEFINE mg == CHOOSE mg : IsMerge(Pairs(e, l), mg)
           T == {k \in Nat : AllMerged(Shallow(e, l, k), mg)}
           c == <<e, l, h>>
<1>1. IsMerge(Pairs(e, l), mg) /\ merge_messages(e, l, h) = mg[c]
  BY MergeExists, MergeIs
<1> HIDE DEF mg
<1>2. 0 \in T
  BY ShallowGrows DEF AllMerged
<1>3. ASSUME NEW k \in Nat, k \in T PROVE k + 1 \in T
  <2>1. ASSUME NEW d \in Shallow(e, l, k + 1) PROVE MergedOK(mg[d], d[1], d[2], d[3])
    <3>1. MergesInside(mg, d[1], d[2]) /\ d[1].desc = d[2].desc /\ d[3] \in Heaps
      BY <1>3, InsideMerges
    <3>2. mg[d] = MergeFields(mg, d[1], d[2], d[3])
      BY <1>1 DEF IsMerge, Shallow
    <3> DEFINE x == d[1]
               y == d[2]
               q == d[3]
    <3> HIDE DEF x, y, q
    <3>3. MergedOK(MergeFields(mg, x, y, q), x, y, q)
      BY <3>1, MergeFieldsKeeps DEF x, y, q
    <3> QED
      BY <3>2, <3>3 DEF x, y, q
  <2> QED
    BY <2>1 DEF AllMerged
<1>4. AllMerged(Pairs(e, l), mg)
  <2>1. n \in T
    <3> HIDE DEF T
    <3> QED
      BY <1>2, <1>3, SetInduction
  <2> QED
    <3>1. Pairs(e, l) \subseteq Shallow(e, l, n)
      BY ShallowGrows
    <3> QED
      BY <2>1, <3>1 DEF AllMerged
<1>5. c \in Pairs(e, l)
  BY WellFinite DEF Pairs
<1>6. MergedOK(mg[c], e, l, h)
  BY <1>4, <1>5 DEF AllMerged
<1> QED
  BY <1>1, <1>6 DEF MergedOK

--------------------------------
(* The members of a message *)

(* A set of numbers has a least one. *)
LEMMA Least ==
    ASSUME NEW S \in SUBSET Nat, S # {}
    PROVE  \E i \in S : \A j \in S : i <= j
<1> DEFINE T == {n \in Nat : \A m \in Nat : m <= n => m \notin S}
<1> SUFFICES ASSUME ~\E i \in S : \A j \in S : i <= j PROVE FALSE
  OBVIOUS
<1>1. 0 \in T
  BY Z3
<1>2. ASSUME NEW n \in Nat, n \in T PROVE n + 1 \in T
  <2>1. n + 1 \in Nat
    OBVIOUS
  <2>2. n + 1 \notin S
    <3> SUFFICES ASSUME n + 1 \in S PROVE FALSE
      OBVIOUS
    <3>1. PICK j \in S : ~(n + 1 <= j)
      BY <2>1
    <3>2. j \in Nat /\ j <= n
      BY <3>1
    <3> QED
      BY <1>2, <3>2
  <2>3. \A m \in Nat : m <= n + 1 => m <= n \/ m = n + 1
    OBVIOUS
  <2> QED
    BY <1>2, <2>1, <2>2, <2>3
<1>3. Nat \subseteq T
  <2> HIDE DEF T
  <2> QED
    BY <1>1, <1>2, SetInduction
<1>4. PICK i \in S : i \in Nat
  OBVIOUS
<1>5. i \in T /\ i <= i
  BY <1>3, <1>4
<1> QED
  BY <1>4, <1>5

(* A varint ends within the bytes, at one without a continuation bit. *)
LEMMA VarintLenIs ==
    ASSUME NEW data \in Seq(Byte), NEW max
    PROVE  /\ VarintLen(data, max) \in 0 .. Len(data) /\ Len(data) \in Nat
           /\ VarintLen(data, max) # 0 =>
                 VarintLen(data, max) \in 1 .. Len(data) /\ 7 \notin data[VarintLen(data, max)]
<1> DEFINE ends == {i \in 1 .. Len(data) : i <= max /\ 7 \notin data[i]}
<1>1. Len(data) \in Nat
  OBVIOUS
<1>2. CASE ends = {}
  BY <1>1, <1>2 DEF VarintLen
<1>3. CASE ends # {}
  <2>1. ends \in SUBSET Nat
    BY <1>1
  <2> DEFINE n == CHOOSE i \in ends : \A j \in ends : i <= j
  <2>2. n \in ends
    <3> HIDE DEF ends
    <3> QED
      BY <1>3, <2>1, Least
  <2>3. VarintLen(data, max) = n
    BY <1>3 DEF VarintLen
  <2> HIDE DEF n
  <2> QED
    BY <1>1, <2>2, <2>3
<1> QED
  BY <1>2, <1>3

(* Powers of two are numbers. *)
LEMMA Powers == \A i \in 0 .. 31 : 2 ^ i \in Nat
<1> SUFFICES ASSUME NEW i \in 0 .. 31 PROVE 2 ^ i \in Nat
  OBVIOUS
<1>1. \/ i = 0 \/ i = 1 \/ i = 2 \/ i = 3 \/ i = 4 \/ i = 5 \/ i = 6 \/ i = 7
      \/ i = 8 \/ i = 9 \/ i = 10 \/ i = 11 \/ i = 12 \/ i = 13 \/ i = 14 \/ i = 15
      \/ i = 16 \/ i = 17 \/ i = 18 \/ i = 19 \/ i = 20 \/ i = 21 \/ i = 22 \/ i = 23
      \/ i = 24 \/ i = 25 \/ i = 26 \/ i = 27 \/ i = 28 \/ i = 29 \/ i = 30 \/ i = 31
  OBVIOUS
<1>2. /\ 2 ^ 0 \in Nat /\ 2 ^ 1 \in Nat /\ 2 ^ 2 \in Nat /\ 2 ^ 3 \in Nat /\ 2 ^ 4 \in Nat
      /\ 2 ^ 5 \in Nat /\ 2 ^ 6 \in Nat /\ 2 ^ 7 \in Nat /\ 2 ^ 8 \in Nat /\ 2 ^ 9 \in Nat
      /\ 2 ^ 10 \in Nat /\ 2 ^ 11 \in Nat /\ 2 ^ 12 \in Nat /\ 2 ^ 13 \in Nat /\ 2 ^ 14 \in Nat
      /\ 2 ^ 15 \in Nat /\ 2 ^ 16 \in Nat /\ 2 ^ 17 \in Nat /\ 2 ^ 18 \in Nat /\ 2 ^ 19 \in Nat
      /\ 2 ^ 20 \in Nat /\ 2 ^ 21 \in Nat /\ 2 ^ 22 \in Nat /\ 2 ^ 23 \in Nat /\ 2 ^ 24 \in Nat
      /\ 2 ^ 25 \in Nat /\ 2 ^ 26 \in Nat /\ 2 ^ 27 \in Nat /\ 2 ^ 28 \in Nat /\ 2 ^ 29 \in Nat
      /\ 2 ^ 30 \in Nat /\ 2 ^ 31 \in Nat
  OBVIOUS
<1> QED
  BY <1>1, <1>2, Zenon

(* So a word has a number. *)
LEMMA NumType ==
    ASSUME NEW v, v \subseteq 0 .. 31
    PROVE  Num(v) \in Nat
<1> DEFINE f == [i \in v |-> 2 ^ i]
<1>1. IsFiniteSet(v)
  <2>0. 0 \in Int /\ 31 \in Int
    OBVIOUS
  <2>1. IsFiniteSet(0 .. 31)
    BY ONLY <2>0, FS_Interval, Zenon
  <2> QED
    BY <2>1, FS_Subset
<1>2. Numbers(f)
  <2>1. \A i \in v : 2 ^ i \in Nat
    BY Powers
  <2> QED
    BY <1>1, <2>1 DEF Numbers
<1> HIDE DEF f
<1>3. DOMAIN f \in SUBSET DOMAIN f
  OBVIOUS
<1>4. SumFunction(f) \in Nat
  BY <1>2, <1>3, SumIs, PartSumType
<1> QED
  BY <1>4 DEF Num, f

(* Some of the bytes are bytes. *)
LEMMA SomeBytes ==
    ASSUME NEW data \in Seq(Byte), NEW a \in Nat, NEW b \in Nat, a <= b + 1, b <= Len(data), 1 <= a
    PROVE  SubSeq(data, a, b) \in Seq(Byte) /\ Len(SubSeq(data, a, b)) = b + 1 - a
<1>1. Len(data) \in Nat
  OBVIOUS
<1> QED
  BY <1>1, SubSeqProperties

(* What is parsed as 32 bits has 32 bits. *)
LEMMA ParsedUint32 ==
    ASSUME NEW data
    PROVE  parse_uint32(data) \subseteq 0 .. 31
BY DEF parse_uint32, GroupAt, Shl

(* A member that ends takes at least a byte for its tag, and its value is
   shorter than the n bytes that are left. *)
Whole(mem, n) ==
    /\ mem = [field |-> mem.field, tag |-> mem.tag, wiretype |-> mem.wiretype,
             data |-> mem.data, pref |-> mem.pref, size |-> mem.size]
    /\ mem.field = 0 /\ mem.tag \in Nat /\ mem.size \in 0 .. n
    /\ mem.size # 0 =>
          /\ mem.data \in Seq(Byte) /\ Len(mem.data) \in Nat /\ Len(mem.data) < n
          /\ mem.pref \in Nat

(* A length that was announced is within the bytes, unless the sum wraps. *)
LEMMA PrefixedLen ==
    ASSUME NEW data \in Seq(Byte)
    PROVE  LET v == scan_length_prefixed_data(data)
           IN  v.len \in 0 .. Len(data) /\ v.pref \in Nat
<1> DEFINE hdr_len == VarintLen(data, 5)
           sum == Sum32(hdr_len, parse_uint32(SubSeq(data, 1, hdr_len)))
<1>1. hdr_len \in 0 .. Len(data) /\ Len(data) \in Nat
  BY VarintLenIs
<1>2. sum \in Nat
  <2> DEFINE v == parse_uint32(SubSeq(data, 1, hdr_len))
  <2>1. v \subseteq 0 .. 31
    BY ParsedUint32
  <2> HIDE DEF v
  <2> DEFINE w == v \cap 0 .. 2
             x == Num(v)
             y == Num(w)
             p == 3 .. 31 \subseteq v
  <2>0. w \subseteq 0 .. 31
    BY <2>1
  <2>2. x \in Nat /\ y \in Nat
    BY <2>0, <2>1, NumType
  <2>4. Sum32(hdr_len, v) = IF p /\ (hdr_len + y) >= 8 THEN (hdr_len + y) - 8 ELSE hdr_len + x
    <3> HIDE DEF hdr_len
    <3> QED
      BY Zenon DEF Sum32
  <2> HIDE DEF x, y, p
  <2>3. Sum32(hdr_len, v) \in Nat
    BY <1>1, <2>2, <2>4
  <2> QED
    BY <2>3 DEF v
<1>3. scan_length_prefixed_data(data)
      = IF hdr_len = 0 \/ sum > Len(data) THEN [len |-> 0, pref |-> 0]
        ELSE [len |-> sum, pref |-> hdr_len]
  BY DEF scan_length_prefixed_data
<1> HIDE DEF hdr_len, sum
<1> QED
  BY <1>1, <1>2, <1>3

(* So is the value of a member. *)
LEMMA MemberLenType ==
    ASSUME NEW wiretype, NEW data \in Seq(Byte)
    PROVE  LET v == MemberLen(wiretype, data)
           IN  v.len \in 0 .. Len(data) /\ v.pref \in Nat
<1> DEFINE v == MemberLen(wiretype, data)
<1>1. Len(data) \in Nat /\ VarintLen(data, 10) \in 0 .. Len(data)
  BY VarintLenIs
<1>2. LET w == scan_length_prefixed_data(data)
      IN  w.len \in 0 .. Len(data) /\ w.pref \in Nat
  BY PrefixedLen
<1>3. \/ v = [len |-> VarintLen(data, 10), pref |-> 0]
      \/ v = [len |-> 8, pref |-> 0] /\ ~(Len(data) < 8)
      \/ v = [len |-> 4, pref |-> 0] /\ ~(Len(data) < 4)
      \/ v = [len |-> 0, pref |-> 0]
      \/ v = scan_length_prefixed_data(data)
  BY DEF MemberLen
<1> HIDE DEF v
<1> SUFFICES v.len \in 0 .. Len(data) /\ v.pref \in Nat
  BY DEF v
<1>4. CASE v = [len |-> VarintLen(data, 10), pref |-> 0]
  BY <1>1, <1>4
<1>5. CASE v = [len |-> 8, pref |-> 0] /\ ~(Len(data) < 8)
  BY <1>1, <1>5
<1>6. CASE v = [len |-> 4, pref |-> 0] /\ ~(Len(data) < 4)
  BY <1>1, <1>6
<1>7. CASE v = [len |-> 0, pref |-> 0]
  BY <1>1, <1>7
<1> QED
  BY <1>2, <1>3, <1>4, <1>5, <1>6, <1>7

(* A member at the start of bytes is whole or has no size. *)
LEMMA MemberIs ==
    ASSUME NEW rest \in Seq(Byte), rest # <<>>
    PROVE  Whole(MemberAt(rest), Len(rest))
<1> DEFINE t == parse_tag_and_wiretype(rest)
           at == SubSeq(rest, t.used + 1, Len(rest))
           value == MemberLen(t.wiretype, at)
           v == IF t.used = 0 THEN [len |-> 0, pref |-> 0] ELSE value
           mem == [field |-> 0, tag |-> Num(t.tag), wiretype |-> t.wiretype,
                   data |-> SubSeq(at, 1, v.len), pref |-> v.pref,
                   size |-> IF v.len = 0 THEN 0 ELSE t.used + v.len]
<1>1. MemberAt(rest) = mem
  BY DEF MemberAt
<1>2. Len(rest) \in Nat /\ t.used \in 0 .. Len(rest) /\ t.tag \subseteq 0 .. 31
  <2>1. VarintLen(rest, 5) \in 0 .. Len(rest) /\ Len(rest) \in Nat
    BY VarintLenIs
  <2> DEFINE tag == {i \in 0 .. 31 :
                      \/ i < 4 /\ i + 3 \in rest[1]
                      \/ \E k \in 2 .. VarintLen(rest, 5) : i - (7 * k - 10) \in rest[k] \cap (0 .. 6)}
  <2>2. tag \subseteq 0 .. 31
    OBVIOUS
  <2>3. t = IF VarintLen(rest, 5) = 0 THEN [used |-> 0, tag |-> {}, wiretype |-> {}]
            ELSE [used |-> VarintLen(rest, 5), tag |-> tag, wiretype |-> rest[1] \cap (0 .. 2)]
    BY DEF parse_tag_and_wiretype
  <2> HIDE DEF tag, t
  <2>4. CASE VarintLen(rest, 5) = 0
    <3>1. t = [used |-> 0, tag |-> {}, wiretype |-> {}]
      BY <2>3, <2>4
    <3> QED
      BY <2>1, <3>1
  <2>5. CASE VarintLen(rest, 5) # 0
    <3>1. t = [used |-> VarintLen(rest, 5), tag |-> tag, wiretype |-> rest[1] \cap (0 .. 2)]
      BY <2>3, <2>5
    <3> QED
      BY <2>1, <2>2, <3>1
  <2> QED
    BY <2>4, <2>5
<1>3. Num(t.tag) \in Nat
  BY <1>2, NumType
<1> HIDE DEF t
<1>4. at \in Seq(Byte) /\ Len(at) = Len(rest) - t.used
  BY <1>2, SomeBytes
<1> HIDE DEF at
<1>5. v.len \in 0 .. Len(at) /\ v.pref \in Nat /\ (v.len # 0 => t.used # 0)
  <2>1. LET w == MemberLen(t.wiretype, at) IN w.len \in 0 .. Len(at) /\ w.pref \in Nat
    BY <1>4, MemberLenType
  <2>2. CASE t.used = 0
    BY <1>2, <1>4, <2>2
  <2>3. CASE t.used # 0
    BY <2>1, <2>3
  <2> QED
    BY <2>2, <2>3
<1> HIDE DEF v
<1>6. ASSUME v.len # 0
      PROVE  SubSeq(at, 1, v.len) \in Seq(Byte) /\ Len(SubSeq(at, 1, v.len)) = v.len /\ v.len < Len(rest)
             /\ v.len \in Nat
  <2>1. 1 <= v.len /\ v.len <= Len(at) /\ v.len \in Nat
    BY <1>2, <1>4, <1>5, <1>6
  <2>2. SubSeq(at, 1, v.len) \in Seq(Byte) /\ Len(SubSeq(at, 1, v.len)) = v.len + 1 - 1
    BY <1>4, <2>1, SomeBytes
  <2> QED
    BY <1>2, <1>4, <1>5, <1>6, <2>1, <2>2
<1>7. /\ mem.field = 0 /\ mem.tag = Num(t.tag) /\ mem.data = SubSeq(at, 1, v.len) /\ mem.pref = v.pref
      /\ mem.size = IF v.len = 0 THEN 0 ELSE t.used + v.len
      /\ mem.wiretype = t.wiretype
  OBVIOUS
<1>8. mem = [field |-> mem.field, tag |-> mem.tag, wiretype |-> mem.wiretype,
             data |-> mem.data, pref |-> mem.pref, size |-> mem.size]
  OBVIOUS
<1> HIDE DEF mem
<1>9. mem.size \in 0 .. Len(rest) /\ (mem.size # 0 => v.len # 0)
  BY <1>2, <1>4, <1>5, <1>7
<1> QED
  BY <1>1, <1>3, <1>5, <1>6, <1>7, <1>8, <1>9 DEF Whole

FromStep(data, f, at) ==
    IF at = Len(data) THEN <<>>
    ELSE <<MemberAt(SubSeq(data, at + 1, Len(data)))>>
         \o (IF MemberAt(SubSeq(data, at + 1, Len(data))).size = 0 THEN <<>>
             ELSE f[at + MemberAt(SubSeq(data, at + 1, Len(data))).size])
IsFrom(data, f) == f = [at \in 0 .. Len(data) |-> FromStep(data, f, at)]
(* The places with at most k bytes after them. *)
Ending(data, k) == {at \in 0 .. Len(data) : Len(data) <= at + k}

(* Members is a function of places in the bytes, when there is one. *)
LEMMA MembersIs ==
    ASSUME NEW data
    PROVE  Members(data) = (CHOOSE f : IsFrom(data, f))[0]
BY DEF Members, IsFrom, FromStep

(* The member at a place. *)
LEMMA RestIs ==
    ASSUME NEW data \in Seq(Byte), NEW at \in 0 .. Len(data), at # Len(data)
    PROVE  LET mem == MemberAt(SubSeq(data, at + 1, Len(data)))
           IN  Whole(mem, Len(data) - at) /\ mem.size \in 0 .. Len(data) - at
<1> DEFINE rest == SubSeq(data, at + 1, Len(data))
<1>1. Len(data) \in Nat /\ at + 1 \in Nat /\ at + 1 <= Len(data) + 1 /\ 1 <= at + 1 /\ Len(data) - at # 0
  OBVIOUS
<1>2. rest \in Seq(Byte) /\ Len(rest) = Len(data) + 1 - (at + 1)
  BY <1>1, SomeBytes
<1> HIDE DEF rest
<1>3. Len(rest) = Len(data) - at /\ rest # <<>>
  BY <1>1, <1>2
<1> QED
  BY <1>2, <1>3, MemberIs DEF rest, Whole

(* After a member fewer bytes are left. *)
LEMMA LastSteps ==
    ASSUME NEW data \in Seq(Byte), NEW k \in Nat
    PROVE  /\ Ending(data, 0) = {Len(data)} /\ Ending(data, Len(data)) = 0 .. Len(data)
           /\ Ending(data, k) \subseteq Ending(data, k + 1) /\ k + 1 \in Nat
           /\ \A at \in Ending(data, k + 1) : at \in 0 .. Len(data)
           /\ \A at \in Ending(data, k + 1) : \A n \in 1 .. Len(data) - at : at + n \in Ending(data, k)
<1>1. Len(data) \in Nat
  OBVIOUS
<1>2. Ending(data, 0) = {Len(data)}
  BY <1>1 DEF Ending
<1>3. Ending(data, Len(data)) = 0 .. Len(data)
  BY <1>1 DEF Ending
<1>4. Ending(data, k) \subseteq Ending(data, k + 1)
  BY <1>1 DEF Ending
<1>5. \A at \in Ending(data, k + 1) : \A n \in 1 .. Len(data) - at : at + n \in Ending(data, k)
  BY <1>1 DEF Ending
<1> QED
  BY <1>2, <1>3, <1>4, <1>5 DEF Ending

(* A step of it only asks for later places. *)
LEMMA FromSame ==
    ASSUME NEW data \in Seq(Byte), NEW k \in Nat, NEW f, NEW g,
           \A at \in Ending(data, k) : f[at] = g[at], NEW at \in Ending(data, k + 1)
    PROVE  FromStep(data, f, at) = FromStep(data, g, at)
<1> DEFINE mem == MemberAt(SubSeq(data, at + 1, Len(data)))
<1>1. at \in 0 .. Len(data)
  BY LastSteps
<1>2. CASE at = Len(data)
  BY <1>2 DEF FromStep
<1>3. CASE at # Len(data) /\ mem.size = 0
  BY <1>3 DEF FromStep
<1>4. CASE at # Len(data) /\ mem.size # 0
  <2>1. mem.size \in 0 .. Len(data) - at
    BY <1>1, <1>4, RestIs
  <2> HIDE DEF mem
  <2>2. mem.size \in 1 .. Len(data) - at
    BY <1>4, <2>1
  <2>3. f[at + mem.size] = g[at + mem.size]
    BY <2>2, LastSteps
  <2> QED
    BY <1>4, <2>3 DEF FromStep, mem
<1> QED
  BY <1>2, <1>3, <1>4

(* There is such a function. *)
LEMMA FromExists ==
    ASSUME NEW data \in Seq(Byte)
    PROVE  \E f : IsFrom(data, f)
<1> DEFINE T == {k \in Nat : \E f : f = [at \in Ending(data, k) |-> FromStep(data, f, at)]}
<1>1. 0 \in T
  <2> DEFINE f == [at \in {Len(data)} |-> <<>>]
  <2>1. Ending(data, 0) = {Len(data)}
    BY LastSteps
  <2>2. \A at \in {Len(data)} : FromStep(data, f, at) = <<>>
    BY DEF FromStep
  <2>3. f = [at \in {Len(data)} |-> FromStep(data, f, at)]
    BY <2>2
  <2> HIDE DEF f
  <2> QED
    BY <2>1, <2>3
<1>2. ASSUME NEW k \in Nat, k \in T PROVE k + 1 \in T
  <2>1. PICK f : f = [at \in Ending(data, k) |-> FromStep(data, f, at)]
    BY <1>2
  <2> DEFINE g == [at \in Ending(data, k + 1) |-> FromStep(data, f, at)]
  <2>2. Ending(data, k) \subseteq Ending(data, k + 1) /\ k + 1 \in Nat
    BY LastSteps
  <2>3. \A at \in Ending(data, k) : f[at] = g[at]
    <3>1. \A at \in Ending(data, k) : f[at] = FromStep(data, f, at)
      BY <2>1
    <3> QED
      BY <2>2, <3>1
  <2>4. \A at \in Ending(data, k + 1) : FromStep(data, f, at) = FromStep(data, g, at)
    <3> HIDE DEF g
    <3> QED
      BY <2>3, FromSame
  <2>5. g = [at \in Ending(data, k + 1) |-> FromStep(data, g, at)]
    BY <2>4
  <2> HIDE DEF g
  <2> QED
    BY <2>2, <2>5
<1>3. Len(data) \in T
  <2>1. Len(data) \in Nat
    OBVIOUS
  <2> HIDE DEF T
  <2> QED
    BY <1>1, <1>2, <2>1, SetInduction
<1>4. Ending(data, Len(data)) = 0 .. Len(data)
  <2>1. Len(data) \in Nat
    OBVIOUS
  <2> QED
    BY <2>1, LastSteps
<1> QED
  BY <1>3, <1>4 DEF IsFrom

AllWhole(s, n) == IsList(s) /\ \A i \in 1 .. Len(s) : Whole(s[i], n)

(* The members of a message are whole. *)
LEMMA MembersAre ==
    ASSUME NEW data \in Seq(Byte)
    PROVE  AllWhole(Members(data), Len(data))
<1> DEFINE f == CHOOSE f : IsFrom(data, f)
           T == {k \in Nat : \A at \in Ending(data, k) : AllWhole(f[at], Len(data))}
<1>1. IsFrom(data, f) /\ Members(data) = f[0]
  BY FromExists, MembersIs
<1> HIDE DEF f
<1>2. \A at \in 0 .. Len(data) : f[at] = FromStep(data, f, at)
  BY <1>1 DEF IsFrom
<1>3. Len(data) \in Nat /\ AllWhole(<<>>, Len(data))
  <2>1. IsList(<<>>) /\ Len(<<>>) = 0
    BY Nothing
  <2> QED
    BY <2>1 DEF AllWhole
<1>4. 0 \in T
  <2>1. Ending(data, 0) = {Len(data)} /\ Len(data) \in 0 .. Len(data)
    BY <1>3, LastSteps
  <2>2. f[Len(data)] = <<>>
    BY <1>2, <2>1 DEF FromStep
  <2> QED
    BY <1>3, <2>1, <2>2
<1>5. ASSUME NEW k \in Nat, k \in T PROVE k + 1 \in T
  <2> SUFFICES ASSUME NEW at \in Ending(data, k + 1) PROVE AllWhole(f[at], Len(data))
    BY LastSteps
  <2>1. at \in 0 .. Len(data)
    BY LastSteps
  <2>2. CASE at = Len(data)
    BY <1>2, <1>3, <2>1, <2>2 DEF FromStep
  <2>3. CASE at # Len(data)
    <3> DEFINE mem == MemberAt(SubSeq(data, at + 1, Len(data)))
               t == IF mem.size = 0 THEN <<>> ELSE f[at + mem.size]
    <3>1. Whole(mem, Len(data) - at) /\ mem.size \in 0 .. Len(data) - at
      BY <2>1, <2>3, RestIs
    <3>2. f[at] = <<mem>> \o t
      BY <1>2, <2>1, <2>3 DEF FromStep
    <3> HIDE DEF mem
    <3>3. Whole(mem, Len(data))
      <4>1. Len(data) - at \in Nat /\ Len(data) - at <= Len(data)
        BY <1>3, <2>1
      <4> QED
        BY <1>3, <3>1, <4>1 DEF Whole
    <3>4. AllWhole(t, Len(data))
      <4>1. CASE mem.size = 0
        BY <1>3, <4>1
      <4>2. CASE mem.size # 0
        <5>1. mem.size \in 1 .. Len(data) - at
          BY <3>1, <4>2
        <5>2. at + mem.size \in Ending(data, k)
          BY <5>1, LastSteps
        <5> QED
          BY <1>5, <4>2, <5>2
      <4> QED
        BY <4>1, <4>2
    <3> HIDE DEF t
    <3>5. IsList(<<mem>>) /\ Len(<<mem>>) = 1 /\ <<mem>>[1] = mem
      BY IsListOfOne
    <3>6. IsList(<<mem>> \o t) /\ \A j \in 1 .. Len(<<mem>> \o t) :
              \/ \E i \in 1 .. Len(<<mem>>) : (<<mem>> \o t)[j] = <<mem>>[i]
              \/ \E i \in 1 .. Len(t) : (<<mem>> \o t)[j] = t[i]
      BY <3>4, <3>5, Elements DEF AllWhole
    <3> DEFINE u == <<mem>> \o t
               w == <<mem>>
    <3> HIDE DEF u, w
    <3>7. \A j \in 1 .. Len(u) : Whole(u[j], Len(data))
      <4>1. \A i \in 1 .. Len(w) : Whole(w[i], Len(data))
        BY <3>3, <3>5 DEF w
      <4>2. \A i \in 1 .. Len(t) : Whole(t[i], Len(data))
        BY <3>4 DEF AllWhole
      <4> QED
        BY <3>6, <4>1, <4>2 DEF u, w
    <3> QED
      BY <3>2, <3>6, <3>7 DEF AllWhole, u
  <2> QED
    BY <2>2, <2>3
<1>6. Len(data) \in T
  <2> HIDE DEF T
  <2> QED
    BY <1>3, <1>4, <1>5, SetInduction
<1>7. 0 \in Ending(data, Len(data))
  BY <1>3 DEF Ending
<1> QED
  BY <1>1, <1>6, <1>7

--------------------------------
(* Packed runs *)

RunBad(type, rest) ==
    \/ PackedLen(type, rest) \notin 1 .. Len(rest)
    \/ type = "BOOL" /\ ~Below(SubSeq(rest, 1, PackedLen(type, rest))[1], 1)
RunStep(type, data, f, at) ==
    LET rest == SubSeq(data, at + 1, Len(data))
    IN  IF rest = <<>> THEN [ok |-> TRUE, values |-> <<>>]
        ELSE IF RunBad(type, rest) THEN [ok |-> FALSE, values |-> <<>>]
        ELSE [f[at + PackedLen(type, rest)] EXCEPT
                 !.values = <<parse_scalar(type, SubSeq(rest, 1, PackedLen(type, rest)))>> \o @]
IsRun(type, data, f) == f = [at \in 0 .. Len(data) |-> RunStep(type, data, f, at)]

(* Parsing a run is a function of places in it, when there is one. *)
LEMMA PackedIs ==
    ASSUME NEW type, NEW data, NEW values
    PROVE  parse_packed_repeated_member(type, data, values)
           = [(CHOOSE f : IsRun(type, data, f))[0] EXCEPT !.values = values \o @]
BY DEF parse_packed_repeated_member, IsRun, RunStep, RunBad

(* The bytes from a place on. *)
LEMMA RestOf ==
    ASSUME NEW data \in Seq(Byte), NEW at \in 0 .. Len(data)
    PROVE  LET rest == SubSeq(data, at + 1, Len(data))
           IN  rest \in Seq(Byte) /\ Len(rest) = Len(data) - at /\ (rest = <<>> <=> at = Len(data))
<1> DEFINE rest == SubSeq(data, at + 1, Len(data))
<1>1. Len(data) \in Nat /\ at + 1 \in Nat /\ at + 1 <= Len(data) + 1 /\ 1 <= at + 1
  OBVIOUS
<1>2. rest \in Seq(Byte) /\ Len(rest) = Len(data) + 1 - (at + 1)
  BY <1>1, SomeBytes
<1> HIDE DEF rest
<1>3. Len(rest) = Len(data) - at
  BY <1>1, <1>2
<1>4. rest = <<>> <=> Len(rest) = 0
  BY <1>2
<1> QED
  BY <1>1, <1>2, <1>3, <1>4 DEF rest

(* A step of it only asks for later places. *)
LEMMA RunSame ==
    ASSUME NEW type, NEW data \in Seq(Byte), NEW k \in Nat, NEW f, NEW g,
           \A at \in Ending(data, k) : f[at] = g[at], NEW at \in Ending(data, k + 1)
    PROVE  RunStep(type, data, f, at) = RunStep(type, data, g, at)
<1> DEFINE rest == SubSeq(data, at + 1, Len(data))
           s == PackedLen(type, rest)
<1>1. at \in 0 .. Len(data)
  BY LastSteps
<1>2. CASE rest = <<>>
  BY <1>2 DEF RunStep
<1>3. CASE RunBad(type, rest)
  BY <1>3 DEF RunStep
<1>4. CASE rest # <<>> /\ ~RunBad(type, rest)
  <2>1. s \in 1 .. Len(data) - at
    <3>1. s \in 1 .. Len(rest) /\ Len(rest) = Len(data) - at
      BY <1>1, <1>4, RestOf DEF RunBad
    <3> HIDE DEF rest, s
    <3> QED
      BY <3>1
  <2>2. f[at + s] = g[at + s]
    <3> HIDE DEF rest, s
    <3> QED
      BY <2>1, LastSteps
  <2> QED
    BY <2>2 DEF RunStep
<1> QED
  BY <1>2, <1>3, <1>4

(* There is such a function. *)
LEMMA RunExists ==
    ASSUME NEW type, NEW data \in Seq(Byte)
    PROVE  \E f : IsRun(type, data, f)
<1> DEFINE T == {k \in Nat : \E f : f = [at \in Ending(data, k) |-> RunStep(type, data, f, at)]}
<1>0. Len(data) \in Nat /\ Len(data) \in 0 .. Len(data)
  OBVIOUS
<1>1. 0 \in T
  <2> DEFINE f == [at \in {Len(data)} |-> [ok |-> TRUE, values |-> <<>>]]
  <2>1. Ending(data, 0) = {Len(data)}
    BY LastSteps
  <2>2. SubSeq(data, Len(data) + 1, Len(data)) = <<>>
    BY <1>0, RestOf
  <2>3. \A at \in {Len(data)} : RunStep(type, data, f, at) = [ok |-> TRUE, values |-> <<>>]
    BY <2>2 DEF RunStep
  <2>4. f = [at \in {Len(data)} |-> RunStep(type, data, f, at)]
    BY <2>3
  <2> HIDE DEF f
  <2> QED
    BY <2>1, <2>4
<1>2. ASSUME NEW k \in Nat, k \in T PROVE k + 1 \in T
  <2>1. PICK f : f = [at \in Ending(data, k) |-> RunStep(type, data, f, at)]
    BY <1>2
  <2> DEFINE g == [at \in Ending(data, k + 1) |-> RunStep(type, data, f, at)]
  <2>2. Ending(data, k) \subseteq Ending(data, k + 1) /\ k + 1 \in Nat
    BY LastSteps
  <2>3. \A at \in Ending(data, k) : f[at] = g[at]
    <3>1. \A at \in Ending(data, k) : f[at] = RunStep(type, data, f, at)
      BY <2>1
    <3> QED
      BY <2>2, <3>1
  <2>4. \A at \in Ending(data, k + 1) : RunStep(type, data, f, at) = RunStep(type, data, g, at)
    <3> HIDE DEF g
    <3> QED
      BY <2>3, RunSame
  <2>5. g = [at \in Ending(data, k + 1) |-> RunStep(type, data, g, at)]
    BY <2>4
  <2> HIDE DEF g
  <2> QED
    BY <2>2, <2>5
<1>3. Len(data) \in T
  <2> HIDE DEF T
  <2> QED
    BY <1>0, <1>1, <1>2, SetInduction
<1>4. Ending(data, Len(data)) = 0 .. Len(data)
  BY <1>0, LastSteps
<1> QED
  BY <1>3, <1>4 DEF IsRun

RunState(r) == r = [ok |-> r.ok, values |-> r.values] /\ r.ok \in BOOLEAN /\ IsList(r.values)

(* A value before those of a run. *)
LEMMA RunPrefixed ==
    ASSUME NEW r, RunState(r), NEW values, IsList(values)
    PROVE  LET q == [r EXCEPT !.values = values \o @]
           IN  RunState(q) /\ q.ok = r.ok /\ q.values = values \o r.values
<1> DEFINE q == [r EXCEPT !.values = values \o @]
<1>1. PICK a, b : r = [ok |-> a, values |-> b]
  BY DEF RunState
<1>2. a = r.ok /\ b = r.values
  <2>1. [ok |-> a, values |-> b].ok = a /\ [ok |-> a, values |-> b].values = b
    OBVIOUS
  <2> QED
    BY ONLY <1>1, <2>1
<1> DEFINE w == values \o b
<1>3. q = [ok |-> a, values |-> w]
  <2>1. q = [r EXCEPT !.values = w]
    BY ONLY <1>2
  <2> HIDE DEF q, w
  <2>2. [[ok |-> a, values |-> b] EXCEPT !.values = w] = [ok |-> a, values |-> w]
    OBVIOUS
  <2> QED
    BY ONLY <1>1, <2>1, <2>2
<1> HIDE DEF q
<1>4. q.ok = a /\ q.values = values \o b
  BY <1>3
<1>5. IsList(values \o b)
  BY <1>2, Elements DEF RunState
<1>6. RunState(q)
  BY <1>2, <1>3, <1>4, <1>5 DEF RunState
<1> QED
  BY <1>2, <1>4, <1>6 DEF q

(* What it gives is a list of values. *)
LEMMA RunsAre ==
    ASSUME NEW type, NEW data \in Seq(Byte), NEW f, IsRun(type, data, f)
    PROVE  \A at \in 0 .. Len(data) : RunState(f[at])
<1> DEFINE T == {k \in Nat : \A at \in Ending(data, k) : RunState(f[at])}
<1>1. \A at \in 0 .. Len(data) : f[at] = RunStep(type, data, f, at)
  BY DEF IsRun
<1>2. Len(data) \in Nat /\ Len(data) \in 0 .. Len(data)
  OBVIOUS
<1>3. RunState([ok |-> TRUE, values |-> <<>>]) /\ RunState([ok |-> FALSE, values |-> <<>>])
  BY Nothing DEF RunState
<1>4. 0 \in T
  <2>1. Ending(data, 0) = {Len(data)}
    BY LastSteps
  <2>2. SubSeq(data, Len(data) + 1, Len(data)) = <<>>
    BY <1>2, RestOf
  <2>3. f[Len(data)] = [ok |-> TRUE, values |-> <<>>]
    BY <1>1, <1>2, <2>2 DEF RunStep
  <2> QED
    BY <1>3, <2>1, <2>3
<1>5. ASSUME NEW k \in Nat, k \in T PROVE k + 1 \in T
  <2> SUFFICES ASSUME NEW at \in Ending(data, k + 1) PROVE RunState(f[at])
    BY LastSteps
  <2> DEFINE rest == SubSeq(data, at + 1, Len(data))
             s == PackedLen(type, rest)
             v == parse_scalar(type, SubSeq(rest, 1, s))
  <2>1. at \in 0 .. Len(data)
    BY LastSteps
  <2>2. CASE rest = <<>>
    BY <1>1, <1>3, <2>1, <2>2 DEF RunStep
  <2>3. CASE rest # <<>> /\ RunBad(type, rest)
    BY <1>1, <1>3, <2>1, <2>3 DEF RunStep
  <2>4. CASE rest # <<>> /\ ~RunBad(type, rest)
    <3>1. f[at] = [f[at + s] EXCEPT !.values = <<v>> \o @]
      BY <1>1, <2>1, <2>4 DEF RunStep
    <3>2. s \in 1 .. Len(rest) /\ Len(rest) = Len(data) - at
      BY <2>1, <2>4, RestOf DEF RunBad
    <3> HIDE DEF v, s, rest
    <3>3. at + s \in Ending(data, k)
      BY <3>2, LastSteps
    <3>4. RunState(f[at + s])
      BY <1>5, <3>3
    <3>5. IsList(<<v>>)
      BY IsListOfOne
    <3> DEFINE r == f[at + s]
               w == <<v>>
    <3> HIDE DEF r, w
    <3>6. RunState([r EXCEPT !.values = w \o @])
      BY <3>4, <3>5, RunPrefixed DEF r, w
    <3> QED
      BY <3>1, <3>6 DEF r, w
  <2> QED
    BY <2>2, <2>3, <2>4
<1>6. Len(data) \in T
  <2> HIDE DEF T
  <2> QED
    BY <1>2, <1>4, <1>5, SetInduction
<1>7. Ending(data, Len(data)) = 0 .. Len(data)
  BY <1>2, LastSteps
<1> QED
  BY <1>6, <1>7

(* The number of values of a run is none only when there is no value in it. *)
LEMMA CountIs ==
    ASSUME NEW type \in Types32 \cup Types64 \cup {"BOOL"}, NEW data \in Seq(Byte)
    PROVE  /\ count_packed_elements(type, data) \in Nat \cup {-1}
           /\ data = <<>> => count_packed_elements(type, data) = 0
           /\ count_packed_elements(type, data) # -1 /\ PackedLen(type, data) \in 1 .. Len(data) =>
                 count_packed_elements(type, data) # 0
<1> DEFINE c == count_packed_elements(type, data)
           final == {i \in 1 .. Len(data) : 7 \notin data[i]}
<1>1. Len(data) \in Nat /\ (data = <<>> => Len(data) = 0)
  OBVIOUS
<1>2. IsFiniteSet(final) /\ Cardinality(final) \in Nat
  <2>1. IsFiniteSet(1 .. Len(data))
    BY <1>1, FS_Interval
  <2>2. IsFiniteSet(final)
    BY <2>1, FS_Subset
  <2> QED
    BY <2>2, FS_CardinalityType
<1>3. final = {} <=> Cardinality(final) = 0
  BY <1>2, FS_EmptySet
<1>4. type \notin LengthPrefixed
  BY DEF LengthPrefixed, Types32, Types64, Fixed32, Fixed64
<1>5. CASE type \in Fixed32
  <2>1. type \notin Fixed64 /\ type # "BOOL"
    BY <1>5 DEF Fixed32, Fixed64
  <2>2. c = IF Len(data) % 4 = 0 THEN Len(data) \div 4 ELSE -1
    BY <1>4, <1>5, <2>1 DEF count_packed_elements
  <2>3. PackedLen(type, data) = 4
    BY <1>5, <2>1 DEF PackedLen
  <2> HIDE DEF c
  <2> QED
    BY <1>1, <2>2, <2>3 DEF c
<1>6. CASE type \in Fixed64
  <2>1. type \notin Fixed32 /\ type # "BOOL"
    BY <1>6 DEF Fixed32, Fixed64
  <2>2. c = IF Len(data) % 8 = 0 THEN Len(data) \div 8 ELSE -1
    BY <1>4, <1>6, <2>1 DEF count_packed_elements
  <2>3. PackedLen(type, data) = 8
    BY <1>6, <2>1 DEF PackedLen
  <2> HIDE DEF c
  <2> QED
    BY <1>1, <2>2, <2>3 DEF c
<1>7. CASE type = "BOOL"
  <2>1. type \notin Fixed32 /\ type \notin Fixed64
    BY <1>7 DEF Fixed32, Fixed64
  <2>2. c = Len(data)
    BY <1>4, <1>7, <2>1 DEF count_packed_elements
  <2>3. PackedLen(type, data) = 1
    BY <1>7, <2>1 DEF PackedLen
  <2> HIDE DEF c
  <2> QED
    BY <1>1, <2>2, <2>3 DEF c
<1>8. CASE type \notin Fixed32 /\ type \notin Fixed64 /\ type # "BOOL"
  <2>1. c = Cardinality(final) /\ PackedLen(type, data) = VarintLen(data, 10)
    BY <1>4, <1>8 DEF count_packed_elements, PackedLen, scan_varint
  <2> DEFINE n == VarintLen(data, 10)
  <2>2. n # 0 => n \in 1 .. Len(data) /\ 7 \notin data[n]
    BY VarintLenIs
  <2> HIDE DEF n, final, c
  <2>3. n # 0 => final # {}
    BY <2>2 DEF final
  <2>4. data = <<>> => final = {}
    BY <1>1 DEF final
  <2>5. n \in 1 .. Len(data) => n # 0
    BY <1>1
  <2> QED
    BY <1>2, <1>3, <2>1, <2>3, <2>4, <2>5 DEF c, n
<1> QED
  BY <1>5, <1>6, <1>7, <1>8

(* What parsing a packed run adds to the values before it. *)
LEMMA PackedRun ==
    ASSUME NEW type \in Types32 \cup Types64 \cup {"BOOL"}, NEW data \in Seq(Byte),
           NEW values, IsList(values), count_packed_elements(type, data) # -1
    PROVE  LET r == parse_packed_repeated_member(type, data, values)
           IN  /\ r.ok \in BOOLEAN /\ IsList(r.values)
               /\ r.ok => (r.values # <<>> <=> values # <<>> \/ count_packed_elements(type, data) # 0)
<1> DEFINE f == CHOOSE f : IsRun(type, data, f)
           q == f[0]
           r == parse_packed_repeated_member(type, data, values)
           c == count_packed_elements(type, data)
<1>1. IsRun(type, data, f)
  BY RunExists
<1>2. r = [q EXCEPT !.values = values \o @]
  BY PackedIs
<1> HIDE DEF f
<1>3. Len(data) \in Nat /\ 0 \in 0 .. Len(data)
  OBVIOUS
<1>4. RunState(q) /\ q = RunStep(type, data, f, 0)
  BY <1>1, <1>3, RunsAre DEF IsRun
<1> HIDE DEF q, r, c
<1>5. RunState(r) /\ r.ok = q.ok /\ r.values = values \o q.values
  BY <1>2, <1>4, RunPrefixed
<1>6. r.values # <<>> <=> values # <<>> \/ q.values # <<>>
  <2>1. values # <<>> \/ q.values # <<>> => values \o q.values # <<>>
    BY <1>4, Elements DEF RunState
  <2>2. <<>> \o <<>> = <<>>
    OBVIOUS
  <2> QED
    BY <1>5, <2>1, <2>2
<1> DEFINE rest == SubSeq(data, 0 + 1, Len(data))
<1>7. rest \in Seq(Byte) /\ Len(rest) = Len(data) - 0 /\ (rest = <<>> <=> 0 = Len(data))
  BY <1>3, RestOf
<1>8. rest = data
  <2>1. \A i \in 1 .. Len(data) : rest[i] = data[i]
    OBVIOUS
  <2>2. Len(rest) = Len(data)
    BY <1>3, <1>7
  <2> HIDE DEF rest
  <2> QED
    BY <1>7, <2>1, <2>2, SeqEqual
<1> HIDE DEF rest
<1>9. c \in Nat \cup {-1} /\ (data = <<>> => c = 0) /\ (c # -1 /\ PackedLen(type, data) \in 1 .. Len(data) => c # 0)
  BY CountIs DEF c
<1>10. q.ok => (q.values # <<>> <=> c # 0)
  <2>1. CASE rest = <<>>
    <3>1. q = [ok |-> TRUE, values |-> <<>>]
      BY <1>4, <2>1 DEF RunStep, rest
    <3> QED
      BY <1>8, <1>9, <2>1, <3>1
  <2>2. CASE rest # <<>> /\ RunBad(type, rest)
    <3>1. q = [ok |-> FALSE, values |-> <<>>]
      BY <1>4, <2>2 DEF RunStep, rest
    <3> QED
      BY <3>1
  <2>3. CASE rest # <<>> /\ ~RunBad(type, rest)
    <3> DEFINE s == PackedLen(type, rest)
               v == parse_scalar(type, SubSeq(rest, 1, s))
               w == <<v>>
               z == f[0 + s]
    <3>1. q = [z EXCEPT !.values = w \o @]
      BY <1>4, <2>3 DEF RunStep, rest
    <3>2. s \in 1 .. Len(data)
      BY <1>8, <2>3 DEF RunBad
    <3>3. w # <<>> /\ IsList(w)
      BY IsListOfOne
    <3> HIDE DEF w, s, z
    <3>4. 0 + s \in 0 .. Len(data)
      BY <1>3, <3>2
    <3>5. RunState(z)
      BY <1>1, <3>4, RunsAre DEF z
    <3>6. q.values = w \o z.values
      BY <3>1, <3>3, <3>5, RunPrefixed
    <3>7. q.values # <<>>
      BY <3>3, <3>5, <3>6, Elements DEF RunState
    <3> QED
      BY <1>8, <1>9, <3>2, <3>7 DEF s, c
  <2> QED
    BY <2>1, <2>2, <2>3
<1> QED
  BY <1>5, <1>6, <1>10 DEF RunState, r, c

--------------------------------
(* The first pass *)

(* A tag finds one of the fields, or none. *)
LEMMA FieldIsOne ==
    ASSUME NEW name \in DOMAIN Schema, NEW s, s.last \in 0 .. Len(Schema[name].fields),
           NEW tag \in Nat
    PROVE  FieldOfTag(Schema[name], s, tag) \in 0 .. Len(Schema[name].fields)
<1> DEFINE d == Schema[name]
           places == {i \in 1 .. Len(d.fields) : d.fields[i].id = tag}
<1>1. RangesWellFormed(d) /\ Len(d.fields) \in Nat
  BY SchemaAssumption, FieldsKnown
<1>2. d.ranges = <<>> => d.fields = <<>>
  BY <1>1 DEF RangesWellFormed
<1>3. FieldOf(d, tag) = IF places = {} THEN 0 ELSE CHOOSE i \in places : TRUE
  BY DEF FieldOf
<1>4. places # {} => (CHOOSE i \in places : TRUE) \in places
  OBVIOUS
<1> HIDE DEF d
<1>5. int_range_lookup(d.ranges, tag) = FieldOf(d, tag)
  BY <1>1, <1>2, SearchIsLookup
<1>6. FieldOf(d, tag) \in 0 .. Len(d.fields)
  BY <1>1, <1>3, <1>4
<1> QED
  BY <1>5, <1>6 DEF FieldOfTag, d

(* What the value of a member is made of. *)
Valued(d, mem, n) ==
    /\ mem.field \in 0 .. Len(d.fields)
    /\ mem.data \in Seq(Byte) /\ Len(mem.data) \in Nat /\ Len(mem.data) < n
    /\ mem.pref \in Nat
Body(mem) == SubSeq(mem.data, mem.pref + 1, Len(mem.data))

(* The value of a member is shorter than the message. *)
LEMMA BodyIs ==
    ASSUME NEW d, NEW n \in Nat, NEW mem, Valued(d, mem, n)
    PROVE  Body(mem) \in Seq(Byte) /\ Len(Body(mem)) \in Nat /\ Len(Body(mem)) < n
<1>1. mem.data \in Seq(Byte) /\ Len(mem.data) \in Nat /\ mem.pref \in Nat /\ Len(mem.data) < n
  BY DEF Valued
<1>2. CASE mem.pref <= Len(mem.data)
  <2>1. Body(mem) \in Seq(Byte) /\ Len(Body(mem)) = Len(mem.data) + 1 - (mem.pref + 1)
    BY <1>1, <1>2, SomeBytes DEF Body
  <2> QED
    BY ONLY <1>1, <1>2, <2>1
<1>3. CASE mem.pref > Len(mem.data)
  <2>1. Body(mem) = <<>>
    BY <1>1, <1>3, SubSeqProperties DEF Body
  <2> QED
    BY <1>1, <2>1
<1> QED
  BY <1>1, <1>2, <1>3

(* A packed run has values of a packable type. *)
LEMMA RunType ==
    ASSUME NEW f, FieldWellFormed(f), NEW wiretype, IsPackedRun(f, wiretype)
    PROVE  f.type \in Types32 \cup Types64 \cup {"BOOL"}
<1>1. is_packable_type(f.type)
  BY DEF IsPackedRun, FieldWellFormed
<1> QED
  BY <1>1 DEF FieldWellFormed, is_packable_type

(* The number of values of a member. *)
LEMMA CountType ==
    ASSUME NEW name \in DOMAIN Schema, NEW n \in Nat, NEW mem, Valued(Schema[name], mem, n)
    PROVE  CountOf(Schema[name], mem) \in Nat \cup {-1, -2}
<1> DEFINE d == Schema[name]
           f == d.fields[mem.field]
           c == CountOf(d, mem)
<1>1. c = (IF mem.field = 0 \/ f.label # "repeated" THEN 0
           ELSE IF IsPackedRun(f, mem.wiretype)
                THEN IF Wrapped(mem) THEN -2 ELSE count_packed_elements(f.type, Body(mem))
           ELSE 1)
  BY DEF CountOf, Body
<1>2. mem.field # 0 => FieldWellFormed(f)
  BY FieldsKnown DEF Valued
<1>3. Body(mem) \in Seq(Byte)
  BY BodyIs
<1> SUFFICES c \in Nat \cup {-1, -2}
  OBVIOUS
<1> HIDE DEF d, f, c
<1>4. CASE mem.field = 0 \/ f.label # "repeated" \/ ~IsPackedRun(f, mem.wiretype)
  <2>1. c = 0 \/ c = 1
    BY ONLY <1>1, <1>4, Zenon
  <2> QED
    BY ONLY <2>1
<1>5. CASE mem.field # 0 /\ f.label = "repeated" /\ IsPackedRun(f, mem.wiretype)
  <2>1. f.type \in Types32 \cup Types64 \cup {"BOOL"}
    BY <1>2, <1>5, RunType
  <2>2. count_packed_elements(f.type, Body(mem)) \in Nat \cup {-1}
    BY <1>3, <2>1, CountIs
  <2>3. c = -2 \/ c = count_packed_elements(f.type, Body(mem))
    BY ONLY <1>1, <1>5, Zenon
  <2> QED
    BY ONLY <2>2, <2>3
<1> QED
  BY <1>4, <1>5

(* A state of the scan is a record. *)
ScanState(s) ==
    /\ s = [members |-> s.members, seen |-> s.seen, unknown |-> s.unknown, slabs |-> s.slabs,
            last |-> s.last, n |-> s.n, h |-> s.h, ok |-> s.ok]
    /\ s.ok \in BOOLEAN

(* The state after a member that has been added, but for its slab. *)
WithMember(s, mem, count, t) ==
    /\ t.members = Append(s.members, mem)
    /\ t.last = IF mem.field = 0 THEN s.last ELSE mem.field
    /\ t.seen = s.seen \cup {mem.field}
    /\ t.unknown = s.unknown + (IF mem.field = 0 THEN 1 ELSE 0)
    /\ t.n = IF mem.field = 0 THEN s.n ELSE [s.n EXCEPT ![mem.field] = @ + count]

(* The slab of a member, if it took one. *)
WithSlab(s, t) ==
    \/ t.h \in {s.h, Beyond(s.h)} /\ t.slabs = s.slabs
    \/ CanAlloc(s.h) /\ t.h \in {do_alloc(s.h), Beyond(do_alloc(s.h))} /\ t.slabs = s.slabs + 1

AsGrown(s, t) ==
    \/ t.h = s.h /\ t.slabs = s.slabs
    \/ CanAlloc(s.h) /\ t.h = do_alloc(s.h) /\ t.slabs = s.slabs + 1

(* The scan with one more slab, *)
LEMMA Grown ==
    ASSUME NEW s, ScanState(s)
    PROVE  LET t == [s EXCEPT !.h = do_alloc(@), !.slabs = @ + 1]
           IN  /\ ScanState(t) /\ t.h = do_alloc(s.h) /\ t.slabs = s.slabs + 1
               /\ t.ok = s.ok /\ t.members = s.members /\ t.seen = s.seen /\ t.last = s.last
               /\ t.n = s.n /\ t.unknown = s.unknown
<1> DEFINE g == do_alloc(s.h)
           l == s.slabs + 1
<1> HIDE DEF g, l
<1> DEFINE u == [s EXCEPT !.h = g]
           t == [u EXCEPT !.slabs = l]
<1>1. PICK a, b, c, e, i, j, k, o : s = [members |-> a, seen |-> b, unknown |-> c, slabs |-> e,
                                         last |-> i, n |-> j, h |-> k, ok |-> o]
  BY DEF ScanState
<1>2. s.members = a /\ s.seen = b /\ s.unknown = c /\ s.slabs = e /\ s.last = i /\ s.n = j /\ s.h = k
      /\ s.ok = o
  BY ONLY <1>1
<1>3. u = [members |-> a, seen |-> b, unknown |-> c, slabs |-> e, last |-> i, n |-> j, h |-> g, ok |-> o]
  BY ONLY <1>1
<1>4. u.slabs = s.slabs
  BY <1>2, <1>3
<1> HIDE DEF u
<1>5. t = [members |-> a, seen |-> b, unknown |-> c, slabs |-> l, last |-> i, n |-> j, h |-> g, ok |-> o]
  BY ONLY <1>3
<1>6. t = [s EXCEPT !.h = do_alloc(@), !.slabs = @ + 1]
  BY DEF u, g, l
<1> HIDE DEF t
<1>7. /\ t.members = a /\ t.seen = b /\ t.unknown = c /\ t.slabs = l /\ t.last = i /\ t.n = j
      /\ t.h = g /\ t.ok = o
  BY ONLY <1>5
<1>8. ScanState(t)
  BY <1>2, <1>5, <1>7 DEF ScanState
<1> QED
  BY <1>2, <1>6, <1>7, <1>8 DEF g, l

(* stopped, *)
LEMMA Stopped ==
    ASSUME NEW s, ScanState(s)
    PROVE  LET t == [s EXCEPT !.ok = FALSE]
           IN  ScanState(t) /\ ~t.ok /\ t.h = s.h /\ t.slabs = s.slabs
<1>1. PICK a, b, c, e, i, j, k, o : s = [members |-> a, seen |-> b, unknown |-> c, slabs |-> e,
                                         last |-> i, n |-> j, h |-> k, ok |-> o]
  BY DEF ScanState
<1>2. PICK z : z = FALSE
  OBVIOUS
<1> DEFINE t == [s EXCEPT !.ok = z]
<1>3. t = [members |-> a, seen |-> b, unknown |-> c, slabs |-> e, last |-> i, n |-> j, h |-> k, ok |-> z]
  BY ONLY <1>1
<1>4. s.h = k /\ s.slabs = e
  BY ONLY <1>1
<1> HIDE DEF t
<1>5. /\ t.members = a /\ t.seen = b /\ t.unknown = c /\ t.slabs = e /\ t.last = i /\ t.n = j
      /\ t.h = k /\ t.ok = z
  BY ONLY <1>3
<1>6. z \in BOOLEAN /\ ~z
  BY ONLY <1>2, Zenon
<1>7. t = [members |-> t.members, seen |-> t.seen, unknown |-> t.unknown, slabs |-> t.slabs,
           last |-> t.last, n |-> t.n, h |-> t.h, ok |-> t.ok]
  BY ONLY <1>3, <1>5
<1>8. ScanState(t) /\ ~t.ok
  BY <1>5, <1>6, <1>7, Zenon DEF ScanState
<1>9. t = [s EXCEPT !.ok = FALSE]
  BY <1>2, Zenon DEF t
<1> QED
  BY ONLY <1>4, <1>5, <1>8, <1>9, Zenon

(* stopped with bytes read after the end, *)
LEMMA Passed ==
    ASSUME NEW s, ScanState(s)
    PROVE  LET t == [s EXCEPT !.ok = FALSE, !.h = Beyond(@)]
           IN  ScanState(t) /\ ~t.ok /\ t.h = Beyond(s.h) /\ t.slabs = s.slabs
<1> DEFINE g == Beyond(s.h)
<1> HIDE DEF g
<1> DEFINE u == [s EXCEPT !.ok = FALSE]
           t == [u EXCEPT !.h = g]
<1>1. ScanState(u) /\ ~u.ok /\ u.slabs = s.slabs
  BY Stopped
<1>2. t = [s EXCEPT !.ok = FALSE, !.h = Beyond(@)]
  BY DEF g
<1> HIDE DEF u
<1>3. PICK a, b, c, e, i, j, k, o : u = [members |-> a, seen |-> b, unknown |-> c, slabs |-> e,
                                         last |-> i, n |-> j, h |-> k, ok |-> o]
  BY <1>1 DEF ScanState
<1>4. t = [members |-> a, seen |-> b, unknown |-> c, slabs |-> e, last |-> i, n |-> j, h |-> g, ok |-> o]
  BY ONLY <1>3
<1>5. u.slabs = e /\ u.ok = o
  BY ONLY <1>3
<1> HIDE DEF t
<1>6. /\ t.members = a /\ t.seen = b /\ t.unknown = c /\ t.slabs = e /\ t.last = i /\ t.n = j
      /\ t.h = g /\ t.ok = o
  BY ONLY <1>4
<1>7. u.ok \in BOOLEAN
  BY <1>1 DEF ScanState
<1> QED
  BY <1>1, <1>2, <1>4, <1>5, <1>6, <1>7 DEF ScanState, g

(* and with one more member. *)
LEMMA Filed ==
    ASSUME NEW s, ScanState(s), NEW mem, NEW count
    PROVE  LET t == [s EXCEPT
                       !.members = Append(@, mem),
                       !.last = IF mem.field = 0 THEN @ ELSE mem.field,
                       !.seen = @ \cup {mem.field},
                       !.unknown = @ + (IF mem.field = 0 THEN 1 ELSE 0),
                       !.n = IF mem.field = 0 THEN @ ELSE [s.n EXCEPT ![mem.field] = @ + count]]
           IN  ScanState(t) /\ t.ok = s.ok /\ t.h = s.h /\ t.slabs = s.slabs /\ WithMember(s, mem, count, t)
<1> DEFINE v1 == Append(s.members, mem)
           v2 == IF mem.field = 0 THEN s.last ELSE mem.field
           v3 == s.seen \cup {mem.field}
           v4 == s.unknown + (IF mem.field = 0 THEN 1 ELSE 0)
           v5 == IF mem.field = 0 THEN s.n ELSE [s.n EXCEPT ![mem.field] = @ + count]
<1> HIDE DEF v1, v2, v3, v4, v5
<1> DEFINE t1 == [s EXCEPT !.members = v1]
           t2 == [t1 EXCEPT !.last = v2]
           t3 == [t2 EXCEPT !.seen = v3]
           t4 == [t3 EXCEPT !.unknown = v4]
           t5 == [t4 EXCEPT !.n = v5]
<1>1. PICK a, b, c, e, i, j, k, o : s = [members |-> a, seen |-> b, unknown |-> c, slabs |-> e,
                                         last |-> i, n |-> j, h |-> k, ok |-> o]
  BY DEF ScanState
<1>2. s.members = a /\ s.seen = b /\ s.unknown = c /\ s.slabs = e /\ s.last = i /\ s.n = j /\ s.h = k
      /\ s.ok = o
  BY ONLY <1>1
<1>3. t1 = [members |-> v1, seen |-> b, unknown |-> c, slabs |-> e, last |-> i, n |-> j, h |-> k, ok |-> o]
  BY ONLY <1>1
<1>4. t1.last = s.last
  BY <1>2, <1>3
<1> HIDE DEF t1
<1>5. t2 = [members |-> v1, seen |-> b, unknown |-> c, slabs |-> e, last |-> v2, n |-> j, h |-> k, ok |-> o]
  BY ONLY <1>3
<1>6. t2.seen = s.seen
  BY <1>2, <1>5
<1> HIDE DEF t2
<1>7. t3 = [members |-> v1, seen |-> v3, unknown |-> c, slabs |-> e, last |-> v2, n |-> j, h |-> k, ok |-> o]
  BY ONLY <1>5
<1>8. t3.unknown = s.unknown
  BY <1>2, <1>7
<1> HIDE DEF t3
<1>9. t4 = [members |-> v1, seen |-> v3, unknown |-> v4, slabs |-> e, last |-> v2, n |-> j, h |-> k, ok |-> o]
  BY ONLY <1>7
<1>10. t4.n = s.n
  BY <1>2, <1>9
<1> HIDE DEF t4
<1>11. t5 = [members |-> v1, seen |-> v3, unknown |-> v4, slabs |-> e, last |-> v2, n |-> v5, h |-> k, ok |-> o]
  BY ONLY <1>9
<1>12. t5 = [s EXCEPT
               !.members = Append(@, mem),
               !.last = IF mem.field = 0 THEN @ ELSE mem.field,
               !.seen = @ \cup {mem.field},
               !.unknown = @ + (IF mem.field = 0 THEN 1 ELSE 0),
               !.n = IF mem.field = 0 THEN @ ELSE [s.n EXCEPT ![mem.field] = @ + count]]
  <2>1. t2 = [s EXCEPT !.members = v1, !.last = v2]
    BY DEF t2, t1
  <2>2. t3 = [s EXCEPT !.members = v1, !.last = v2, !.seen = v3]
    BY <2>1 DEF t3
  <2>3. t4 = [s EXCEPT !.members = v1, !.last = v2, !.seen = v3, !.unknown = v4]
    BY <2>2 DEF t4
  <2>4. t5 = [s EXCEPT !.members = v1, !.last = v2, !.seen = v3, !.unknown = v4, !.n = v5]
    BY <2>3 DEF t5
  <2>5. [s EXCEPT !.members = v1, !.last = v2, !.seen = v3, !.unknown = v4, !.n = v5]
        = [s EXCEPT
               !.members = Append(@, mem),
               !.last = IF mem.field = 0 THEN @ ELSE mem.field,
               !.seen = @ \cup {mem.field},
               !.unknown = @ + (IF mem.field = 0 THEN 1 ELSE 0),
               !.n = IF mem.field = 0 THEN @ ELSE [s.n EXCEPT ![mem.field] = @ + count]]
    BY DEF v1, v2, v3, v4, v5
  <2> QED
    BY <2>4, <2>5
<1> HIDE DEF t5
<1>13. /\ t5.members = v1 /\ t5.seen = v3 /\ t5.unknown = v4 /\ t5.slabs = e /\ t5.last = v2 /\ t5.n = v5
       /\ t5.h = k /\ t5.ok = o
  BY ONLY <1>11
<1>14. ScanState(t5)
  BY <1>2, <1>11, <1>13 DEF ScanState
<1>15. WithMember(s, mem, count, t5)
  BY <1>13 DEF WithMember, v1, v2, v3, v4, v5
<1>16. t5.ok = s.ok /\ t5.h = s.h /\ t5.slabs = s.slabs
  BY ONLY <1>2, <1>13
<1> QED
  BY ONLY <1>12, <1>14, <1>15, <1>16, Zenon

(* A member is added, or the scan stops. *)
AddedOK(s, mem, count, t) ==
    /\ ScanState(t) /\ WithSlab(s, t)
    /\ t.ok => count \notin {-1, -2} /\ WithMember(s, mem, count, t)

(* AddMember does one or the other. *)
LEMMA Added ==
    ASSUME NEW s, ScanState(s), s.ok, NEW mem, NEW count
    PROVE  AddedOK(s, mem, count, AddMember(s, mem, count))
<1> DEFINE grown == IF SlabsFull(s) THEN [s EXCEPT !.h = do_alloc(@), !.slabs = @ + 1] ELSE s
           filed == [grown EXCEPT
                !.members = Append(@, mem),
                !.last = IF mem.field = 0 THEN @ ELSE mem.field,
                !.seen = @ \cup {mem.field},
                !.unknown = @ + (IF mem.field = 0 THEN 1 ELSE 0),
                !.n = IF mem.field = 0 THEN @ ELSE [s.n EXCEPT ![mem.field] = @ + count]]
           stopped == [s EXCEPT !.ok = FALSE]
           ended == [grown EXCEPT !.ok = FALSE]
           passed == [grown EXCEPT !.ok = FALSE, !.h = Beyond(@)]
<1>1. AddMember(s, mem, count)
      = IF SlabsFull(s) /\ ~CanAlloc(s.h) THEN stopped
        ELSE IF count = -1 THEN ended ELSE IF count = -2 THEN passed ELSE filed
  BY DEF AddMember
<1>2. /\ ScanState(grown) /\ grown.ok = s.ok /\ grown.members = s.members /\ grown.seen = s.seen
      /\ grown.last = s.last /\ grown.n = s.n /\ grown.unknown = s.unknown
      /\ ~(SlabsFull(s) /\ ~CanAlloc(s.h)) => AsGrown(s, grown)
  <2>1. CASE SlabsFull(s)
    <3>1. /\ ScanState(grown) /\ grown.h = do_alloc(s.h) /\ grown.slabs = s.slabs + 1
          /\ grown.ok = s.ok /\ grown.members = s.members /\ grown.seen = s.seen /\ grown.last = s.last
          /\ grown.n = s.n /\ grown.unknown = s.unknown
      BY <2>1, Grown
    <3> HIDE DEF grown
    <3> QED
      BY <2>1, <3>1 DEF AsGrown
  <2>2. CASE ~SlabsFull(s)
    <3>1. grown = s
      BY <2>2
    <3> HIDE DEF grown
    <3> QED
      BY <3>1 DEF AsGrown
  <2> QED
    BY <2>1, <2>2
<1>3. ScanState(stopped) /\ ~stopped.ok /\ stopped.h = s.h /\ stopped.slabs = s.slabs
  BY Stopped
<1> HIDE DEF grown, stopped
<1>4. /\ ScanState(ended) /\ ~ended.ok /\ ended.h = grown.h /\ ended.slabs = grown.slabs
      /\ ScanState(passed) /\ ~passed.ok /\ passed.h = Beyond(grown.h) /\ passed.slabs = grown.slabs
  BY <1>2, Stopped, Passed
<1>5. /\ ScanState(filed) /\ filed.ok = grown.ok /\ filed.h = grown.h /\ filed.slabs = grown.slabs
      /\ WithMember(grown, mem, count, filed)
  <2> DEFINE again == [grown EXCEPT
                !.members = Append(@, mem),
                !.last = IF mem.field = 0 THEN @ ELSE mem.field,
                !.seen = @ \cup {mem.field},
                !.unknown = @ + (IF mem.field = 0 THEN 1 ELSE 0),
                !.n = IF mem.field = 0 THEN @ ELSE [grown.n EXCEPT ![mem.field] = @ + count]]
  <2>1. filed = again
    <3>1. grown.n = s.n
      BY <1>2
    <3> QED
      BY ONLY <3>1
  <2>2. /\ ScanState(again) /\ again.ok = grown.ok /\ again.h = grown.h /\ again.slabs = grown.slabs
        /\ WithMember(grown, mem, count, again)
    BY <1>2, Filed
  <2> HIDE DEF filed, again
  <2> QED
    BY ONLY <2>1, <2>2
<1> HIDE DEF ended, passed, filed
<1>6. CASE SlabsFull(s) /\ ~CanAlloc(s.h)
  <2>1. AddMember(s, mem, count) = stopped
    BY <1>1, <1>6
  <2> QED
    BY <1>3, <2>1 DEF AddedOK, WithSlab
<1>7. CASE ~(SlabsFull(s) /\ ~CanAlloc(s.h)) /\ count \in {-1, -2}
  <2>1. AddMember(s, mem, count) = IF count = -1 THEN ended ELSE passed
    BY <1>1, <1>7
  <2> QED
    BY <1>2, <1>4, <1>7, <2>1 DEF AddedOK, WithSlab, AsGrown
<1>8. CASE ~(SlabsFull(s) /\ ~CanAlloc(s.h)) /\ count \notin {-1, -2}
  <2>1. AddMember(s, mem, count) = filed
    BY <1>1, <1>8
  <2>2. WithMember(s, mem, count, filed)
    BY <1>2, <1>5 DEF WithMember
  <2> QED
    BY <1>2, <1>5, <1>8, <2>1, <2>2 DEF AddedOK, WithSlab, AsGrown
<1> QED
  BY <1>6, <1>7, <1>8

(* What the members that were scanned say of the fields. *)
Reached(d, s, n) ==
    /\ IsList(s.members)
    /\ s.last \in 0 .. Len(d.fields)
    /\ s.unknown \in Nat
    /\ s.n \in [1 .. Len(d.fields) -> Nat]
    /\ \A i \in 1 .. Len(s.members) : Valued(d, s.members[i], n) /\ CountOf(d, s.members[i]) \in Nat
    /\ s.unknown # 0 <=> \E i \in 1 .. Len(s.members) : s.members[i].field = 0
    /\ \A j \in 1 .. Len(d.fields) :
          /\ j \in s.seen => \E i \in 1 .. Len(s.members) : s.members[i].field = j
          /\ s.n[j] # 0 <=> \E i \in 1 .. Len(s.members) :
                               s.members[i].field = j /\ CountOf(d, s.members[i]) # 0

(* The slabs, and the structure of the message, are all that is allocated. *)
ScanInv(d, s, h, n) ==
    /\ ScanState(s)
    /\ s.slabs \in Nat /\ s.h \in Heaps /\ s.h.crashed = h.crashed /\ s.h.live = h.live + 1 + s.slabs
    /\ s.ok => Reached(d, s, n)

(* A list with one more element. *)
LEMMA Appended ==
    ASSUME NEW s, IsList(s), NEW v
    PROVE  LET t == Append(s, v)
           IN  /\ IsList(t) /\ Len(s) \in Nat /\ Len(t) = Len(s) + 1 /\ t[Len(s) + 1] = v
               /\ \A i \in 1 .. Len(s) : t[i] = s[i]
<1> DEFINE R == Range(s) \cup {v}
           t == Append(s, v)
<1>1. s \in Seq(R) /\ v \in R
  BY DEF IsList
<1> HIDE DEF R
<1>2. /\ t \in Seq(R) /\ Len(s) \in Nat /\ Len(t) = Len(s) + 1 /\ t[Len(s) + 1] = v
      /\ \A i \in 1 .. Len(s) : t[i] = s[i]
  BY <1>1
<1> HIDE DEF t
<1>3. IsList(t)
  BY <1>2 DEF IsList, Range
<1> QED
  BY <1>2, <1>3 DEF t

(* One more member. *)
LEMMA MemberReached ==
    ASSUME NEW d, Len(d.fields) \in Nat, NEW s, NEW n \in Nat, Reached(d, s, n),
           NEW mem, Valued(d, mem, n), CountOf(d, mem) \in Nat,
           NEW t, WithMember(s, mem, CountOf(d, mem), t)
    PROVE  Reached(d, t, n)
<1> DEFINE c == CountOf(d, mem)
           k == Len(s.members)
           ms == s.members
           mt == t.members
           F == 1 .. Len(d.fields)
<1>1. /\ mt = Append(ms, mem)
      /\ t.last = IF mem.field = 0 THEN s.last ELSE mem.field
      /\ t.seen = s.seen \cup {mem.field}
      /\ t.unknown = s.unknown + (IF mem.field = 0 THEN 1 ELSE 0)
      /\ t.n = IF mem.field = 0 THEN s.n ELSE [s.n EXCEPT ![mem.field] = s.n[mem.field] + c]
  BY DEF WithMember
<1>2. mem.field \in 0 .. Len(d.fields) /\ c \in Nat
  BY DEF Valued
<1>3. IsList(ms) /\ s.last \in 0 .. Len(d.fields) /\ s.unknown \in Nat /\ s.n \in [F -> Nat]
  BY DEF Reached
<1>4. /\ \A i \in 1 .. k : Valued(d, ms[i], n) /\ CountOf(d, ms[i]) \in Nat
      /\ s.unknown # 0 <=> \E i \in 1 .. k : ms[i].field = 0
  BY DEF Reached
<1>5. \A j \in F :
         /\ j \in s.seen => \E i \in 1 .. k : ms[i].field = j
         /\ s.n[j] # 0 <=> \E i \in 1 .. k : ms[i].field = j /\ CountOf(d, ms[i]) # 0
  BY DEF Reached
<1>6. /\ IsList(mt) /\ k \in Nat /\ Len(mt) = k + 1 /\ mt[k + 1] = mem
      /\ \A i \in 1 .. k : mt[i] = ms[i]
  BY <1>1, <1>3, Appended
<1>7. /\ \A i \in 1 .. Len(mt) : i \in 1 .. k \/ i = k + 1
      /\ \A i \in 1 .. k : i \in 1 .. Len(mt)
      /\ k + 1 \in 1 .. Len(mt)
  BY <1>6
<1> HIDE DEF c, k, ms, mt, F
<1>8. \A i \in 1 .. Len(mt) : Valued(d, mt[i], n) /\ CountOf(d, mt[i]) \in Nat
  BY <1>2, <1>4, <1>6, <1>7 DEF c
<1>9. t.last \in 0 .. Len(d.fields) /\ t.unknown \in Nat
  BY <1>1, <1>2, <1>3
<1>10. t.n \in [F -> Nat]
  <2>1. CASE mem.field = 0
    BY <1>1, <1>3, <2>1
  <2>2. CASE mem.field # 0
    <3>1. mem.field \in F
      BY <1>2, <2>2 DEF F
    <3>2. s.n[mem.field] + c \in Nat
      BY <1>2, <1>3, <3>1
    <3> QED
      BY <1>1, <1>3, <2>2, <3>1, <3>2
  <2> QED
    BY <2>1, <2>2
<1>11. t.unknown # 0 <=> \E i \in 1 .. Len(mt) : mt[i].field = 0
  <2>1. (\E i \in 1 .. Len(mt) : mt[i].field = 0) <=> mem.field = 0 \/ \E i \in 1 .. k : ms[i].field = 0
    BY <1>6, <1>7
  <2>2. t.unknown # 0 <=> mem.field = 0 \/ s.unknown # 0
    BY <1>1, <1>3
  <2> QED
    BY <1>4, <2>1, <2>2
<1>12. ASSUME NEW j \in F
       PROVE  /\ j \in t.seen => \E i \in 1 .. Len(mt) : mt[i].field = j
              /\ t.n[j] # 0 <=> \E i \in 1 .. Len(mt) : mt[i].field = j /\ CountOf(d, mt[i]) # 0
  <2>1. j # 0 /\ j \in Nat
    BY DEF F
  <2>2. j \in t.seen => \E i \in 1 .. Len(mt) : mt[i].field = j
    <3>1. j \in s.seen => \E i \in 1 .. Len(mt) : mt[i].field = j
      BY <1>5, <1>6, <1>7
    <3>2. j = mem.field => \E i \in 1 .. Len(mt) : mt[i].field = j
      BY <1>6, <1>7
    <3> QED
      BY <1>1, <3>1, <3>2
  <2>3. (\E i \in 1 .. Len(mt) : mt[i].field = j /\ CountOf(d, mt[i]) # 0)
        <=> (mem.field = j /\ c # 0) \/ \E i \in 1 .. k : ms[i].field = j /\ CountOf(d, ms[i]) # 0
    BY <1>6, <1>7 DEF c
  <2>4. t.n[j] # 0 <=> (mem.field = j /\ c # 0) \/ s.n[j] # 0
    <3>1. CASE mem.field = 0
      BY <1>1, <2>1, <3>1
    <3>2. CASE mem.field # 0 /\ j # mem.field
      BY <1>1, <1>3, <3>2
    <3>3. CASE mem.field # 0 /\ j = mem.field
      <4>1. t.n[j] = s.n[j] + c
        BY <1>1, <1>3, <3>3
      <4>2. s.n[j] \in Nat
        BY <1>3
      <4> QED
        BY <1>2, <3>3, <4>1, <4>2
    <3> QED
      BY <3>1, <3>2, <3>3
  <2> QED
    BY <1>5, <2>2, <2>3, <2>4
<1>13. IsList(mt)
  BY <1>6
<1> QED
  BY <1>8, <1>9, <1>10, <1>11, <1>12, <1>13 DEF Reached, mt, F

(* A member is scanned. *)
LEMMA ScanMemberKeeps ==
    ASSUME NEW name \in DOMAIN Schema, NEW n \in Nat, NEW s, NEW h \in Heaps,
           ScanInv(Schema[name], s, h, n), NEW mem, Whole(mem, n)
    PROVE  ScanInv(Schema[name], ScanMember(Schema[name], s, mem), h, n)
<1> DEFINE d == Schema[name]
           found == [mem EXCEPT !.field = FieldOfTag(d, s, mem.tag)]
           t == AddMember(s, found, CountOf(d, found))
           stopped == [s EXCEPT !.ok = FALSE]
<1>1. ScanMember(d, s, mem) = IF ~s.ok THEN s ELSE IF mem.size = 0 THEN stopped ELSE t
  BY DEF ScanMember
<1>2. ScanState(s) /\ ScanState(stopped) /\ ~stopped.ok /\ stopped.h = s.h /\ stopped.slabs = s.slabs
  BY Stopped DEF ScanInv
<1>3. /\ s.slabs \in Nat /\ s.h \in Heaps /\ s.h.crashed = h.crashed /\ s.h.live = h.live + 1 + s.slabs
      /\ s.ok => Reached(d, s, n)
  BY DEF ScanInv
<1>4. CASE ~s.ok
  <2>1. ScanMember(d, s, mem) = s
    BY <1>1, <1>4
  <2> QED
    BY <2>1
<1>5. CASE s.ok /\ mem.size = 0
  <2>1. ScanMember(d, s, mem) = stopped
    BY <1>1, <1>5
  <2> HIDE DEF stopped
  <2>2. ScanInv(d, stopped, h, n)
    BY <1>2, <1>3 DEF ScanInv
  <2> QED
    BY <2>1, <2>2
<1>6. CASE s.ok /\ mem.size # 0
  <2>1. ScanMember(d, s, mem) = t
    BY <1>1, <1>6
  <2>2. FieldOfTag(d, s, mem.tag) \in 0 .. Len(d.fields)
    BY <1>3, <1>6, FieldIsOne DEF Reached, Whole
  <2>3. Valued(d, found, n)
    <3> DEFINE k == FieldOfTag(d, s, mem.tag)
    <3> HIDE DEF k
    <3> DEFINE x == [mem EXCEPT !.field = k]
    <3>1. PICK a, b, c, e, p, q : mem = [field |-> a, tag |-> b, wiretype |-> c, data |-> e, pref |-> p, size |-> q]
      BY DEF Whole
    <3>2. x = [field |-> k, tag |-> b, wiretype |-> c, data |-> e, pref |-> p, size |-> q]
      BY ONLY <3>1
    <3>3. mem.data = e /\ mem.pref = p
      BY ONLY <3>1
    <3> HIDE DEF x
    <3>4. x.field = k /\ x.data = mem.data /\ x.pref = mem.pref
      BY ONLY <3>2, <3>3
    <3>5. k \in 0 .. Len(d.fields)
      BY <2>2 DEF k
    <3>6. mem.data \in Seq(Byte) /\ Len(mem.data) \in Nat /\ Len(mem.data) < n /\ mem.pref \in Nat
      BY <1>6 DEF Whole
    <3>7. Valued(d, x, n)
      BY <3>4, <3>5, <3>6 DEF Valued
    <3> QED
      BY <3>7 DEF x, k
  <2> DEFINE c == CountOf(d, found)
  <2>4. c \in Nat \cup {-1, -2}
    BY <2>3, CountType
  <2>5. AddedOK(s, found, c, t)
    BY <1>2, <1>6, Added
  <2> HIDE DEF found
  <2>6. /\ t.slabs \in Nat /\ t.h \in Heaps /\ t.h.crashed = h.crashed
        /\ t.h.live = h.live + 1 + t.slabs /\ ScanState(t)
    <3> HIDE DEF t, c
    <3>1. ScanState(t) /\ WithSlab(s, t)
      BY <2>5 DEF AddedOK
    <3>0. \A k \in Heaps : Beyond(k) \in Heaps /\ Beyond(k).crashed = k.crashed /\ Beyond(k).live = k.live
      BY AllocatedHeap
    <3>2. CASE t.h \in {s.h, Beyond(s.h)} /\ t.slabs = s.slabs
      BY <1>3, <3>0, <3>1, <3>2
    <3>3. CASE CanAlloc(s.h) /\ t.h \in {do_alloc(s.h), Beyond(do_alloc(s.h))} /\ t.slabs = s.slabs + 1
      <4>1. h.live \in Int
        BY AllocatedHeap
      <4>2. do_alloc(s.h) \in Heaps /\ do_alloc(s.h).crashed = s.h.crashed /\ do_alloc(s.h).live = s.h.live + 1
        BY <1>3, <3>3, AllocatedHeap
      <4>3. t.h \in Heaps /\ t.h.crashed = s.h.crashed /\ t.h.live = s.h.live + 1
        BY <3>0, <3>3, <4>2
      <4> QED
        BY <1>3, <3>1, <3>3, <4>1, <4>3
    <3> QED
      BY <3>1, <3>2, <3>3 DEF WithSlab
  <2>7. t.ok => Reached(d, t, n)
    <3> SUFFICES ASSUME t.ok PROVE Reached(d, t, n)
      OBVIOUS
    <3>1. c \notin {-1, -2} /\ WithMember(s, found, c, t)
      BY <2>5 DEF AddedOK
    <3>2. c \in Nat
      BY <2>4, <3>1
    <3>3. Len(d.fields) \in Nat
      BY FieldsKnown
    <3> HIDE DEF t, d
    <3> QED
      BY <1>3, <1>6, <2>3, <3>1, <3>2, <3>3, MemberReached
  <2> HIDE DEF t
  <2>8. ScanInv(d, t, h, n)
    BY <2>6, <2>7 DEF ScanInv
  <2> QED
    BY <2>1, <2>8
<1> QED
  BY <1>4, <1>5, <1>6

ScanStep(d, s, members, f, i) == IF i = 0 THEN s ELSE ScanMember(d, f[i - 1], members[i])
IsScan(d, s, members, f) == f = [i \in 0 .. Len(members) |-> ScanStep(d, s, members, f, i)]

(* Scan is a function of the number of members, when there is one. *)
LEMMA ScanIs ==
    ASSUME NEW d, NEW s, NEW members
    PROVE  Scan(d, s, members) = (CHOOSE f : IsScan(d, s, members, f))[Len(members)]
BY DEF Scan, IsScan, ScanStep

(* There is such a function. *)
LEMMA ScanExists ==
    ASSUME NEW d, NEW s, NEW members, Len(members) \in Nat
    PROVE  \E f : IsScan(d, s, members, f)
<1> DEFINE T == {k \in Nat : \E f : f = [i \in 0 .. k |-> ScanStep(d, s, members, f, i)]}
<1>1. 0 \in T
  <2> DEFINE f == [i \in 0 .. 0 |-> s]
  <2>1. \A i \in 0 .. 0 : ScanStep(d, s, members, f, i) = s
    BY DEF ScanStep
  <2>2. f = [i \in 0 .. 0 |-> ScanStep(d, s, members, f, i)]
    BY <2>1
  <2> HIDE DEF f
  <2> QED
    BY <2>2
<1>2. ASSUME NEW k \in Nat, k \in T PROVE k + 1 \in T
  <2>1. PICK f : f = [i \in 0 .. k |-> ScanStep(d, s, members, f, i)]
    BY <1>2
  <2> DEFINE t == [i \in 0 .. k + 1 |-> IF i \in 0 .. k THEN f[i] ELSE ScanStep(d, s, members, f, k + 1)]
  <2>2. \A i \in 0 .. k : t[i] = f[i] /\ f[i] = ScanStep(d, s, members, f, i)
    BY <2>1
  <2>3. t[k + 1] = ScanStep(d, s, members, f, k + 1)
    OBVIOUS
  <2>4. DOMAIN t = 0 .. k + 1 /\ t = [i \in 0 .. k + 1 |-> t[i]]
    OBVIOUS
  <2> HIDE DEF t
  <2>5. \A i \in 0 .. k + 1 : ScanStep(d, s, members, t, i) = ScanStep(d, s, members, f, i)
    <3> SUFFICES ASSUME NEW i \in 0 .. k + 1, i # 0
                 PROVE  ScanStep(d, s, members, t, i) = ScanStep(d, s, members, f, i)
      BY DEF ScanStep
    <3>1. i - 1 \in 0 .. k
      OBVIOUS
    <3>2. t[i - 1] = f[i - 1]
      BY <2>2, <3>1
    <3> QED
      BY <3>2 DEF ScanStep
  <2>6. \A i \in 0 .. k + 1 : i \in 0 .. k \/ i = k + 1
    OBVIOUS
  <2>7. \A i \in 0 .. k + 1 : t[i] = ScanStep(d, s, members, t, i)
    BY <2>2, <2>3, <2>5, <2>6
  <2>8. t = [i \in 0 .. k + 1 |-> ScanStep(d, s, members, t, i)]
    BY <2>4, <2>7
  <2>9. k + 1 \in Nat
    OBVIOUS
  <2> QED
    BY <2>8, <2>9
<1>3. Len(members) \in T
  <2> HIDE DEF T
  <2> QED
    BY <1>1, <1>2, SetInduction
<1> QED
  BY <1>3 DEF IsScan

(* All members are scanned. *)
LEMMA ScanKeeps ==
    ASSUME NEW name \in DOMAIN Schema, NEW n \in Nat, NEW s, NEW h \in Heaps,
           ScanInv(Schema[name], s, h, n), NEW members, AllWhole(members, n)
    PROVE  ScanInv(Schema[name], Scan(Schema[name], s, members), h, n)
<1> DEFINE d == Schema[name]
           f == CHOOSE f : IsScan(d, s, members, f)
           N == Len(members)
           T == {i \in Nat : i <= N => ScanInv(d, f[i], h, n)}
<1>1. N \in Nat /\ \A i \in 1 .. N : Whole(members[i], n)
  BY DEF AllWhole
<1>2. IsScan(d, s, members, f) /\ Scan(d, s, members) = f[N]
  BY <1>1, ScanExists, ScanIs
<1> HIDE DEF f, N, d
<1>3. \A i \in 0 .. N : f[i] = ScanStep(d, s, members, f, i)
  BY <1>2 DEF IsScan, N
<1>4. 0 \in T
  <2>1. 0 \in 0 .. N
    BY <1>1
  <2>2. f[0] = s
    BY <1>3, <2>1 DEF ScanStep
  <2> QED
    BY <2>2 DEF d
<1>5. ASSUME NEW i \in Nat, i \in T PROVE i + 1 \in T
  <2> SUFFICES ASSUME i + 1 <= N PROVE ScanInv(d, f[i + 1], h, n)
    OBVIOUS
  <2>1. i <= N /\ i + 1 \in 1 .. N /\ i + 1 \in 0 .. N /\ (i + 1) - 1 = i /\ i + 1 # 0
    BY <1>1
  <2>2. ScanInv(d, f[i], h, n)
    BY <1>5, <2>1
  <2>3. f[i + 1] = ScanMember(d, f[i], members[i + 1])
    BY <1>3, <2>1 DEF ScanStep
  <2>4. Whole(members[i + 1], n)
    BY <1>1, <2>1
  <2> HIDE DEF T
  <2> DEFINE r == f[i]
             mem == members[i + 1]
  <2> HIDE DEF r, mem
  <2>5. ScanInv(d, ScanMember(d, r, mem), h, n)
    BY <2>2, <2>4, ScanMemberKeeps DEF r, mem, d
  <2> QED
    BY <2>3, <2>5 DEF r, mem
<1>6. Nat \subseteq T
  <2> HIDE DEF T
  <2> QED
    BY <1>4, <1>5, SetInduction
<1>7. ScanInv(d, f[N], h, n)
  BY <1>1, <1>6
<1> QED
  BY <1>2, <1>7 DEF d

(* The scan starts with the structure allocated. *)
LEMMA StartKeeps ==
    ASSUME NEW name \in DOMAIN Schema, NEW n \in Nat, NEW h \in Heaps, CanAlloc(h)
    PROVE  ScanInv(Schema[name], StartScan(Schema[name], h), h, n)
<1> DEFINE d == Schema[name]
           s == StartScan(d, h)
           g == do_alloc(h)
           first == IF d.fields = <<>> THEN 0 ELSE 1
           zero == [i \in 1 .. Len(d.fields) |-> 0]
<1>1. g \in Heaps /\ g.crashed = h.crashed /\ g.live = h.live + 1 /\ h.live \in Int
  BY AllocatedHeap
<1>2. s = [members |-> <<>>, seen |-> {}, unknown |-> 0, slabs |-> 0, last |-> first,
           n |-> zero, h |-> g, ok |-> TRUE]
  BY DEF StartScan
<1>3. Len(d.fields) \in Nat /\ (d.fields # <<>> => Len(d.fields) # 0)
  <2>1. d.fields \in Seq(Range(d.fields))
    BY FieldsKnown
  <2> QED
    BY <2>1
<1>4. first \in 0 .. Len(d.fields)
  BY <1>3
<1>5. zero \in [1 .. Len(d.fields) -> Nat] /\ \A j \in 1 .. Len(d.fields) : zero[j] = 0
  OBVIOUS
<1> HIDE DEF s, g, first, zero
<1>6. /\ s.members = <<>> /\ s.seen = {} /\ s.unknown = 0 /\ s.slabs = 0 /\ s.last = first
      /\ s.n = zero /\ s.h = g /\ s.ok = TRUE
  BY ONLY <1>2
<1>7. ScanState(s)
  BY <1>2, <1>6 DEF ScanState
<1>8. IsList(<<>>) /\ Len(<<>>) = 0 /\ 1 .. Len(<<>>) = {}
  BY DEF IsList
<1>9. Reached(d, s, n)
  <2>1. IsList(s.members) /\ 1 .. Len(s.members) = {}
    BY <1>6, <1>8
  <2>2. s.last \in 0 .. Len(d.fields) /\ s.unknown \in Nat /\ s.n \in [1 .. Len(d.fields) -> Nat]
    BY <1>4, <1>5, <1>6
  <2>3. \A j \in 1 .. Len(d.fields) : j \notin s.seen /\ s.n[j] = 0
    BY <1>5, <1>6
  <2>4. s.unknown = 0
    BY <1>6
  <2> QED
    BY <2>1, <2>2, <2>3, <2>4 DEF Reached
<1> QED
  BY <1>1, <1>6, <1>7, <1>9 DEF ScanInv, s

(* What the first pass finds. *)
LEMMA FirstPass ==
    ASSUME NEW name \in DOMAIN Schema, NEW data \in Seq(Byte), NEW h \in Heaps, CanAlloc(h)
    PROVE  ScanInv(Schema[name], Scan(Schema[name], StartScan(Schema[name], h), Members(data)), h, Len(data))
<1>1. Len(data) \in Nat /\ AllWhole(Members(data), Len(data))
  BY MembersAre
<1> DEFINE n == Len(data)
           ms == Members(data)
           s == StartScan(Schema[name], h)
<1> HIDE DEF n, ms, s
<1>2. ScanInv(Schema[name], s, h, n)
  BY <1>1, StartKeeps DEF s, n
<1>3. ScanInv(Schema[name], Scan(Schema[name], s, ms), h, n)
  BY <1>1, <1>2, ScanKeeps DEF ms, n
<1> QED
  BY <1>3 DEF n, ms, s

--------------------------------
(* The second pass *)

(* A state of the second pass is a record. *)
AllocState(a) ==
    a = [ok |-> a.ok, n |-> a.n, arrays |-> a.arrays, h |-> a.h] /\ a.ok \in BOOLEAN

(* The count of a field is cleared, and what else a step changes. *)
ClearedTo(a, i, t) == AllocState(t) /\ t.n = [a.n EXCEPT ![i] = 0]

(* A count is cleared, *)
LEMMA Cleared ==
    ASSUME NEW a, AllocState(a), NEW i
    PROVE  LET t == [a EXCEPT !.n[i] = 0]
           IN  ClearedTo(a, i, t) /\ t.ok = a.ok /\ t.arrays = a.arrays /\ t.h = a.h
<1>1. PICK o, v, b, g : a = [ok |-> o, n |-> v, arrays |-> b, h |-> g]
  BY DEF AllocState
<1>2. a.ok = o /\ a.n = v /\ a.arrays = b /\ a.h = g
  BY ONLY <1>1
<1> DEFINE w == [v EXCEPT ![i] = 0]
           t == [a EXCEPT !.n[i] = 0]
<1>3. t = [a EXCEPT !.n = w]
  BY <1>2
<1> HIDE DEF w
<1>4. [a EXCEPT !.n = w] = [ok |-> o, n |-> w, arrays |-> b, h |-> g]
  BY ONLY <1>1
<1>5. t = [ok |-> o, n |-> w, arrays |-> b, h |-> g]
  BY ONLY <1>3, <1>4
<1> HIDE DEF t
<1>6. t.ok = o /\ t.n = w /\ t.arrays = b /\ t.h = g
  BY ONLY <1>5
<1>7. AllocState(t)
  BY <1>2, <1>5, <1>6 DEF AllocState
<1>8. t.n = [a.n EXCEPT ![i] = 0]
  BY <1>2, <1>6 DEF w
<1>9. ClearedTo(a, i, t)
  BY <1>7, <1>8 DEF ClearedTo
<1> QED
  BY <1>2, <1>6, <1>9 DEF t

(* the pass ends, *)
LEMMA AllocEnds ==
    ASSUME NEW a, AllocState(a)
    PROVE  LET t == [a EXCEPT !.ok = FALSE]
           IN  AllocState(t) /\ ~t.ok /\ t.n = a.n /\ t.arrays = a.arrays /\ t.h = a.h
<1>1. PICK o, v, b, g : a = [ok |-> o, n |-> v, arrays |-> b, h |-> g]
  BY DEF AllocState
<1>2. a.ok = o /\ a.n = v /\ a.arrays = b /\ a.h = g
  BY ONLY <1>1
<1>3. PICK z : z = FALSE
  OBVIOUS
<1> DEFINE t == [a EXCEPT !.ok = z]
<1>4. t = [ok |-> z, n |-> v, arrays |-> b, h |-> g]
  BY ONLY <1>1
<1> HIDE DEF t
<1>5. t.ok = z /\ t.n = v /\ t.arrays = b /\ t.h = g
  BY ONLY <1>4
<1>6. z \in BOOLEAN /\ ~z
  BY ONLY <1>3, Zenon
<1>7. t = [ok |-> t.ok, n |-> t.n, arrays |-> t.arrays, h |-> t.h]
  BY ONLY <1>4, <1>5
<1>8. AllocState(t) /\ ~t.ok
  BY <1>5, <1>6, <1>7, Zenon DEF AllocState
<1>9. t = [a EXCEPT !.ok = FALSE]
  BY <1>3, Zenon DEF t
<1>10. t.n = a.n /\ t.arrays = a.arrays /\ t.h = a.h
  BY ONLY <1>2, <1>5
<1> QED
  BY ONLY <1>8, <1>9, <1>10, Zenon

(* an array is made, *)
LEMMA ArrayMade ==
    ASSUME NEW a, AllocState(a), NEW i
    PROVE  LET t == [a EXCEPT !.n[i] = 0, !.h = do_alloc(@), !.arrays = @ \cup {i}]
           IN  ClearedTo(a, i, t) /\ t.ok = a.ok /\ t.arrays = a.arrays \cup {i} /\ t.h = do_alloc(a.h)
<1> DEFINE c == [a EXCEPT !.n[i] = 0]
           h1 == do_alloc(a.h)
           more == a.arrays \cup {i}
           u == [c EXCEPT !.h = h1]
           t == [u EXCEPT !.arrays = more]
<1>1. ClearedTo(a, i, c) /\ c.ok = a.ok /\ c.arrays = a.arrays /\ c.h = a.h
  BY Cleared
<1>2. t = [a EXCEPT !.n[i] = 0, !.h = do_alloc(@), !.arrays = @ \cup {i}]
  <2>1. u = [a EXCEPT !.n[i] = 0, !.h = do_alloc(@)]
    OBVIOUS
  <2> HIDE DEF u
  <2> QED
    BY <2>1
<1> HIDE DEF c, h1, more
<1>3. PICK o, v, b, g : c = [ok |-> o, n |-> v, arrays |-> b, h |-> g]
  BY <1>1 DEF ClearedTo, AllocState
<1>4. c.ok = o /\ c.n = v /\ c.arrays = b /\ c.h = g
  BY ONLY <1>3
<1>5. u = [ok |-> o, n |-> v, arrays |-> b, h |-> h1]
  BY ONLY <1>3
<1> HIDE DEF u
<1>6. t = [ok |-> o, n |-> v, arrays |-> more, h |-> h1]
  <2>1. [[ok |-> o, n |-> v, arrays |-> b, h |-> h1] EXCEPT !.arrays = more]
        = [ok |-> o, n |-> v, arrays |-> more, h |-> h1]
    OBVIOUS
  <2>2. t = [[ok |-> o, n |-> v, arrays |-> b, h |-> h1] EXCEPT !.arrays = more]
    BY ONLY <1>5
  <2> QED
    BY ONLY <2>1, <2>2
<1> HIDE DEF t
<1>7. t.ok = o /\ t.n = v /\ t.arrays = more /\ t.h = h1
  BY ONLY <1>6
<1>8. o \in BOOLEAN /\ v = [a.n EXCEPT ![i] = 0]
  BY <1>1, <1>4 DEF ClearedTo, AllocState
<1>9. AllocState(t)
  BY <1>6, <1>7, <1>8 DEF AllocState
<1>10. ClearedTo(a, i, t)
  BY <1>7, <1>8, <1>9 DEF ClearedTo
<1>11. t.ok = a.ok /\ t.arrays = a.arrays \cup {i} /\ t.h = do_alloc(a.h)
  BY <1>1, <1>4, <1>7 DEF h1, more
<1> QED
  BY ONLY <1>2, <1>10, <1>11, Zenon

(* or cannot be made. *)
LEMMA NoArray ==
    ASSUME NEW a, AllocState(a), NEW i
    PROVE  LET t == [a EXCEPT !.n[i] = 0, !.ok = FALSE]
           IN  ClearedTo(a, i, t) /\ ~t.ok /\ t.arrays = a.arrays /\ t.h = a.h
<1> DEFINE c == [a EXCEPT !.n[i] = 0]
           t == [c EXCEPT !.ok = FALSE]
<1>1. ClearedTo(a, i, c) /\ c.ok = a.ok /\ c.arrays = a.arrays /\ c.h = a.h
  BY Cleared
<1>2. t = [a EXCEPT !.n[i] = 0, !.ok = FALSE]
  BY Zenon
<1> HIDE DEF c
<1>3. AllocState(t) /\ ~t.ok /\ t.n = c.n /\ t.arrays = c.arrays /\ t.h = c.h
  BY <1>1, AllocEnds DEF ClearedTo
<1> HIDE DEF t
<1>4. ClearedTo(a, i, t)
  BY <1>1, <1>3 DEF ClearedTo
<1> QED
  BY <1>1, <1>2, <1>3, <1>4

AllocFirst(s) == [ok |-> TRUE, n |-> s.n, arrays |-> {}, h |-> s.h]
(* A step of the second pass. *)
AllocNext(d, s, a, i) ==
    IF ~a.ok THEN [a EXCEPT !.n[i] = 0]
    ELSE IF d.fields[i].label = "repeated" /\ a.n[i] # 0
         THEN IF CanAlloc(a.h)
              THEN [a EXCEPT !.n[i] = 0, !.h = do_alloc(@), !.arrays = @ \cup {i}]
              ELSE [a EXCEPT !.n[i] = 0, !.ok = FALSE]
    ELSE IF /\ d.fields[i].label = "required"
            /\ d.fields[i].default = <<>>
            /\ i \notin s.seen
         THEN [a EXCEPT !.ok = FALSE]
    ELSE a
AllocStep(d, s, f, i) == IF i = 0 THEN AllocFirst(s) ELSE AllocNext(d, s, f[i - 1], i)
IsAlloc(d, s, f) == f = [i \in 0 .. Len(d.fields) |-> AllocStep(d, s, f, i)]

(* AllocArrays is a function of the number of fields, when there is one. *)
LEMMA AllocIs ==
    ASSUME NEW d, NEW s
    PROVE  AllocArrays(d, s) = (CHOOSE f : IsAlloc(d, s, f))[Len(d.fields)]
BY DEF AllocArrays, IsAlloc, AllocStep, AllocFirst, AllocNext

(* There is such a function. *)
LEMMA AllocExists ==
    ASSUME NEW d, NEW s, Len(d.fields) \in Nat
    PROVE  \E f : IsAlloc(d, s, f)
<1> DEFINE T == {k \in Nat : \E f : f = [i \in 0 .. k |-> AllocStep(d, s, f, i)]}
<1>1. 0 \in T
  <2> DEFINE f == [i \in 0 .. 0 |-> AllocFirst(s)]
  <2>1. \A i \in 0 .. 0 : AllocStep(d, s, f, i) = AllocFirst(s)
    BY DEF AllocStep
  <2>2. f = [i \in 0 .. 0 |-> AllocStep(d, s, f, i)]
    BY <2>1
  <2> HIDE DEF f
  <2> QED
    BY <2>2
<1>2. ASSUME NEW k \in Nat, k \in T PROVE k + 1 \in T
  <2>1. PICK f : f = [i \in 0 .. k |-> AllocStep(d, s, f, i)]
    BY <1>2
  <2> DEFINE t == [i \in 0 .. k + 1 |-> IF i \in 0 .. k THEN f[i] ELSE AllocStep(d, s, f, k + 1)]
  <2>2. \A i \in 0 .. k : t[i] = f[i] /\ f[i] = AllocStep(d, s, f, i)
    BY <2>1
  <2>3. t[k + 1] = AllocStep(d, s, f, k + 1)
    OBVIOUS
  <2>4. DOMAIN t = 0 .. k + 1 /\ t = [i \in 0 .. k + 1 |-> t[i]]
    OBVIOUS
  <2> HIDE DEF t
  <2>5. \A i \in 0 .. k + 1 : AllocStep(d, s, t, i) = AllocStep(d, s, f, i)
    <3> SUFFICES ASSUME NEW i \in 0 .. k + 1, i # 0
                 PROVE  AllocStep(d, s, t, i) = AllocStep(d, s, f, i)
      BY DEF AllocStep
    <3>1. i - 1 \in 0 .. k
      OBVIOUS
    <3>2. t[i - 1] = f[i - 1]
      BY <2>2, <3>1
    <3> QED
      BY <3>2 DEF AllocStep
  <2>6. \A i \in 0 .. k + 1 : i \in 0 .. k \/ i = k + 1
    OBVIOUS
  <2>7. \A i \in 0 .. k + 1 : t[i] = AllocStep(d, s, t, i)
    BY <2>2, <2>3, <2>5, <2>6
  <2>8. t = [i \in 0 .. k + 1 |-> AllocStep(d, s, t, i)]
    BY <2>4, <2>7
  <2>9. k + 1 \in Nat
    OBVIOUS
  <2> QED
    BY <2>8, <2>9
<1>3. Len(d.fields) \in T
  <2> HIDE DEF T
  <2> QED
    BY <1>1, <1>2, SetInduction
<1> QED
  BY <1>3 DEF IsAlloc

(* The arrays and the counts once the first k fields have been looked at. *)
AllocInv(d, s, a, k) ==
    /\ AllocState(a)
    /\ a.h \in Heaps /\ a.h.crashed = s.h.crashed
    /\ IsFiniteSet(a.arrays) /\ a.arrays \subseteq 1 .. k
    /\ a.h.live = s.h.live + Cardinality(a.arrays)
    /\ a.n \in [1 .. Len(d.fields) -> Nat]
    /\ \A j \in 1 .. Len(d.fields) :
          /\ j <= k /\ d.fields[j].label = "repeated" => a.n[j] = 0
          /\ j > k => a.n[j] = s.n[j]
          /\ j \in a.arrays => d.fields[j].label = "repeated" /\ s.n[j] # 0
          /\ a.ok /\ j <= k => /\ d.fields[j].label = "repeated" /\ s.n[j] # 0 => j \in a.arrays
                               /\ Wanted(d.fields[j]) => j \in s.seen

(* A field has been looked at. *)
LEMMA AllocNextKeeps ==
    ASSUME NEW d, Len(d.fields) \in Nat, NEW s, s.h \in Heaps, s.n \in [1 .. Len(d.fields) -> Nat],
           NEW i \in 1 .. Len(d.fields), NEW a, AllocInv(d, s, a, i - 1)
    PROVE  AllocInv(d, s, AllocNext(d, s, a, i), i)
<1> DEFINE F == 1 .. Len(d.fields)
           t == AllocNext(d, s, a, i)
           R(j) == d.fields[j].label = "repeated"
           missing == d.fields[i].label = "required" /\ d.fields[i].default = <<>> /\ i \notin s.seen
           t1 == [a EXCEPT !.n[i] = 0]
           t2 == [a EXCEPT !.n[i] = 0, !.h = do_alloc(@), !.arrays = @ \cup {i}]
           t3 == [a EXCEPT !.n[i] = 0, !.ok = FALSE]
           t4 == [a EXCEPT !.ok = FALSE]
<1>1. /\ AllocState(a)
      /\ a.h \in Heaps /\ a.h.crashed = s.h.crashed
      /\ IsFiniteSet(a.arrays) /\ a.arrays \subseteq 1 .. i - 1
      /\ a.h.live = s.h.live + Cardinality(a.arrays)
      /\ a.n \in [F -> Nat]
  BY DEF AllocInv
<1>2. \A j \in F :
         /\ j <= i - 1 /\ R(j) => a.n[j] = 0
         /\ j > i - 1 => a.n[j] = s.n[j]
         /\ j \in a.arrays => R(j) /\ s.n[j] # 0
         /\ a.ok /\ j <= i - 1 => /\ R(j) /\ s.n[j] # 0 => j \in a.arrays
                                  /\ Wanted(d.fields[j]) => j \in s.seen
  BY DEF AllocInv
<1>3. t = (IF ~a.ok THEN t1
           ELSE IF R(i) /\ a.n[i] # 0 THEN IF CanAlloc(a.h) THEN t2 ELSE t3
           ELSE IF missing THEN t4 ELSE a)
  BY DEF AllocNext
<1>4. ClearedTo(a, i, t1) /\ t1.ok = a.ok /\ t1.arrays = a.arrays /\ t1.h = a.h
  BY <1>1, Cleared
<1>5. ClearedTo(a, i, t2) /\ t2.ok = a.ok /\ t2.arrays = a.arrays \cup {i} /\ t2.h = do_alloc(a.h)
  BY <1>1, ArrayMade
<1>6. ClearedTo(a, i, t3) /\ ~t3.ok /\ t3.arrays = a.arrays /\ t3.h = a.h
  BY <1>1, NoArray
<1>7. AllocState(t4) /\ ~t4.ok /\ t4.n = a.n /\ t4.arrays = a.arrays /\ t4.h = a.h
  BY <1>1, AllocEnds
<1> HIDE DEF t, t1, t2, t3, t4
<1>8. /\ i \in Nat /\ i \in F /\ \A j \in F : (j <= i <=> j <= i - 1 \/ j = i) /\ (j > i => j > i - 1 /\ j # i)
      /\ i > i - 1 /\ 1 .. i - 1 \subseteq 1 .. i /\ i \notin 1 .. i - 1 /\ i \in 1 .. i
  OBVIOUS
<1>9. ASSUME NEW u, ClearedTo(a, i, u)
      PROVE  /\ u.n \in [F -> Nat] /\ AllocState(u)
             /\ \A j \in F : (j <= i /\ R(j) => u.n[j] = 0) /\ (j > i => u.n[j] = s.n[j])
  <2>1. u.n = [a.n EXCEPT ![i] = 0] /\ AllocState(u)
    BY <1>9 DEF ClearedTo
  <2>2. u.n \in [F -> Nat] /\ \A j \in F : u.n[j] = IF j = i THEN 0 ELSE a.n[j]
    BY <1>1, <2>1
  <2> QED
    BY <1>2, <1>8, <2>1, <2>2
<1> HIDE DEF F, R
<1>10. CASE ~a.ok
  <2>1. t = t1
    BY <1>3, <1>10
  <2> QED
    BY <1>1, <1>2, <1>4, <1>8, <1>9, <1>10, <2>1 DEF AllocInv, F, R, t
<1>11. CASE a.ok /\ R(i) /\ a.n[i] # 0 /\ CanAlloc(a.h)
  <2>1. t = t2
    BY <1>3, <1>11
  <2>2. do_alloc(a.h) \in Heaps /\ do_alloc(a.h).crashed = a.h.crashed /\ do_alloc(a.h).live = a.h.live + 1
    BY <1>1, <1>11, AllocatedHeap
  <2>3. /\ IsFiniteSet(t.arrays) /\ Cardinality(t.arrays) = Cardinality(a.arrays) + 1
        /\ t.arrays \subseteq 1 .. i
    <3>1. i \notin a.arrays
      BY <1>1, <1>8
    <3>2. IsFiniteSet(a.arrays \cup {i}) /\ Cardinality(a.arrays \cup {i}) = Cardinality(a.arrays) + 1
      BY <1>1, <3>1, FS_AddElement
    <3> QED
      BY <1>1, <1>5, <1>8, <2>1, <3>2
  <2>4. Cardinality(a.arrays) \in Nat /\ s.h.live \in Int
    BY <1>1, FS_CardinalityType, AllocatedHeap
  <2>5. t.h.live = s.h.live + Cardinality(t.arrays) /\ t.h \in Heaps /\ t.h.crashed = s.h.crashed
    <3>1. t.h = do_alloc(a.h)
      BY <1>5, <2>1
    <3>2. t.h.live = a.h.live + 1 /\ t.h \in Heaps /\ t.h.crashed = s.h.crashed
      BY <1>1, <2>2, <3>1
    <3> DEFINE l == t.h.live
               b == a.h.live
               c == Cardinality(a.arrays)
               e == Cardinality(t.arrays)
               g == s.h.live
    <3>3. l = b + 1 /\ b = g + c /\ e = c + 1 /\ c \in Nat /\ g \in Int
      BY <1>1, <2>3, <2>4, <3>2
    <3> HIDE DEF l, b, c, e, g
    <3>4. l = g + e
      BY ONLY <3>3
    <3> QED
      BY <3>2, <3>4 DEF l, g, e
  <2>6. s.n[i] # 0
    BY <1>2, <1>8, <1>11
  <2>7. \A j \in F :
          /\ j \in t.arrays => R(j) /\ s.n[j] # 0
          /\ t.ok /\ j <= i => /\ R(j) /\ s.n[j] # 0 => j \in t.arrays
                               /\ Wanted(d.fields[j]) => j \in s.seen
    <3>1. t.arrays = a.arrays \cup {i} /\ t.ok = a.ok
      BY <1>5, <2>1
    <3>2. ~Wanted(d.fields[i])
      BY <1>11 DEF R, Wanted
    <3> QED
      BY <1>2, <1>8, <1>11, <2>6, <3>1, <3>2
  <2>8. /\ t.n \in [F -> Nat] /\ AllocState(t)
        /\ \A j \in F : (j <= i /\ R(j) => t.n[j] = 0) /\ (j > i => t.n[j] = s.n[j])
    BY <1>5, <1>9, <2>1
  <2> QED
    BY <2>3, <2>5, <2>7, <2>8 DEF AllocInv, F, R, t
<1>12. CASE a.ok /\ R(i) /\ a.n[i] # 0 /\ ~CanAlloc(a.h)
  <2>1. t = t3
    BY <1>3, <1>12
  <2> QED
    BY <1>1, <1>2, <1>6, <1>8, <1>9, <2>1 DEF AllocInv, F, R, t
<1>13. CASE a.ok /\ ~(R(i) /\ a.n[i] # 0)
  <2>1. t = (IF missing THEN t4 ELSE a)
    BY <1>3, <1>13
  <2>2. /\ AllocState(t) /\ t.n = a.n /\ t.arrays = a.arrays /\ t.h = a.h
        /\ t.ok => ~missing
    BY <1>1, <1>7, <2>1
  <2>3. t.ok /\ Wanted(d.fields[i]) => i \in s.seen
    BY <2>2 DEF Wanted
  <2>4. R(i) => a.n[i] = 0 /\ s.n[i] = 0
    BY <1>2, <1>8, <1>13
  <2>5. \A j \in F :
         /\ j <= i /\ R(j) => t.n[j] = 0
         /\ j > i => t.n[j] = s.n[j]
         /\ j \in t.arrays => R(j) /\ s.n[j] # 0
         /\ t.ok /\ j <= i => /\ R(j) /\ s.n[j] # 0 => j \in t.arrays
                              /\ Wanted(d.fields[j]) => j \in s.seen
    BY <1>2, <1>8, <1>13, <2>2, <2>3, <2>4
  <2>6. t.arrays \subseteq 1 .. i
    BY <1>1, <1>8, <2>2
  <2> QED
    BY <1>1, <2>2, <2>5, <2>6 DEF AllocInv, F, R, t
<1> QED
  BY <1>10, <1>11, <1>12, <1>13

(* All of them: there is an array for each repeated field with a value and,
   unless the pass has failed, every required field was seen. *)
LEMMA AllocKeeps ==
    ASSUME NEW d, Len(d.fields) \in Nat, NEW s, s.h \in Heaps, s.n \in [1 .. Len(d.fields) -> Nat]
    PROVE  AllocInv(d, s, AllocArrays(d, s), Len(d.fields))
<1> DEFINE f == CHOOSE f : IsAlloc(d, s, f)
           N == Len(d.fields)
           T == {i \in Nat : i <= N => AllocInv(d, s, f[i], i)}
<1>1. IsAlloc(d, s, f) /\ AllocArrays(d, s) = f[N]
  BY AllocExists, AllocIs
<1> HIDE DEF f
<1>2. \A i \in 0 .. N : f[i] = AllocStep(d, s, f, i)
  BY <1>1 DEF IsAlloc
<1>3. 0 \in T
  <2> DEFINE a == AllocFirst(s)
  <2>1. f[0] = a
    <3>1. 0 \in 0 .. N
      OBVIOUS
    <3> HIDE DEF a
    <3> QED
      BY <1>2, <3>1 DEF AllocStep, a
  <2>2. a = [ok |-> TRUE, n |-> s.n, arrays |-> {}, h |-> s.h]
    BY DEF AllocFirst
  <2> HIDE DEF a
  <2>3. a.ok = TRUE /\ a.n = s.n /\ a.arrays = {} /\ a.h = s.h
    BY <2>2
  <2>4. AllocState(a)
    BY <2>2, <2>3 DEF AllocState
  <2>5. IsFiniteSet({}) /\ Cardinality({}) = 0 /\ s.h.live \in Int
    BY FS_EmptySet, AllocatedHeap
  <2>6. a.h.live = s.h.live + Cardinality(a.arrays)
    BY <2>3, <2>5
  <2>7. AllocInv(d, s, a, 0)
    BY <2>3, <2>4, <2>5, <2>6 DEF AllocInv
  <2> QED
    BY <2>1, <2>7
<1>4. ASSUME NEW i \in Nat, i \in T PROVE i + 1 \in T
  <2> SUFFICES ASSUME i + 1 <= N PROVE AllocInv(d, s, f[i + 1], i + 1)
    OBVIOUS
  <2>1. i <= N /\ i + 1 \in 1 .. N /\ i + 1 \in 0 .. N /\ (i + 1) - 1 = i /\ i + 1 # 0
    OBVIOUS
  <2> DEFINE r == f[i]
             j == i + 1
  <2>2. AllocInv(d, s, r, i)
    BY <1>4, <2>1
  <2>3. f[i + 1] = AllocNext(d, s, r, j)
    BY <1>2, <2>1 DEF AllocStep
  <2>4. j \in 1 .. Len(d.fields) /\ AllocInv(d, s, r, j - 1)
    BY <2>1, <2>2
  <2> HIDE DEF T, r, j
  <2>5. AllocInv(d, s, AllocNext(d, s, r, j), j)
    BY <2>4, AllocNextKeeps
  <2> QED
    BY <2>3, <2>5 DEF j
<1>5. Nat \subseteq T
  <2> HIDE DEF T
  <2> QED
    BY <1>3, <1>4, SetInduction
<1>6. AllocInv(d, s, f[N], N)
  BY <1>5
<1> QED
  BY <1>1, <1>6

--------------------------------
(* The third pass: one value *)

(* Numbers have no blocks. *)
LEMMA OwnScalars ==
    ASSUME NEW f, f.type \notin LengthPrefixed, NEW s, IsList(s)
    PROVE  ValuesOwn(f, s) = 0 /\ Counted(f, s)
<1> DEFINE g == [i \in 1 .. Len(s) |-> ValueOwn(f, s[i])]
           n == Len(s)
           T == {k \in Nat : k <= n => SumTo(g, k) = 0}
<1>1. Counted(f, s) /\ n \in Nat
  BY DEF Counted, LengthPrefixed, IsList
<1>2. Summands(g, n)
  BY <1>1, OwnType
<1>3. \A i \in 1 .. n : g[i] = 0
  BY DEF ValueOwn, DataBlocks, LengthPrefixed
<1> HIDE DEF g, n
<1>4. /\ SumFunction(g) = SumTo(g, n) /\ SumTo(g, 0) = 0
      /\ \A k \in 1 .. n : SumTo(g, k) = SumTo(g, k - 1) + g[k]
  BY <1>2, SumOfSummands DEF Steps
<1>5. 0 \in T
  BY <1>4
<1>6. ASSUME NEW k \in Nat, k \in T PROVE k + 1 \in T
  <2> SUFFICES ASSUME k + 1 <= n PROVE SumTo(g, k + 1) = 0
    OBVIOUS
  <2>1. k <= n /\ k + 1 \in 1 .. n /\ (k + 1) - 1 = k
    BY <1>1
  <2>2. SumTo(g, k) = 0
    BY <1>6, <2>1
  <2> QED
    BY <1>3, <1>4, <2>1, <2>2
<1>7. n \in T
  <2> HIDE DEF T
  <2> QED
    BY <1>1, <1>5, <1>6, SetInduction
<1>8. SumFunction(g) = 0
  BY <1>1, <1>4, <1>7
<1> QED
  BY <1>1, <1>8 DEF ValuesOwn, g, n

(* What unpacking a message within this one returns. *)
UnpackOK(u, name, h, n) ==
    /\ u.h \in Heaps /\ u.h.crashed = h.crashed
    /\ \/ u.msg = <<>> /\ u.h.live = h.live
       \/ \E m : /\ u.msg = <<m>> /\ m.desc = name /\ Well(m, n, TRUE)
                 /\ u.h.live = h.live + Blocks(m)

(* The values of a field, and the heap, before and after a member. *)
Kept(f, s, n) ==
    /\ IsList(s)
    /\ f.type = "MESSAGE" => \A k \in 1 .. Len(s) : Well(s[k], n, TRUE) /\ s[k].desc = f.sub

(* A result is fair when the heap changed by what the value did. *)
Fair(f, s, h, r, n) ==
    /\ r = [ok |-> r.ok, cur |-> r.cur, h |-> r.h] /\ r.ok \in BOOLEAN
    /\ r.h \in Heaps /\ r.h.crashed = h.crashed
    /\ Kept(f, r.cur, n)
    /\ r.h.live - ValuesOwn(f, r.cur) = h.live - ValuesOwn(f, s)

OneOf(r) == Len(r.cur) <= 1 /\ (r.ok => r.cur # <<>>)

(* The blocks of the values of a field are a number. *)
LEMMA KeptCounted ==
    ASSUME NEW f, NEW s, NEW n \in Nat, Kept(f, s, n)
    PROVE  Counted(f, s) /\ ValuesOwn(f, s) \in Nat /\ (s = <<>> => ValuesOwn(f, s) = 0)
<1>1. ASSUME f.type = "MESSAGE", NEW k \in 1 .. Len(s) PROVE Blocks(s[k]) \in Nat
  <2>1. Well(s[k], n, FALSE)
    BY <1>1, WellLess DEF Kept
  <2> QED
    BY <2>1, BlocksAre
<1>2. Counted(f, s)
  BY <1>1 DEF Counted, Kept
<1> QED
  BY <1>2, OwnType, OwnNone

(* A field may have no value, *)
LEMMA KeptNone == ASSUME NEW f, NEW n PROVE Kept(f, <<>>, n) /\ Len(<<>>) = 0
BY DEF Kept, IsList

(* or one. *)
LEMMA KeptOne ==
    ASSUME NEW f, NEW v, NEW n \in Nat, f.type = "MESSAGE" => Well(v, n, TRUE) /\ v.desc = f.sub
    PROVE  /\ Kept(f, <<v>>, n) /\ Len(<<v>>) = 1 /\ <<v>> # <<>>
           /\ ValuesOwn(f, <<v>>) = ValueOwn(f, v) /\ ValueOwn(f, v) \in Nat
<1>1. IsList(<<v>>) /\ Len(<<v>>) = 1 /\ <<v>> # <<>> /\ <<v>>[1] = v
  BY IsListOfOne
<1>2. f.type = "MESSAGE" => Blocks(v) \in Nat
  <2> SUFFICES ASSUME f.type = "MESSAGE" PROVE Blocks(v) \in Nat
    OBVIOUS
  <2>1. Well(v, n, FALSE)
    BY WellLess
  <2> QED
    BY <2>1, BlocksAre
<1>3. ValuesOwn(f, <<v>>) = ValueOwn(f, v) /\ ValueOwn(f, v) \in Nat
  BY <1>2, OwnOne
<1>4. \A k \in 1 .. Len(<<v>>) : k = 1
  BY <1>1
<1>5. Kept(f, <<v>>, n)
  BY <1>1, <1>4 DEF Kept
<1> QED
  BY <1>1, <1>3, <1>5

(* The value of a field that has at most one. *)
LEMMA KeptSingle ==
    ASSUME NEW f, NEW s, NEW n \in Nat, Kept(f, s, n), Len(s) <= 1, s # <<>>
    PROVE  /\ s = <<s[1]>> /\ ValuesOwn(f, s) = ValueOwn(f, s[1])
           /\ f.type = "MESSAGE" => Well(s[1], n, TRUE) /\ s[1].desc = f.sub
<1>1. s = <<s[1]>> /\ 1 \in 1 .. Len(s)
  BY Single DEF Kept
<1> DEFINE v == s[1]
<1>2. f.type = "MESSAGE" => Well(v, n, TRUE) /\ v.desc = f.sub
  BY <1>1 DEF Kept
<1> HIDE DEF v
<1>3. ValuesOwn(f, <<v>>) = ValueOwn(f, v)
  BY <1>2, KeptOne
<1> QED
  BY <1>1, <1>2, <1>3 DEF v

(* A result is fair when the heap changed by what the value did. *)
LEMMA FairIs ==
    ASSUME NEW f, NEW s, NEW h, NEW n, NEW o \in BOOLEAN, NEW c, NEW g \in Heaps,
           g.crashed = h.crashed, Kept(f, c, n),
           g.live - ValuesOwn(f, c) = h.live - ValuesOwn(f, s)
    PROVE  LET r == [ok |-> o, cur |-> c, h |-> g]
           IN  Fair(f, s, h, r, n) /\ r.ok = o /\ r.cur = c /\ r.h = g
BY DEF Fair

(* The first message of a field. *)
LEMMA JoinedFirst ==
    ASSUME NEW f, f.type = "MESSAGE", NEW n \in Nat, NEW h \in Heaps,
           NEW u, UnpackOK(u, f.sub, h, n)
    PROVE  LET r == [ok |-> u.msg # <<>>, cur |-> u.msg, h |-> u.h]
           IN  Fair(f, <<>>, h, r, n) /\ OneOf(r)
<1> DEFINE o == u.msg # <<>>
           c == u.msg
           g == u.h
<1>1. g \in Heaps /\ g.crashed = h.crashed /\ h.live \in Int /\ o \in BOOLEAN
  BY AllocatedHeap DEF UnpackOK
<1>2. ValuesOwn(f, <<>>) = 0
  BY OwnNone
<1>3. /\ Kept(f, c, n) /\ g.live - ValuesOwn(f, c) = h.live - ValuesOwn(f, <<>>)
      /\ Len(c) <= 1
  <2>1. CASE c = <<>> /\ g.live = h.live
    <3>1. Kept(f, c, n) /\ Len(c) = 0
      BY <2>1, KeptNone
    <3> HIDE DEF g, c
    <3> QED
      BY <1>1, <1>2, <2>1, <3>1
  <2>2. CASE \E m : c = <<m>> /\ m.desc = f.sub /\ Well(m, n, TRUE) /\ g.live = h.live + Blocks(m)
    <3>1. PICK m : c = <<m>> /\ m.desc = f.sub /\ Well(m, n, TRUE) /\ g.live = h.live + Blocks(m)
      BY <2>2
    <3>2. /\ Kept(f, <<m>>, n) /\ Len(<<m>>) = 1
          /\ ValuesOwn(f, <<m>>) = ValueOwn(f, m) /\ ValueOwn(f, m) \in Nat
      BY <3>1, KeptOne
    <3>3. ValueOwn(f, m) = Blocks(m)
      BY DEF ValueOwn
    <3> HIDE DEF g, c
    <3>4. ValuesOwn(f, c) = Blocks(m) /\ Blocks(m) \in Nat /\ g.live = h.live + Blocks(m)
      BY <3>1, <3>2, <3>3
    <3>5. g.live - ValuesOwn(f, c) = h.live - ValuesOwn(f, <<>>)
      BY ONLY <1>1, <1>2, <3>4
    <3> QED
      BY <3>1, <3>2, <3>5
  <2> QED
    BY <2>1, <2>2 DEF UnpackOK
<1> DEFINE r == [ok |-> o, cur |-> c, h |-> g]
<1> HIDE DEF g, c, o
<1>4. Fair(f, <<>>, h, r, n) /\ r.ok = o /\ r.cur = c
  BY <1>1, <1>3, FairIs
<1>5. OneOf(r)
  <2>1. o => c # <<>>
    BY DEF o, c
  <2> HIDE DEF r
  <2> QED
    BY <1>3, <1>4, <2>1 DEF OneOf
<1> QED
  BY <1>4, <1>5 DEF r, o, c, g

(* The message before is freed when the new one cannot be unpacked. *)
LEMMA JoinedNone ==
    ASSUME NEW f, f.type = "MESSAGE", NEW n \in Nat, NEW h \in Heaps,
           NEW e, Well(e, n, TRUE), NEW g \in Heaps, g.crashed = h.crashed, g.live = h.live
    PROVE  LET r == [ok |-> FALSE, cur |-> <<>>, h |-> protobuf_c_message_free_unpacked(e, g)]
           IN  Fair(f, <<e>>, h, r, n) /\ OneOf(r) /\ ~r.ok
<1> DEFINE k == do_free(g, Blocks(e))
<1>1. protobuf_c_message_free_unpacked(e, g) = k
  BY DEF protobuf_c_message_free_unpacked
<1>2. Blocks(e) \in Nat /\ h.live \in Int
  <2>1. Well(e, n, FALSE)
    BY WellLess
  <2> QED
    BY <2>1, BlocksAre, AllocatedHeap
<1>3. k \in Heaps /\ k.crashed = g.crashed /\ k.live = g.live - Blocks(e)
  <2> DEFINE b == Blocks(e)
  <2>1. b \in Int
    BY <1>2
  <2> HIDE DEF b
  <2>2. /\ do_free(g, b) \in Heaps /\ do_free(g, b).crashed = g.crashed
        /\ do_free(g, b).live = g.live - b
    BY <2>1, AllocatedHeap
  <2> QED
    BY <2>2 DEF b
<1>4. ValuesOwn(f, <<e>>) = Blocks(e)
  <2>1. ValuesOwn(f, <<e>>) = ValueOwn(f, e)
    BY <1>2, OwnOne
  <2> QED
    BY <2>1 DEF ValueOwn
<1>5. Kept(f, <<>>, n) /\ ValuesOwn(f, <<>>) = 0
  BY KeptNone, OwnNone
<1> DEFINE r == [ok |-> FALSE, cur |-> <<>>, h |-> k]
<1> HIDE DEF k
<1>6. k.live - ValuesOwn(f, <<>>) = h.live - ValuesOwn(f, <<e>>)
  BY <1>2, <1>3, <1>4, <1>5
<1>7. k.crashed = h.crashed
  BY <1>3
<1>8. Fair(f, <<e>>, h, r, n) /\ r.ok = FALSE /\ r.cur = <<>>
  <2>1. FALSE \in BOOLEAN
    OBVIOUS
  <2> QED
    BY <1>3, <1>5, <1>6, <1>7, <2>1, FairIs
<1>9. OneOf(r) /\ ~r.ok
  <2>1. Len(<<>>) <= 1
    OBVIOUS
  <2> HIDE DEF r
  <2> QED
    BY <1>8, <2>1 DEF OneOf
<1> QED
  BY <1>1, <1>8, <1>9 DEF r

(* Another message of a field is merged with the one before, which is
   freed. *)
LEMMA JoinedBoth ==
    ASSUME NEW f, f.type = "MESSAGE", NEW n \in Nat, NEW h \in Heaps,
           NEW e, Well(e, n, TRUE), e.desc = f.sub, NEW m, Well(m, n, TRUE), m.desc = f.sub,
           NEW g \in Heaps, g.crashed = h.crashed, g.live = h.live + Blocks(m)
    PROVE  LET r == Replaced([merge_messages(e, m, g) EXCEPT !.latter = <<@>>])
           IN  Fair(f, <<e>>, h, r, n) /\ OneOf(r)
<1> DEFINE q == merge_messages(e, m, g)
           z == [q EXCEPT !.latter = <<@>>]
           k == protobuf_c_message_free_unpacked(q.earlier, q.h)
<1>1. MergeInv(q, e, m, g, n)
  BY MergeAccounts
<1> HIDE DEF q
<1>2. /\ q.ok \in BOOLEAN /\ q.h \in Heaps /\ q.h.crashed = g.crashed
      /\ q.latter.desc = m.desc
      /\ Well(q.earlier, n, FALSE) /\ Well(q.latter, n, TRUE)
      /\ q.h.live - Blocks(q.earlier) - Blocks(q.latter) = g.live - Blocks(e) - Blocks(m)
  BY <1>1 DEF MergeInv, Balanced
<1>3. z.ok = q.ok /\ z.latter = <<q.latter>> /\ z.earlier = q.earlier /\ z.h = q.h
  <2>1. PICK a, b, c, o : q = [earlier |-> a, latter |-> b, h |-> c, ok |-> o]
    BY <1>1 DEF MergeInv, MergeState
  <2>2. q.earlier = a /\ q.latter = b /\ q.h = c /\ q.ok = o
    BY ONLY <2>1
  <2> DEFINE l == <<q.latter>>
             y == [q EXCEPT !.latter = l]
  <2>3. z = y
    OBVIOUS
  <2> HIDE DEF l, z
  <2>4. y = [earlier |-> a, latter |-> l, h |-> c, ok |-> o]
    BY ONLY <2>1
  <2> HIDE DEF y
  <2>5. y.earlier = a /\ y.latter = l /\ y.h = c /\ y.ok = o
    BY ONLY <2>4
  <2> QED
    BY <2>2, <2>3, <2>5 DEF l
<1>4. Replaced(z) = [ok |-> q.ok, cur |-> <<q.latter>>, h |-> k]
  <2> HIDE DEF z
  <2> QED
    BY <1>3 DEF Replaced
<1>5. k = do_free(q.h, Blocks(q.earlier))
  BY DEF protobuf_c_message_free_unpacked
<1>6. Well(e, n, FALSE) /\ Well(m, n, FALSE) /\ Well(q.latter, n, FALSE)
  BY <1>2, WellLess
<1>7. Blocks(q.earlier) \in Nat /\ Blocks(q.latter) \in Nat /\ Blocks(e) \in Nat /\ Blocks(m) \in Nat
  BY <1>2, <1>6, BlocksAre
<1>8. k \in Heaps /\ k.crashed = q.h.crashed /\ k.live = q.h.live - Blocks(q.earlier)
  <2> DEFINE b == Blocks(q.earlier)
             w == q.h
  <2>1. b \in Int /\ w \in Heaps
    BY <1>2, <1>7
  <2> HIDE DEF b, w
  <2>2. /\ do_free(w, b) \in Heaps /\ do_free(w, b).crashed = w.crashed
        /\ do_free(w, b).live = w.live - b
    BY <2>1, AllocatedHeap
  <2> QED
    BY <1>5, <2>2 DEF b, w
<1>9. q.h.live \in Int /\ h.live \in Int /\ g.live \in Int
  BY <1>2, AllocatedHeap
<1> DEFINE c == <<q.latter>>
           o == q.ok
<1>10. /\ Kept(f, c, n) /\ Len(c) = 1 /\ c # <<>> /\ ValuesOwn(f, c) = Blocks(q.latter)
  <2>1. /\ Kept(f, <<q.latter>>, n) /\ Len(<<q.latter>>) = 1 /\ <<q.latter>> # <<>>
        /\ ValuesOwn(f, <<q.latter>>) = ValueOwn(f, q.latter)
    BY <1>2, KeptOne
  <2> QED
    BY <2>1 DEF ValueOwn
<1>11. ValuesOwn(f, <<e>>) = Blocks(e)
  <2>1. ValuesOwn(f, <<e>>) = ValueOwn(f, e)
    BY <1>7, OwnOne
  <2> QED
    BY <2>1 DEF ValueOwn
<1> HIDE DEF k, c, o
<1>12. k.live - ValuesOwn(f, c) = h.live - ValuesOwn(f, <<e>>)
  <2> DEFINE x1 == Blocks(q.earlier)
             x2 == Blocks(q.latter)
             x3 == Blocks(e)
             x4 == Blocks(m)
             y1 == q.h.live
             y2 == g.live
             y3 == h.live
             y4 == k.live
  <2>1. /\ y1 - x1 - x2 = y2 - x3 - x4 /\ y4 = y1 - x1 /\ y2 = y3 + x4
        /\ x1 \in Nat /\ x2 \in Nat /\ x3 \in Nat /\ x4 \in Nat /\ y1 \in Int /\ y2 \in Int /\ y3 \in Int
    BY <1>2, <1>7, <1>8, <1>9
  <2>2. ValuesOwn(f, c) = x2 /\ ValuesOwn(f, <<e>>) = x3
    BY <1>10, <1>11
  <2> HIDE DEF x1, x2, x3, x4, y1, y2, y3, y4
  <2>3. y4 - x2 = y3 - x3
    BY ONLY <2>1
  <2> QED
    BY <2>2, <2>3 DEF y3, y4
<1> DEFINE r == [ok |-> o, cur |-> c, h |-> k]
<1>13. o \in BOOLEAN /\ k.crashed = h.crashed
  BY <1>2, <1>8 DEF o
<1>14. Fair(f, <<e>>, h, r, n) /\ r.ok = o /\ r.cur = c
  BY <1>8, <1>10, <1>12, <1>13, FairIs
<1>15. OneOf(r)
  <2>1. Len(c) <= 1 /\ c # <<>> /\ r.cur = c
    BY <1>10, <1>14
  <2> HIDE DEF r
  <2>2. Len(r.cur) <= 1 /\ r.cur # <<>>
    BY ONLY <2>1
  <2> QED
    BY ONLY <2>2, Zenon DEF OneOf
<1> QED
  BY <1>4, <1>14, <1>15 DEF r, o, c, k, z, q

(* Whichever it is. *)
LEMMA JoinedOK ==
    ASSUME NEW f, f.type = "MESSAGE", NEW n \in Nat, NEW h \in Heaps,
           NEW s, Kept(f, s, n), Len(s) <= 1, NEW u, UnpackOK(u, f.sub, h, n)
    PROVE  Fair(f, s, h, Joined(s, u), n) /\ OneOf(Joined(s, u))
<1>1. CASE s = <<>>
  <2>1. Joined(s, u) = [ok |-> u.msg # <<>>, cur |-> u.msg, h |-> u.h]
    BY <1>1 DEF Joined
  <2> QED
    BY <1>1, <2>1, JoinedFirst
<1>2. CASE s # <<>>
  <2> DEFINE e == s[1]
  <2>1. s = <<e>> /\ Well(e, n, TRUE) /\ e.desc = f.sub
    BY <1>2, KeptSingle
  <2>2. Joined(s, u) = Replaced(IF u.msg = <<>>
                                THEN [earlier |-> e, latter |-> <<>>, h |-> u.h, ok |-> FALSE]
                                ELSE [merge_messages(e, u.msg[1], u.h) EXCEPT !.latter = <<@>>])
    BY <1>2 DEF Joined
  <2> HIDE DEF e
  <2>3. u.h \in Heaps /\ u.h.crashed = h.crashed
    BY DEF UnpackOK
  <2>4. CASE u.msg = <<>> /\ u.h.live = h.live
    <3> DEFINE g == u.h
               r == [ok |-> FALSE, cur |-> <<>>, h |-> protobuf_c_message_free_unpacked(e, g)]
    <3>1. Joined(s, u) = Replaced([earlier |-> e, latter |-> <<>>, h |-> g, ok |-> FALSE])
      BY <2>2, <2>4
    <3>2. Replaced([earlier |-> e, latter |-> <<>>, h |-> g, ok |-> FALSE]) = r
      BY DEF Replaced
    <3>3. Fair(f, <<e>>, h, r, n) /\ OneOf(r)
      <4> HIDE DEF g
      <4>1. g \in Heaps /\ g.crashed = h.crashed /\ g.live = h.live
        BY <2>3, <2>4 DEF g
      <4> QED
        BY <2>1, <4>1, JoinedNone
    <3> HIDE DEF r
    <3> QED
      BY <2>1, <3>1, <3>2, <3>3
  <2>5. CASE \E m : u.msg = <<m>> /\ m.desc = f.sub /\ Well(m, n, TRUE) /\ u.h.live = h.live + Blocks(m)
    <3>1. PICK m : u.msg = <<m>> /\ m.desc = f.sub /\ Well(m, n, TRUE) /\ u.h.live = h.live + Blocks(m)
      BY <2>5
    <3> DEFINE g == u.h
               r == Replaced([merge_messages(e, m, g) EXCEPT !.latter = <<@>>])
    <3>2. u.msg # <<>> /\ u.msg[1] = m
      BY <3>1
    <3>3. Joined(s, u) = r
      BY <2>2, <3>2
    <3>4. Fair(f, <<e>>, h, r, n) /\ OneOf(r)
      <4>1. g \in Heaps /\ g.crashed = h.crashed /\ g.live = h.live + Blocks(m)
        BY <2>3, <3>1
      <4> HIDE DEF g
      <4> QED
        BY <2>1, <3>1, <4>1, JoinedBoth
    <3> HIDE DEF r
    <3> QED
      BY <2>1, <3>3, <3>4
  <2> QED
    BY <2>4, <2>5 DEF UnpackOK
<1> QED
  BY <1>1, <1>2

(* A string or bytes, which replace those before. *)
LEMMA BytesOK ==
    ASSUME NEW f, f.type \in {"STRING", "BYTES"}, NEW n \in Nat, NEW h \in Heaps,
           NEW s, Kept(f, s, n), Len(s) <= 1, NEW body
    PROVE  Fair(f, s, h, ParseBytes(f, body, s, h), n) /\ OneOf(ParseBytes(f, body, s, h))
<1> DEFINE b == IF s = <<>> THEN 0 ELSE DataBlocks(f, s[1])
           g == do_free(h, b)
           k == do_alloc(g)
           one == <<body>>
           w == ValueOwn(f, body)
           r == ParseBytes(f, body, s, h)
<1>0. f.type # "MESSAGE" /\ h.live \in Int
  BY AllocatedHeap
<1>1. b = ValuesOwn(f, s) /\ b \in Int
  <2>1. CASE s = <<>>
    BY <2>1, OwnNone
  <2>2. CASE s # <<>>
    <3>1. ValuesOwn(f, s) = ValueOwn(f, s[1])
      BY <2>2, KeptSingle
    <3>2. ValueOwn(f, s[1]) = DataBlocks(f, s[1]) /\ DataBlocks(f, s[1]) \in Int
      BY <1>0 DEF ValueOwn, DataBlocks
    <3> QED
      BY <2>2, <3>1, <3>2
  <2> QED
    BY <2>1, <2>2
<1> HIDE DEF b
<1>2. g \in Heaps /\ g.crashed = h.crashed /\ g.live = h.live - b
  BY <1>1, AllocatedHeap
<1>3. r = (IF f.type = "BYTES" /\ body = <<>> THEN [ok |-> TRUE, cur |-> one, h |-> g]
           ELSE IF ~CanAlloc(g) THEN [ok |-> FALSE, cur |-> <<>>, h |-> g]
           ELSE [ok |-> TRUE, cur |-> one, h |-> k])
  BY DEF ParseBytes, b
<1> HIDE DEF g
<1>4. CanAlloc(g) => k \in Heaps /\ k.crashed = h.crashed /\ k.live = h.live - b + 1
  <2> SUFFICES ASSUME CanAlloc(g) PROVE k \in Heaps /\ k.crashed = h.crashed /\ k.live = h.live - b + 1
    OBVIOUS
  <2>1. k \in Heaps /\ k.crashed = g.crashed /\ k.live = g.live + 1
    BY <1>2, AllocatedHeap
  <2> QED
    BY <1>0, <1>1, <1>2, <2>1
<1>5. Kept(f, <<>>, n) /\ ValuesOwn(f, <<>>) = 0 /\ Len(<<>>) = 0
  BY KeptNone, OwnNone
<1>6. Kept(f, one, n) /\ Len(one) = 1 /\ one # <<>> /\ ValuesOwn(f, one) = w
  BY <1>0, KeptOne
<1>7. w = IF f.type = "BYTES" /\ body = <<>> THEN 0 ELSE 1
  BY <1>0 DEF ValueOwn, DataBlocks
<1> HIDE DEF one, k, r, w
<1>8. TRUE \in BOOLEAN /\ FALSE \in BOOLEAN
  OBVIOUS
<1>9. CASE f.type = "BYTES" /\ body = <<>>
  <2> DEFINE q == [ok |-> TRUE, cur |-> one, h |-> g]
  <2>1. r = q /\ w = 0
    BY <1>3, <1>7, <1>9
  <2>2. g.live - ValuesOwn(f, one) = h.live - ValuesOwn(f, s)
    BY <1>0, <1>1, <1>2, <1>6, <2>1
  <2>3. Fair(f, s, h, q, n) /\ q.cur = one
    BY <1>2, <1>6, <1>8, <2>2, FairIs
  <2> HIDE DEF q
  <2>4. OneOf(q)
    <3>a. Len(one) <= 1 /\ one # <<>>
      BY <1>6
    <3>b. q.cur = one
      BY <2>3
    <3>1. Len(q.cur) <= 1 /\ q.cur # <<>>
      BY ONLY <3>a, <3>b
    <3> QED
      BY ONLY <3>1, Zenon DEF OneOf
  <2> QED
    BY <2>1, <2>3, <2>4 DEF r
<1>10. CASE ~(f.type = "BYTES" /\ body = <<>>) /\ ~CanAlloc(g)
  <2> DEFINE q == [ok |-> FALSE, cur |-> <<>>, h |-> g]
  <2>1. r = q
    BY <1>3, <1>10
  <2>2. g.live - ValuesOwn(f, <<>>) = h.live - ValuesOwn(f, s)
    BY <1>0, <1>1, <1>2, <1>5
  <2>3. Fair(f, s, h, q, n) /\ q.cur = <<>> /\ q.ok = FALSE
    BY <1>2, <1>5, <1>8, <2>2, FairIs
  <2> HIDE DEF q
  <2>4. OneOf(q)
    BY <1>5, <2>3 DEF OneOf
  <2> QED
    BY <2>1, <2>3, <2>4 DEF r
<1>11. CASE ~(f.type = "BYTES" /\ body = <<>>) /\ CanAlloc(g)
  <2> DEFINE q == [ok |-> TRUE, cur |-> one, h |-> k]
  <2>1. r = q /\ w = 1
    BY <1>3, <1>7, <1>11
  <2>2. k.live - ValuesOwn(f, one) = h.live - ValuesOwn(f, s)
    BY <1>0, <1>1, <1>4, <1>6, <1>11, <2>1
  <2>3. Fair(f, s, h, q, n) /\ q.cur = one
    BY <1>4, <1>6, <1>8, <1>11, <2>2, FairIs
  <2> HIDE DEF q
  <2>4. OneOf(q)
    <3>a. Len(one) <= 1 /\ one # <<>>
      BY <1>6
    <3>b. q.cur = one
      BY <2>3
    <3>1. Len(q.cur) <= 1 /\ q.cur # <<>>
      BY ONLY <3>a, <3>b
    <3> QED
      BY ONLY <3>1, Zenon DEF OneOf
  <2> QED
    BY <2>1, <2>3, <2>4 DEF r
<1> QED
  BY <1>9, <1>10, <1>11 DEF r

(* Unpacking is as it should be for the messages with fewer bytes than this
   one. *)
InsideOK(unpack, n) ==
    \A name \in DOMAIN Schema, body \in Seq(Byte), h \in Heaps :
        Len(body) < n => UnpackOK(unpack[<<name, body, h>>], name, h, n)

(* parse_required_member is fair for every type. *)
LEMMA RequiredOK ==
    ASSUME NEW f, FieldWellFormed(f), NEW n \in Nat, NEW unpack, InsideOK(unpack, n),
           NEW d, NEW mem, Valued(d, mem, n), NEW h \in Heaps, NEW s, Kept(f, s, n), Len(s) <= 1
    PROVE  LET r == parse_required_member(unpack, f, mem, s, h)
           IN  Fair(f, s, h, r, n) /\ Len(r.cur) <= 1 /\ (r.ok => r.cur # <<>>)
<1> DEFINE r == parse_required_member(unpack, f, mem, s, h)
           body == Body(mem)
           u == unpack[<<f.sub, body, h>>]
           untyped == f.type # "BOOL" /\ mem.wiretype # WireType(f.type)
           wrong == untyped \/ (f.type \in LengthPrefixed /\ Wrapped(mem))
           v == parse_scalar(f.type, mem.data)
<1>0. body \in Seq(Byte) /\ Len(body) < n
  BY BodyIs
<1>1. CASE wrong
  <2> DEFINE g == IF untyped THEN h ELSE Beyond(h)
             q == [ok |-> FALSE, cur |-> s, h |-> g]
  <2>1. r = q
    BY <1>1 DEF parse_required_member
  <2>2. FALSE \in BOOLEAN /\ g \in Heaps /\ g.crashed = h.crashed /\ g.live = h.live
    BY AllocatedHeap
  <2> HIDE DEF g
  <2>3. Fair(f, s, h, q, n) /\ q.cur = s /\ q.ok = FALSE
    BY <2>2, FairIs
  <2> HIDE DEF q
  <2>4. Len(q.cur) <= 1 /\ (q.ok => q.cur # <<>>)
    BY <2>3
  <2> QED
    BY <2>1, <2>3, <2>4
<1>2. CASE ~wrong /\ f.type = "MESSAGE"
  <2>1. r = Joined(s, u)
    BY <1>2 DEF parse_required_member, ParseMessage, Body
  <2>2. f.sub \in DOMAIN Schema
    BY <1>2 DEF FieldWellFormed
  <2>3. UnpackOK(u, f.sub, h, n)
    BY <1>0, <2>2 DEF InsideOK
  <2> HIDE DEF u, r
  <2>4. Fair(f, s, h, Joined(s, u), n) /\ OneOf(Joined(s, u))
    BY <1>2, <2>3, JoinedOK
  <2> QED
    BY <2>1, <2>4 DEF OneOf, r
<1>3. CASE ~wrong /\ f.type \in {"STRING", "BYTES"}
  <2>0. f.type # "MESSAGE"
    BY <1>3
  <2>1. r = ParseBytes(f, body, s, h)
    BY <1>3, <2>0 DEF parse_required_member, Body
  <2> HIDE DEF r, body
  <2>2. Fair(f, s, h, r, n) /\ OneOf(r)
    BY <1>3, <2>1, BytesOK
  <2> QED
    BY <2>2 DEF OneOf, r
<1>4. CASE ~wrong /\ f.type \notin LengthPrefixed
  <2> DEFINE one == <<v>>
             q == [ok |-> TRUE, cur |-> one, h |-> h]
  <2>1. f.type # "MESSAGE" /\ f.type \notin {"STRING", "BYTES"}
    BY <1>4 DEF LengthPrefixed
  <2>2. r = q
    BY <1>4, <2>1 DEF parse_required_member
  <2> HIDE DEF v
  <2>3. Kept(f, one, n) /\ Len(one) = 1 /\ one # <<>>
    BY <2>1, KeptOne
  <2>4. ValuesOwn(f, one) = 0 /\ ValuesOwn(f, s) = 0
    BY <1>4, <2>3, OwnScalars DEF Kept
  <2> HIDE DEF one
  <2>5. TRUE \in BOOLEAN /\ h.live - ValuesOwn(f, one) = h.live - ValuesOwn(f, s)
    BY <2>4
  <2>6. Fair(f, s, h, q, n) /\ q.cur = one
    BY <2>3, <2>5, FairIs
  <2> HIDE DEF q
  <2>7. Len(q.cur) <= 1 /\ (q.ok => q.cur # <<>>)
    <3>a. Len(one) <= 1 /\ one # <<>>
      BY <2>3
    <3>b. q.cur = one
      BY <2>6
    <3>1. Len(q.cur) <= 1 /\ q.cur # <<>>
      BY ONLY <3>a, <3>b
    <3> QED
      BY ONLY <3>1, Zenon
  <2> HIDE DEF r
  <2> QED
    BY <2>2, <2>6, <2>7 DEF r
<1> QED
  BY <1>1, <1>2, <1>3, <1>4 DEF LengthPrefixed

(* The values of a field, t, are those of a and those of b. *)
BothKept(f, a, b, t, n) ==
    /\ Kept(f, t, n) /\ ValuesOwn(f, t) = ValuesOwn(f, a) + ValuesOwn(f, b)
    /\ a # <<>> \/ b # <<>> => t # <<>>
    /\ a = <<>> => t = b

(* Values joined are the values of both. *)
LEMMA KeptJoined ==
    ASSUME NEW f, NEW n \in Nat, NEW a, NEW b, Kept(f, a, n), Kept(f, b, n)
    PROVE  BothKept(f, a, b, a \o b, n)
<1>1. IsList(a) /\ IsList(b) /\ Counted(f, a) /\ Counted(f, b)
  BY KeptCounted DEF Kept
<1>2. /\ IsList(a \o b)
      /\ \A k \in 1 .. Len(a \o b) :
            \/ \E i \in 1 .. Len(a) : (a \o b)[k] = a[i]
            \/ \E i \in 1 .. Len(b) : (a \o b)[k] = b[i]
      /\ a # <<>> \/ b # <<>> => a \o b # <<>>
  BY <1>1, Elements
<1>3. ValuesOwn(f, a \o b) = ValuesOwn(f, a) + ValuesOwn(f, b)
  BY <1>1, OwnJoined
<1>4. a = <<>> => a \o b = b
  <2>1. b \in Seq(Range(b))
    BY <1>1 DEF IsList
  <2>2. <<>> \o b = b
    BY ONLY <2>1
  <2> QED
    BY <2>2
<1> DEFINE s == a \o b
<1> HIDE DEF s
<1>5. f.type = "MESSAGE" => \A k \in 1 .. Len(s) : Well(s[k], n, TRUE) /\ s[k].desc = f.sub
  BY <1>2 DEF Kept, s
<1>6. Kept(f, s, n)
  BY <1>2, <1>5 DEF Kept, s
<1> QED
  BY <1>2, <1>3, <1>4, <1>6 DEF s, BothKept

(* A field after a member that has c values for it. *)
FieldStep(f, s, h, r, n, c) ==
    /\ Fair(f, s, h, r, n)
    /\ f.label # "repeated" => Len(r.cur) <= 1 /\ (r.ok => r.cur # <<>>)
    /\ f.label = "repeated" => /\ s # <<>> => r.cur # <<>>
                               /\ r.cur # <<>> => s # <<>> \/ c # 0
                               /\ r.ok /\ c # 0 => r.cur # <<>>

(* A member with one value, *)
LEMMA UnpackedOK ==
    ASSUME NEW f, FieldWellFormed(f), NEW n \in Nat, NEW unpack, InsideOK(unpack, n),
           NEW d, NEW mem, Valued(d, mem, n), NEW h \in Heaps, NEW s, Kept(f, s, n),
           f.label # "repeated" => Len(s) <= 1
    PROVE  FieldStep(f, s, h, parse_unpacked(unpack, f, mem, s, h), n, 1)
<1> DEFINE before == IF f.label = "repeated" THEN <<>> ELSE s
           kept == IF f.label = "repeated" THEN s ELSE <<>>
           v == parse_required_member(unpack, f, mem, before, h)
           c == kept \o v.cur
           r == [v EXCEPT !.cur = kept \o @]
<1>1. parse_unpacked(unpack, f, mem, s, h) = r
  BY DEF parse_unpacked
<1>2. Kept(f, <<>>, n) /\ Len(<<>>) <= 1 /\ ValuesOwn(f, <<>>) = 0
  <2>1. Len(<<>>) <= 1
    OBVIOUS
  <2> QED
    BY <2>1, KeptNone, OwnNone
<1>3. Kept(f, before, n) /\ Len(before) <= 1 /\ Kept(f, kept, n)
  BY <1>2
<1> HIDE DEF before, kept
<1>4. Fair(f, before, h, v, n) /\ Len(v.cur) <= 1 /\ (v.ok => v.cur # <<>>)
  BY <1>3, RequiredOK
<1> HIDE DEF v
<1>5. r = [ok |-> v.ok, cur |-> c, h |-> v.h]
  <2>1. PICK x, y, z : v = [ok |-> x, cur |-> y, h |-> z]
    BY <1>4 DEF Fair
  <2>2. v.ok = x /\ v.cur = y /\ v.h = z
    BY ONLY <2>1
  <2>3. r = [v EXCEPT !.cur = c]
    OBVIOUS
  <2> HIDE DEF c, r
  <2>4. [v EXCEPT !.cur = c] = [ok |-> x, cur |-> c, h |-> z]
    BY ONLY <2>1
  <2> QED
    BY ONLY <2>2, <2>3, <2>4
<1> HIDE DEF r
<1>6. v.ok \in BOOLEAN /\ v.h \in Heaps /\ v.h.crashed = h.crashed /\ Kept(f, v.cur, n)
      /\ v.h.live - ValuesOwn(f, v.cur) = h.live - ValuesOwn(f, before)
  BY <1>4 DEF Fair
<1>7. /\ Kept(f, c, n) /\ ValuesOwn(f, c) = ValuesOwn(f, kept) + ValuesOwn(f, v.cur)
      /\ kept # <<>> \/ v.cur # <<>> => c # <<>>
      /\ kept = <<>> => c = v.cur
  <2> DEFINE w == v.cur
             t == kept \o w
  <2>1. Kept(f, w, n)
    BY <1>6
  <2> HIDE DEF w
  <2>2. BothKept(f, kept, w, t, n)
    <3>1. Kept(f, kept, n) /\ n \in Nat
      BY <1>3
    <3> QED
      BY ONLY <2>1, <3>1, KeptJoined
  <2>3. c = t
    BY DEF w
  <2> HIDE DEF t, c
  <2> QED
    BY <2>2, <2>3 DEF w, BothKept
<1>8. ValuesOwn(f, kept) \in Nat /\ ValuesOwn(f, v.cur) \in Nat /\ ValuesOwn(f, before) \in Nat
      /\ v.h.live \in Int /\ h.live \in Int
  BY <1>3, <1>6, KeptCounted, AllocatedHeap
<1>9. ValuesOwn(f, kept) + ValuesOwn(f, before) = ValuesOwn(f, s)
  <2>1. ValuesOwn(f, s) \in Nat
    BY KeptCounted
  <2>2. CASE f.label = "repeated"
    BY <1>2, <2>1, <2>2 DEF kept, before
  <2>3. CASE f.label # "repeated"
    BY <1>2, <2>1, <2>3 DEF kept, before
  <2> QED
    BY <2>2, <2>3
<1> HIDE DEF c
<1>10. v.h.live - ValuesOwn(f, c) = h.live - ValuesOwn(f, s)
  <2> DEFINE a == ValuesOwn(f, kept)
             b == ValuesOwn(f, before)
             e == ValuesOwn(f, v.cur)
             x == ValuesOwn(f, c)
             y == ValuesOwn(f, s)
             l == v.h.live
             g == h.live
  <2>1. /\ l - e = g - b /\ x = a + e /\ a + b = y
        /\ a \in Nat /\ b \in Nat /\ e \in Nat /\ l \in Int /\ g \in Int
    BY <1>6, <1>7, <1>8, <1>9
  <2> HIDE DEF a, b, e, x, y, l, g
  <2>2. l - x = g - y
    BY ONLY <2>1
  <2> QED
    BY <2>2 DEF x, y, l, g
<1>11. Fair(f, s, h, r, n) /\ r.ok = v.ok /\ r.cur = c
  <2> DEFINE o == v.ok
             k == v.h
  <2>1. o \in BOOLEAN /\ k \in Heaps /\ k.crashed = h.crashed
        /\ k.live - ValuesOwn(f, c) = h.live - ValuesOwn(f, s)
    BY <1>6, <1>10
  <2>2. r = [ok |-> o, cur |-> c, h |-> k]
    BY <1>5
  <2> HIDE DEF o, k
  <2>3. LET q == [ok |-> o, cur |-> c, h |-> k] IN Fair(f, s, h, q, n) /\ q.ok = o /\ q.cur = c
    BY <1>7, <2>1, FairIs
  <2> QED
    BY <2>2, <2>3 DEF o
<1>12. f.label # "repeated" => Len(r.cur) <= 1 /\ (r.ok => r.cur # <<>>)
  <2> SUFFICES ASSUME f.label # "repeated" PROVE Len(r.cur) <= 1 /\ (r.ok => r.cur # <<>>)
    OBVIOUS
  <2>1. kept = <<>>
    BY DEF kept
  <2>2. r.cur = v.cur /\ r.ok = v.ok
    BY <1>7, <1>11, <2>1
  <2> QED
    BY <1>4, <2>2
<1>13. f.label = "repeated" => /\ s # <<>> => r.cur # <<>>
                               /\ r.ok => r.cur # <<>>
  <2> SUFFICES ASSUME f.label = "repeated" PROVE (s # <<>> => r.cur # <<>>) /\ (r.ok => r.cur # <<>>)
    OBVIOUS
  <2>1. kept = s
    BY DEF kept
  <2> QED
    BY <1>4, <1>7, <1>11, <2>1
<1>14. 1 # 0
  OBVIOUS
<1> QED
  BY <1>1, <1>11, <1>12, <1>13, <1>14 DEF FieldStep

(* and one with a run of them. *)
LEMMA PackedOK ==
    ASSUME NEW f, f.type \in Types32 \cup Types64 \cup {"BOOL"}, f.label = "repeated", NEW n \in Nat,
           NEW d, NEW mem, Valued(d, mem, n), NEW h \in Heaps, NEW s, Kept(f, s, n),
           count_packed_elements(f.type, Body(mem)) # -1
    PROVE  FieldStep(f, s, h, parse_packed(f, mem, s, h), n, count_packed_elements(f.type, Body(mem)))
<1> DEFINE body == Body(mem)
           count == count_packed_elements(f.type, body)
           run == parse_packed_repeated_member(f.type, body, s)
           c == IF run.ok THEN run.values ELSE s
           o == run.ok
           r == [ok |-> o, cur |-> c, h |-> h]
<1>1. parse_packed(f, mem, s, h) = r
  BY DEF parse_packed, Body
<1>2. body \in Seq(Byte)
  BY BodyIs
<1>3. IsList(s)
  BY DEF Kept
<1> HIDE DEF body
<1>4. /\ run.ok \in BOOLEAN /\ IsList(run.values)
      /\ run.ok => (run.values # <<>> <=> s # <<>> \/ count # 0)
  BY <1>2, <1>3, PackedRun DEF body
<1> HIDE DEF run, count
<1>5. f.type \notin LengthPrefixed /\ f.type # "MESSAGE"
  BY DEF LengthPrefixed, Types32, Types64, Fixed32, Fixed64
<1>6. /\ IsList(c) /\ o \in BOOLEAN
      /\ s # <<>> => c # <<>>
      /\ c # <<>> => s # <<>> \/ count # 0
      /\ o /\ count # 0 => c # <<>>
  <2>1. CASE run.ok
    BY <1>4, <2>1
  <2>2. CASE ~run.ok
    BY <1>3, <1>4, <2>2
  <2> QED
    BY <2>1, <2>2
<1> HIDE DEF c, o
<1>7. Kept(f, c, n)
  BY <1>5, <1>6 DEF Kept
<1>8. ValuesOwn(f, c) = 0 /\ ValuesOwn(f, s) = 0
  BY <1>3, <1>5, <1>6, OwnScalars
<1>9. Fair(f, s, h, r, n) /\ r.ok = o /\ r.cur = c
  <2>1. h.live - ValuesOwn(f, c) = h.live - ValuesOwn(f, s)
    BY <1>8
  <2> QED
    BY <1>6, <1>7, <2>1, FairIs
<1> HIDE DEF r
<1>10. FieldStep(f, s, h, r, n, count)
  BY <1>6, <1>9 DEF FieldStep
<1> QED
  BY <1>1, <1>10 DEF count, body

--------------------------------
(* The third pass: one member *)

(* A state of the third pass is a record. *)
ParseState(p) ==
    p = [msg |-> p.msg, h |-> p.h, ok |-> p.ok, ufields |-> p.ufields] /\ p.ok \in BOOLEAN

(* The arrays that hold nothing yet, and the array of the unknown fields. *)
EmptyArrays(d, a, m) == {i \in a.arrays : m.val[d.fields[i].name] = <<>>}
Unused(p) == IF p.msg.unknown = <<>> THEN p.ufields ELSE 0

(* The message so far: some required fields may be missing, not in the
   messages in it. *)
MsgOK(name, m, n) ==
    m.desc = name /\ Built(m, FALSE) /\ \A c \in Children(m) : Well(c, n, TRUE)

ArraysOK(d, a) ==
    /\ IsFiniteSet(a.arrays) /\ a.arrays \subseteq 1 .. Len(d.fields)
    /\ \A i \in a.arrays : d.fields[i].label = "repeated"

InArrays(d, a, m) ==
    \A i \in 1 .. Len(d.fields) :
        d.fields[i].label = "repeated" /\ m.val[d.fields[i].name] # <<>> => i \in a.arrays

(* g: what is allocated besides the message and its arrays. *)
Accounted(d, a, p, g) ==
    p.h.live = g + Blocks(p.msg) + Cardinality(EmptyArrays(d, a, p.msg)) + Unused(p)

(* All that is allocated is in the message, an empty array, or g. *)
ParseInv(name, a, p, g, h, n) ==
    /\ ParseState(p) /\ p.h \in Heaps /\ p.h.crashed = h.crashed /\ p.ufields \in {0, 1}
    /\ MsgOK(name, p.msg, n)
    /\ Accounted(Schema[name], a, p, g)
    /\ InArrays(Schema[name], a, p.msg)

(* The message so far is well built, but for required fields. *)
LEMMA MsgWell ==
    ASSUME NEW name, NEW m, NEW n \in Nat, MsgOK(name, m, n)
    PROVE  Well(m, n + 1, FALSE) /\ Blocks(m) \in Nat /\ n + 1 \in Nat /\ (n + 1) - 1 = n
<1>1. n + 1 \in Nat /\ (n + 1) - 1 = n
  OBVIOUS
<1>2. \A c \in Children(m) : Well(c, n, FALSE)
  BY WellLess DEF MsgOK
<1>3. Well(m, n + 1, FALSE)
  BY <1>2, WellStep DEF MsgOK
<1> QED
  BY <1>1, <1>3, BlocksAre

(* Two messages that differ in one field at most, which holds what it held or
   has an array. *)
OneField(name, a, j, x, y) ==
    LET fs == Schema[name].fields
    IN  /\ \A i \in 1 .. Len(fs) : i # j => y.val[fs[i].name] = x.val[fs[i].name]
        /\ fs[j].label = "repeated" =>
               /\ x.val[fs[j].name] # <<>> => y.val[fs[j].name] # <<>>
               /\ y.val[fs[j].name] # <<>> => x.val[fs[j].name] # <<>> \/ j \in a.arrays

(* An array is empty or the field's own. *)
InBalance(name, a, j, x, y) ==
    LET f == Schema[name].fields[j]
        e == Cardinality(EmptyArrays(Schema[name], a, x))
        k == Cardinality(EmptyArrays(Schema[name], a, y))
    IN  /\ e \in Nat /\ k \in Nat
        /\ k + ArrayOwn(f, y.val[f.name]) = e + ArrayOwn(f, x.val[f.name])

(* An array that gets its first value is the field's own from then on. *)
LEMMA ArraysChange ==
    ASSUME NEW name \in DOMAIN Schema, NEW a, ArraysOK(Schema[name], a),
           NEW j \in 1 .. Len(Schema[name].fields), NEW x, NEW y, OneField(name, a, j, x, y)
    PROVE  InBalance(name, a, j, x, y)
<1> DEFINE d == Schema[name]
           f == d.fields[j]
           e == EmptyArrays(d, a, x)
           k == EmptyArrays(d, a, y)
           vx == x.val[f.name]
           vy == y.val[f.name]
<1>1. \A i \in 1 .. Len(d.fields) : i # j => y.val[d.fields[i].name] = x.val[d.fields[i].name]
  BY DEF OneField
<1>2. f.label = "repeated" => (vx # <<>> => vy # <<>>) /\ (vy # <<>> => vx # <<>> \/ j \in a.arrays)
  BY DEF OneField
<1>3. IsFiniteSet(a.arrays) /\ a.arrays \subseteq 1 .. Len(d.fields) /\ (j \in a.arrays => f.label = "repeated")
  BY DEF ArraysOK
<1>4. e = {i \in a.arrays : x.val[d.fields[i].name] = <<>>} /\ k = {i \in a.arrays : y.val[d.fields[i].name] = <<>>}
  BY DEF EmptyArrays
<1>5. IsFiniteSet(e) /\ IsFiniteSet(k)
  BY <1>3, <1>4, FS_Subset
<1>6. Cardinality(e) \in Nat /\ Cardinality(k) \in Nat
  BY <1>5, FS_CardinalityType
<1>7. \A i \in a.arrays : i # j => (i \in e <=> i \in k)
  BY <1>1, <1>3, <1>4
<1>8. (j \in e <=> j \in a.arrays /\ vx = <<>>) /\ (j \in k <=> j \in a.arrays /\ vy = <<>>)
  BY <1>4
<1>9. e \subseteq a.arrays /\ k \subseteq a.arrays
  BY <1>4
<1>10. ArrayOwn(f, vx) = (IF f.label = "repeated" /\ vx # <<>> THEN 1 ELSE 0)
       /\ ArrayOwn(f, vy) = (IF f.label = "repeated" /\ vy # <<>> THEN 1 ELSE 0)
  BY DEF ArrayOwn
<1> DEFINE ax == ArrayOwn(f, vx)
           ay == ArrayOwn(f, vy)
<1> SUFFICES Cardinality(e) \in Nat /\ Cardinality(k) \in Nat /\ Cardinality(k) + ay = Cardinality(e) + ax
  BY DEF InBalance
<1> HIDE DEF e, k, vx, vy, f, d, ax, ay
<1>11. CASE f.label = "repeated" /\ vx = <<>> /\ vy # <<>>
  <2>1. j \in e /\ j \notin k
    BY <1>2, <1>8, <1>11
  <2>2. k = e \ {j}
    BY <1>7, <1>8, <1>9, <2>1
  <2>3. Cardinality(k) = Cardinality(e) - 1
    BY <1>5, <2>1, <2>2, FS_RemoveElement
  <2>4. ax = 0 /\ ay = 1
    BY <1>10, <1>11 DEF ax, ay
  <2> QED
    BY <1>6, <2>3, <2>4
<1>12. CASE ~(f.label = "repeated" /\ vx = <<>> /\ vy # <<>>)
  <2>1. j \in e <=> j \in k
    BY <1>2, <1>3, <1>8, <1>12
  <2>2. k = e
    <3>1. \A i \in a.arrays : i \in e <=> i \in k
      BY ONLY <1>7, <2>1
    <3> QED
      BY ONLY <1>9, <3>1
  <2>3. ax = ay
    BY <1>2, <1>10, <1>12 DEF ax, ay
  <2>4. ax \in Nat
    BY <1>10 DEF ax
  <2> QED
    BY <1>6, <2>2, <2>3, <2>4
<1> QED
  BY <1>11, <1>12

(* What a member leaves of what was parsed before it. *)
HoldsMore(name, p, t) ==
    t.ok => /\ p.msg.unknown # <<>> => t.msg.unknown # <<>>
            /\ \A i \in 1 .. Len(Schema[name].fields) :
                  p.msg.val[Schema[name].fields[i].name] # <<>> => t.msg.val[Schema[name].fields[i].name] # <<>>

FieldParsed(p, f, r) ==
    [msg |-> SetField(p.msg, f, r.cur), h |-> r.h, ok |-> r.ok, ufields |-> p.ufields]

(* The message after one of its fields has been set. *)
LEMMA MsgChanged ==
    ASSUME NEW name \in DOMAIN Schema, NEW n \in Nat, NEW x, MsgOK(name, x, n),
           NEW f \in Range(Schema[name].fields), NEW s, Kept(f, s, n), f.label # "repeated" => Len(s) <= 1
    PROVE  MsgOK(name, SetField(x, f, s), n) /\ FieldChanged(x, f, s, SetField(x, f, s), n + 1, FALSE)
<1> DEFINE y == SetField(x, f, s)
           F == Range(Schema[name].fields)
<1>1. Well(x, n + 1, FALSE) /\ n + 1 \in Nat /\ (n + 1) - 1 = n /\ x.desc = name
  BY MsgWell DEF MsgOK
<1>2. Holds(f, s, FALSE)
  BY DEF Kept, Holds
<1>3. f.type = "MESSAGE" => \A i \in 1 .. Len(s) : Well(s[i], (n + 1) - 1, FALSE)
  <2> SUFFICES ASSUME f.type = "MESSAGE", NEW i \in 1 .. Len(s) PROVE Well(s[i], (n + 1) - 1, FALSE)
    OBVIOUS
  <2>1. Well(s[i], n, TRUE)
    BY DEF Kept
  <2>2. Well(s[i], n, FALSE)
    BY <2>1, WellLess
  <2> QED
    BY <1>1, <2>2
<1>4. FieldChanged(x, f, s, y, n + 1, FALSE)
  <2> DEFINE m == n + 1
  <2>1. m \in Nat /\ Well(x, m, FALSE) /\ (f.type = "MESSAGE" => \A i \in 1 .. Len(s) : Well(s[i], m - 1, FALSE))
    BY <1>1, <1>3
  <2>2. f \in Range(Schema[x.desc].fields) /\ FALSE \in BOOLEAN
    BY <1>1
  <2> HIDE DEF m, y
  <2>3. FieldChanged(x, f, s, SetField(x, f, s), m, FALSE)
    BY <1>2, <2>1, <2>2, FieldSet
  <2> QED
    BY <2>3 DEF m, y
<1> HIDE DEF y
<1>5. /\ y.desc = name /\ y.val[f.name] = s /\ Well(y, n + 1, FALSE)
      /\ \A g \in F : g # f => y.val[g.name] = x.val[g.name]
  BY <1>1, <1>4 DEF FieldChanged
<1>6. Built(y, FALSE) /\ Built(x, FALSE)
  BY <1>5, WellStep DEF MsgOK
<1>7. ASSUME NEW c \in Children(y) PROVE Well(c, n, TRUE)
  <2>0. /\ \A k \in Children(y) : \E g \in F :
              g.type = "MESSAGE" /\ \E i \in 1 .. Len(y.val[g.name]) : k = y.val[g.name][i]
        /\ \A g \in F : g.type = "MESSAGE" => \A i \in 1 .. Len(x.val[g.name]) : x.val[g.name][i] \in Children(x)
    <3>1. y.desc = name /\ x.desc = name /\ Built(y, FALSE) /\ Built(x, FALSE)
      BY <1>1, <1>5, <1>6
    <3>2. \A k \in Children(y) : \E g \in Range(Schema[y.desc].fields) :
              g.type = "MESSAGE" /\ \E i \in 1 .. Len(y.val[g.name]) : k = y.val[g.name][i]
      BY ONLY <3>1, ChildrenAre
    <3>3. \A g \in Range(Schema[x.desc].fields) : g.type = "MESSAGE" =>
              \A i \in 1 .. Len(x.val[g.name]) : x.val[g.name][i] \in Children(x)
      BY ONLY <3>1, ChildrenAre
    <3> QED
      BY <3>1, <3>2, <3>3
  <2>1. PICK g \in F : g.type = "MESSAGE" /\ \E i \in 1 .. Len(y.val[g.name]) : c = y.val[g.name][i]
    BY <1>7, <2>0
  <2>2. CASE g = f
    BY <1>5, <2>1, <2>2 DEF Kept
  <2>3. CASE g # f
    <3>1. c \in Children(x)
      BY <1>5, <2>0, <2>1, <2>3
    <3> QED
      BY <3>1 DEF MsgOK
  <2> QED
    BY <2>2, <2>3
<1>8. MsgOK(name, y, n)
  BY <1>5, <1>6, <1>7 DEF MsgOK
<1> QED
  BY <1>4, <1>8 DEF y

(* How a member must find things, and how it leaves them. *)
FieldKept(name, a, p, t, g, h, n, j, c) ==
    /\ ParseInv(name, a, t, g, h, n) /\ HoldsMore(name, p, t) /\ t.ufields = p.ufields
    /\ t.ok /\ (Schema[name].fields[j].label # "repeated" \/ c # 0) =>
          t.msg.val[Schema[name].fields[j].name] # <<>>

(* A field that is set to a fair result leaves everything accounted for. *)
LEMMA FieldParsedKeeps ==
    ASSUME NEW name \in DOMAIN Schema, NEW n \in Nat, NEW h, NEW a, ArraysOK(Schema[name], a),
           NEW g \in Int, NEW p, ParseInv(name, a, p, g, h, n),
           NEW j \in 1 .. Len(Schema[name].fields), NEW f, f = Schema[name].fields[j],
           NEW r, NEW c, FieldStep(f, p.msg.val[f.name], p.h, r, n, c),
           f.label = "repeated" /\ c # 0 => j \in a.arrays
    PROVE  FieldKept(name, a, p, FieldParsed(p, f, r), g, h, n, j, c)
<1> DEFINE d == Schema[name]
           x == p.msg
           s == x.val[f.name]
           v == r.cur
           y == SetField(x, f, v)
           t == FieldParsed(p, f, r)
           fs == d.fields
<1>1. /\ p.h \in Heaps /\ p.h.crashed = h.crashed /\ p.ufields \in {0, 1}
      /\ MsgOK(name, x, n) /\ Accounted(d, a, p, g) /\ InArrays(d, a, x)
  BY Zenon DEF ParseInv
<1>2. /\ Fair(f, s, p.h, r, n)
      /\ f.label # "repeated" => Len(v) <= 1 /\ (r.ok => v # <<>>)
      /\ f.label = "repeated" => /\ s # <<>> => v # <<>>
                                 /\ v # <<>> => s # <<>> \/ c # 0
                                 /\ r.ok /\ c # 0 => v # <<>>
  BY Zenon DEF FieldStep
<1>3. /\ r.ok \in BOOLEAN /\ r.h \in Heaps /\ r.h.crashed = p.h.crashed /\ Kept(f, v, n)
      /\ r.h.live - ValuesOwn(f, v) = p.h.live - ValuesOwn(f, s)
  BY <1>2 DEF Fair
<1>4. /\ f \in Range(fs) /\ \A i, k \in 1 .. Len(fs) : fs[i].name = fs[k].name => i = k
      /\ \A i \in 1 .. Len(fs) : fs[i] \in Range(fs)
  BY FieldsKnown
<1>5. MsgOK(name, y, n) /\ FieldChanged(x, f, v, y, n + 1, FALSE)
  <2> HIDE DEF v, x
  <2> QED
    BY <1>1, <1>2, <1>3, <1>4, MsgChanged
<1> HIDE DEF y
<1>6. /\ y.unknown = x.unknown /\ y.val[f.name] = v /\ x.desc = name
      /\ \A i \in 1 .. Len(fs) : i # j => y.val[fs[i].name] = x.val[fs[i].name]
  <2>1. /\ y.unknown = x.unknown /\ y.val[f.name] = v /\ x.desc = name
        /\ \A k \in Range(fs) : k # f => y.val[k.name] = x.val[k.name]
    BY <1>1, <1>5, ZenonT(60) DEF FieldChanged, MsgOK
  <2>2. \A i \in 1 .. Len(fs) : i # j => fs[i] # f
    BY <1>4
  <2> QED
    BY <1>4, <2>1, <2>2, ZenonT(60)
<1>7. t = [msg |-> y, h |-> r.h, ok |-> r.ok, ufields |-> p.ufields]
  BY DEF FieldParsed, y
<1> HIDE DEF t
<1>8. t.msg = y /\ t.h = r.h /\ t.ok = r.ok /\ t.ufields = p.ufields
  BY ONLY <1>7
<1>9. ParseState(t)
  BY <1>3, <1>7, <1>8 DEF ParseState
<1>10. InArrays(d, a, y)
  <2> SUFFICES ASSUME NEW i \in 1 .. Len(fs), fs[i].label = "repeated", y.val[fs[i].name] # <<>>
               PROVE  i \in a.arrays
    BY DEF InArrays
  <2>1. CASE i = j
    <3>1. s # <<>> \/ c # 0
      BY <1>2, <1>6, <2>1, Zenon
    <3> QED
      BY <1>1, <2>1, <3>1, Zenon DEF InArrays
  <2>2. CASE i # j
    BY <1>1, <1>6, <2>2, ZenonT(60) DEF InArrays
  <2> QED
    BY <2>1, <2>2
<1>11. HoldsMore(name, p, t)
  <2> SUFFICES ASSUME t.ok
               PROVE  /\ p.msg.unknown # <<>> => t.msg.unknown # <<>>
                      /\ \A i \in 1 .. Len(fs) : p.msg.val[fs[i].name] # <<>> => t.msg.val[fs[i].name] # <<>>
    BY DEF HoldsMore
  <2>1. ASSUME NEW i \in 1 .. Len(fs), p.msg.val[fs[i].name] # <<>> PROVE t.msg.val[fs[i].name] # <<>>
    <3>1. CASE i = j
      BY <1>2, <1>6, <1>8, <2>1, <3>1, Zenon
    <3>2. CASE i # j
      BY <1>6, <1>8, <2>1, <3>2, Zenon
    <3> QED
      BY <3>1, <3>2, Zenon
  <2> QED
    BY <1>6, <1>8, <2>1, ZenonT(60)
<1>12. t.ok /\ (f.label # "repeated" \/ c # 0) => t.msg.val[f.name] # <<>>
  BY <1>2, <1>6, <1>8, Zenon
<1>13. InBalance(name, a, j, x, y)
  <2>1. OneField(name, a, j, x, y)
    <3>1. fs[j].label = "repeated" =>
               /\ x.val[fs[j].name] # <<>> => y.val[fs[j].name] # <<>>
               /\ y.val[fs[j].name] # <<>> => x.val[fs[j].name] # <<>> \/ j \in a.arrays
      BY <1>2, <1>6, Zenon
    <3> QED
      BY <1>6, <3>1, Zenon DEF OneField
  <2>2. ArraysOK(Schema[name], a) /\ name \in DOMAIN Schema /\ j \in 1 .. Len(Schema[name].fields)
    BY Zenon
  <2> HIDE DEF x, d, fs
  <2> QED
    BY ONLY <2>1, <2>2, ArraysChange
<1>14. Kept(f, s, n) /\ x.desc = name
  <2>1. Holds(f, s, FALSE) /\ x.desc = name
    BY <1>1, <1>4, Zenon DEF MsgOK, Built
  <2>2. ASSUME f.type = "MESSAGE", NEW k \in 1 .. Len(s) PROVE Well(s[k], n, TRUE) /\ s[k].desc = f.sub
    <3>1. s[k] \in Children(x)
      BY <1>1, <1>4, <2>1, <2>2, ChildrenAre, Zenon DEF MsgOK
    <3> QED
      BY <1>1, <2>1, <2>2, <3>1, Zenon DEF MsgOK, Holds
  <2> QED
    BY <2>1, <2>2, Zenon DEF Kept, Holds
<1>15. ValuesOwn(f, v) \in Nat /\ ValuesOwn(f, s) \in Nat /\ p.h.live \in Int /\ r.h.live \in Int
       /\ ArrayOwn(f, v) \in Nat /\ ArrayOwn(f, s) \in Nat
  <2>1. ArrayOwn(f, v) \in Nat /\ ArrayOwn(f, s) \in Nat
    BY SMTT(60) DEF ArrayOwn
  <2> QED
    BY <1>1, <1>3, <1>14, <2>1, KeptCounted, AllocatedHeap, Zenon
<1>16. /\ Blocks(x) \in Nat /\ Blocks(y) \in Nat
       /\ Blocks(y) = Blocks(x) - Own(f, s) + Own(f, v)
  BY <1>5, Zenon DEF FieldChanged
<1>17. Own(f, s) = ValuesOwn(f, s) + ArrayOwn(f, s) /\ Own(f, v) = ValuesOwn(f, v) + ArrayOwn(f, v)
  BY Zenon DEF Own
<1>18. Unused(t) = Unused(p) /\ Unused(p) \in Nat
  BY <1>1, <1>6, <1>8 DEF Unused
<1>19. Accounted(d, a, t, g)
  <2> DEFINE ex == Cardinality(EmptyArrays(d, a, x))
             ey == Cardinality(EmptyArrays(d, a, y))
             ax == ArrayOwn(f, s)
             ay == ArrayOwn(f, v)
             vx == ValuesOwn(f, s)
             vy == ValuesOwn(f, v)
             bx == Blocks(x)
             by == Blocks(y)
             lx == p.h.live
             ly == r.h.live
             w == Unused(p)
  <2>1. /\ ex \in Nat /\ ey \in Nat /\ ey + ay = ex + ax
        /\ ly - vy = lx - vx /\ lx = g + bx + ex + w
        /\ ax \in Nat /\ ay \in Nat /\ vx \in Nat /\ vy \in Nat /\ bx \in Nat /\ by \in Nat
        /\ lx \in Int /\ ly \in Int /\ w \in Nat /\ g \in Int
    BY <1>1, <1>3, <1>6, <1>13, <1>15, <1>16, <1>18, Zenon DEF InBalance, Accounted
  <2>2. by = bx - (vx + ax) + (vy + ay)
    BY <1>16, <1>17, Zenon
  <2>3. t.h.live = ly /\ Unused(t) = w /\ t.msg = y
    BY <1>8, <1>18
  <2>4. Accounted(d, a, t, g) <=> t.h.live = g + Blocks(t.msg) + Cardinality(EmptyArrays(d, a, t.msg)) + Unused(t)
    BY DEF Accounted
  <2>5. Accounted(d, a, t, g) <=> ly = g + by + ey + w
    BY <2>3, <2>4
  <2> HIDE DEF ex, ey, ax, ay, vx, vy, bx, by, lx, ly, w
  <2>6. ly = g + by + ey + w
    BY ONLY <2>1, <2>2
  <2> QED
    BY <2>5, <2>6, Zenon
<1>20. ParseInv(name, a, t, g, h, n)
  BY <1>1, <1>3, <1>5, <1>8, <1>9, <1>10, <1>19 DEF ParseInv
<1>21. FieldKept(name, a, p, t, g, h, n, j, c)
  BY <1>8, <1>11, <1>12, <1>20 DEF FieldKept
<1> QED
  BY <1>21 DEF t

(* The message with one more of the members that have no field in it. *)
WithUnknown(x, u) == [x EXCEPT !.unknown = Append(@, u)]

(* An unknown field takes a block, the first one the array too. *)
LEMMA MsgUnknown ==
    ASSUME NEW name \in DOMAIN Schema, NEW n \in Nat, NEW x, MsgOK(name, x, n), NEW u
    PROVE  LET y == WithUnknown(x, u)
           IN  /\ MsgOK(name, y, n) /\ y.val = x.val /\ y.unknown # <<>>
               /\ Blocks(x) \in Nat /\ Blocks(y) \in Nat
               /\ Blocks(y) = Blocks(x) + (IF x.unknown = <<>> THEN 2 ELSE 1)
<1> DEFINE y == WithUnknown(x, u)
           us == Append(x.unknown, u)
           k == n + 1
<1>1. x.desc = name /\ Built(x, FALSE) /\ \A c \in Children(x) : Well(c, n, TRUE)
  BY DEF MsgOK
<1>2. x = [desc |-> x.desc, unknown |-> x.unknown, val |-> x.val] /\ IsList(x.unknown)
  BY <1>1 DEF Built
<1>3. IsList(us) /\ Len(x.unknown) \in Nat /\ Len(us) = Len(x.unknown) + 1
  BY <1>2, Appended
<1>4. y = [desc |-> x.desc, unknown |-> us, val |-> x.val]
  <2>1. PICK a, b, c : x = [desc |-> a, unknown |-> b, val |-> c]
    BY <1>2
  <2>2. x.desc = a /\ x.unknown = b /\ x.val = c
    BY ONLY <2>1
  <2>3. y = [x EXCEPT !.unknown = us]
    BY DEF WithUnknown
  <2> HIDE DEF us, y
  <2>4. [x EXCEPT !.unknown = us] = [desc |-> a, unknown |-> us, val |-> c]
    BY ONLY <2>1
  <2> QED
    BY ONLY <2>2, <2>3, <2>4
<1> HIDE DEF y
<1>5. y.desc = x.desc /\ y.unknown = us /\ y.val = x.val
  BY ONLY <1>4
<1>6. us # <<>>
  <2>1. Len(us) # Len(<<>>)
    BY <1>3
  <2> HIDE DEF us
  <2> QED
    BY <2>1
<1> HIDE DEF us
<1>7. Built(y, FALSE)
  <2>1. y = [desc |-> y.desc, unknown |-> y.unknown, val |-> y.val]
    BY <1>4, <1>5
  <2> QED
    BY <1>1, <1>3, <1>5, <2>1 DEF Built
<1>8. Children(y) = Children(x)
  BY <1>5 DEF Children
<1>9. MsgOK(name, y, n)
  BY <1>1, <1>5, <1>7, <1>8 DEF MsgOK
<1>10. Well(x, k, FALSE) /\ Well(y, k, FALSE) /\ k \in Nat
  BY <1>9, MsgWell
<1> HIDE DEF k
<1>11. FieldsOwn(y) = FieldsOwn(x)
  BY <1>5 DEF FieldsOwn
<1>12. /\ Blocks(x) = 1 + SumFunction(FieldsOwn(x)) + UnknownOwn(x.unknown) /\ Blocks(x) \in Nat
       /\ SumFunction(FieldsOwn(x)) \in Nat
  BY <1>10, BlocksAre
<1>13. Blocks(y) = 1 + SumFunction(FieldsOwn(x)) + UnknownOwn(us) /\ Blocks(y) \in Nat
  BY <1>5, <1>10, <1>11, BlocksAre
<1>14. UnknownOwn(us) = Len(x.unknown) + 2 /\ UnknownOwn(x.unknown) = IF x.unknown = <<>> THEN 0 ELSE 1 + Len(x.unknown)
  BY <1>3, <1>6 DEF UnknownOwn
<1>15. x.unknown = <<>> => Len(x.unknown) = 0
  OBVIOUS
<1>16. Blocks(y) = Blocks(x) + (IF x.unknown = <<>> THEN 2 ELSE 1)
  <2> DEFINE b == Blocks(x)
             c == Blocks(y)
             e == SumFunction(FieldsOwn(x))
             l == Len(x.unknown)
  <2>1. CASE x.unknown = <<>>
    <3>1. b = 1 + e + 0 /\ c = 1 + e + (l + 2) /\ l = 0 /\ e \in Nat
      BY <1>12, <1>13, <1>14, <1>15, <2>1
    <3> HIDE DEF b, c, e, l
    <3>2. c = b + 2
      BY ONLY <3>1
    <3> QED
      BY <2>1, <3>2 DEF b, c
  <2>2. CASE x.unknown # <<>>
    <3>1. b = 1 + e + (1 + l) /\ c = 1 + e + (l + 2) /\ l \in Nat /\ e \in Nat
      BY <1>3, <1>12, <1>13, <1>14, <2>2
    <3> HIDE DEF b, c, e, l
    <3>2. c = b + 1
      BY ONLY <3>1
    <3> QED
      BY <2>2, <3>2 DEF b, c
  <2> QED
    BY <2>1, <2>2
<1> QED
  BY <1>5, <1>6, <1>9, <1>12, <1>13, <1>16 DEF y

(* The parse after a member that has no field: the heap has the block of the
   member, the array having been allocated before. *)
UnknownParsed(p, u) ==
    [msg |-> WithUnknown(p.msg, u), h |-> do_alloc(p.h), ok |-> p.ok, ufields |-> p.ufields]

(* parse_member on a member without a field. *)
LEMMA UnknownIs ==
    ASSUME NEW p, ParseState(p), NEW u
    PROVE  [p EXCEPT !.msg.unknown = Append(@, u), !.h = do_alloc(@)] = UnknownParsed(p, u)
<1>1. PICK m, k, o, w : p = [msg |-> m, h |-> k, ok |-> o, ufields |-> w]
  BY DEF ParseState
<1>2. p.msg = m /\ p.h = k /\ p.ok = o /\ p.ufields = w
  BY ONLY <1>1
<1> DEFINE e == WithUnknown(m, u)
           l == do_alloc(k)
           q == [p EXCEPT !.msg = e]
           t == [q EXCEPT !.h = l]
<1>3. t = [p EXCEPT !.msg.unknown = Append(@, u), !.h = do_alloc(@)]
  <2>1. q = [p EXCEPT !.msg.unknown = Append(@, u)]
    BY <1>2 DEF WithUnknown
  <2>2. q.h = k
    BY <1>1, <1>2
  <2> HIDE DEF q
  <2>3. t = [q EXCEPT !.h = do_alloc(@)]
    BY <2>2
  <2> QED
    BY <2>1, <2>3
<1> HIDE DEF e, l
<1>4. q = [msg |-> e, h |-> k, ok |-> o, ufields |-> w]
  BY ONLY <1>1
<1> HIDE DEF q
<1>5. t = [msg |-> e, h |-> l, ok |-> o, ufields |-> w]
  BY ONLY <1>4
<1> HIDE DEF t
<1> QED
  BY <1>2, <1>3, <1>5 DEF e, l, UnknownParsed

(* It leaves everything accounted for. *)
LEMMA UnknownKeeps ==
    ASSUME NEW name \in DOMAIN Schema, NEW n \in Nat, NEW h, NEW a, ArraysOK(Schema[name], a),
           NEW g \in Int, NEW p, ParseInv(name, a, p, g, h, n), p.ufields = 1, CanAlloc(p.h), NEW u
    PROVE  /\ ParseInv(name, a, UnknownParsed(p, u), g, h, n) /\ HoldsMore(name, p, UnknownParsed(p, u))
           /\ UnknownParsed(p, u).ufields = p.ufields /\ UnknownParsed(p, u).msg.unknown # <<>>
<1> DEFINE d == Schema[name]
           x == p.msg
           y == WithUnknown(x, u)
           k == do_alloc(p.h)
           t == UnknownParsed(p, u)
<1>1. /\ p.h \in Heaps /\ p.h.crashed = h.crashed /\ p.ok \in BOOLEAN
      /\ MsgOK(name, x, n) /\ Accounted(d, a, p, g) /\ InArrays(d, a, x)
  BY DEF ParseInv, ParseState
<1>2. k \in Heaps /\ k.crashed = h.crashed /\ k.live = p.h.live + 1 /\ p.h.live \in Int
  BY <1>1, AllocatedHeap
<1>3. /\ MsgOK(name, y, n) /\ y.val = x.val /\ y.unknown # <<>>
      /\ Blocks(x) \in Nat /\ Blocks(y) \in Nat
      /\ Blocks(y) = Blocks(x) + (IF x.unknown = <<>> THEN 2 ELSE 1)
  BY <1>1, MsgUnknown
<1> HIDE DEF y, k
<1>4. t = [msg |-> y, h |-> k, ok |-> p.ok, ufields |-> p.ufields]
  BY DEF UnknownParsed, y, k
<1> HIDE DEF t
<1>5. t.msg = y /\ t.h = k /\ t.ok = p.ok /\ t.ufields = p.ufields
  BY ONLY <1>4
<1>6. ParseState(t)
  BY <1>1, <1>4, <1>5 DEF ParseState
<1>7. InArrays(d, a, y) /\ EmptyArrays(d, a, y) = EmptyArrays(d, a, x)
  BY <1>1, <1>3 DEF InArrays, EmptyArrays
<1>8. Unused(t) = 0 /\ Unused(p) = IF x.unknown = <<>> THEN 1 ELSE 0
  BY <1>3, <1>5 DEF Unused
<1>9. Accounted(d, a, t, g)
  <2> DEFINE e == Cardinality(EmptyArrays(d, a, x))
             bx == Blocks(x)
             by == Blocks(y)
             lx == p.h.live
             ly == k.live
             w == Unused(p)
             z == IF x.unknown = <<>> THEN 2 ELSE 1
  <2>1. lx = g + bx + e + w /\ ly = lx + 1 /\ by = bx + z /\ z = w + 1
    BY <1>1, <1>2, <1>3, <1>8 DEF Accounted
  <2>2. bx \in Nat /\ lx \in Int /\ g \in Int /\ w \in Nat
    BY <1>2, <1>3, <1>8
  <2>3. Accounted(d, a, t, g) <=> ly = g + by + e + 0
    BY <1>5, <1>7, <1>8 DEF Accounted
  <2>4. e \in Int
    <3>1. IsFiniteSet(EmptyArrays(d, a, x))
      BY FS_Subset DEF EmptyArrays, ArraysOK
    <3>2. e \in Nat
      BY <3>1, FS_CardinalityType
    <3> QED
      BY <3>2
  <2> HIDE DEF e, bx, by, lx, ly, w, z
  <2>5. ly = g + by + e + 0
    BY ONLY <2>1, <2>2, <2>4
  <2> QED
    BY <2>3, <2>5
<1>10. HoldsMore(name, p, t)
  BY <1>3, <1>5 DEF HoldsMore
<1>11. ParseInv(name, a, t, g, h, n)
  BY <1>1, <1>2, <1>3, <1>5, <1>6, <1>7, <1>9 DEF ParseInv
<1> QED
  BY <1>3, <1>5, <1>10, <1>11 DEF t

(* What a field of the message holds. *)
LEMMA MsgField ==
    ASSUME NEW name \in DOMAIN Schema, NEW n \in Nat, NEW x, MsgOK(name, x, n),
           NEW f \in Range(Schema[name].fields)
    PROVE  /\ Kept(f, x.val[f.name], n) /\ x.desc = name
           /\ f.label # "repeated" => Len(x.val[f.name]) <= 1
<1> DEFINE s == x.val[f.name]
<1>1. x.desc = name /\ Built(x, FALSE) /\ \A c \in Children(x) : Well(c, n, TRUE)
  BY DEF MsgOK
<1>2. Holds(f, s, FALSE)
  BY <1>1 DEF Built
<1>3. ASSUME f.type = "MESSAGE", NEW k \in 1 .. Len(s) PROVE Well(s[k], n, TRUE) /\ s[k].desc = f.sub
  <2>1. s[k] \in Children(x)
    BY <1>1, <1>3, ChildrenAre
  <2> QED
    BY <1>1, <1>2, <1>3, <2>1 DEF Holds
<1> QED
  BY <1>1, <1>2, <1>3 DEF Kept, Holds

(* parse_member on a member with a field. *)
LEMMA FieldParsedIs ==
    ASSUME NEW p, ParseState(p), NEW f, NEW r
    PROVE  [p EXCEPT !.msg.val[f.name] = r.cur, !.h = r.h, !.ok = r.ok] = FieldParsed(p, f, r)
<1>1. PICK m, k, o, w : p = [msg |-> m, h |-> k, ok |-> o, ufields |-> w]
  BY DEF ParseState
<1>2. p.msg = m /\ p.h = k /\ p.ok = o /\ p.ufields = w
  BY ONLY <1>1
<1> DEFINE c == r.cur
           l == r.h
           b == r.ok
           e == SetField(m, f, c)
           q1 == [p EXCEPT !.msg = e]
           q2 == [q1 EXCEPT !.h = l]
           t == [q2 EXCEPT !.ok = b]
<1>3. t = [p EXCEPT !.msg.val[f.name] = c, !.h = l, !.ok = b]
  <2> HIDE DEF c, l, b
  <2>1. q1 = [p EXCEPT !.msg.val[f.name] = c]
    BY <1>2 DEF SetField
  <2>2. q2 = [p EXCEPT !.msg.val[f.name] = c, !.h = l]
    BY <2>1
  <2> HIDE DEF q2
  <2> QED
    BY <2>2
<1> HIDE DEF e, c, l, b
<1>4. q1 = [msg |-> e, h |-> k, ok |-> o, ufields |-> w]
  BY ONLY <1>1
<1> HIDE DEF q1
<1>5. q2 = [msg |-> e, h |-> l, ok |-> o, ufields |-> w]
  BY ONLY <1>4
<1> HIDE DEF q2
<1>6. t = [msg |-> e, h |-> l, ok |-> b, ufields |-> w]
  <2>1. [[msg |-> e, h |-> l, ok |-> o, ufields |-> w] EXCEPT !.ok = b]
        = [msg |-> e, h |-> l, ok |-> b, ufields |-> w]
    OBVIOUS
  <2>2. t = [[msg |-> e, h |-> l, ok |-> o, ufields |-> w] EXCEPT !.ok = b]
    BY ONLY <1>5
  <2> QED
    BY ONLY <2>1, <2>2
<1> HIDE DEF t
<1>7. FieldParsed(p, f, r) = [msg |-> e, h |-> l, ok |-> b, ufields |-> w]
  BY <1>2 DEF FieldParsed, e, c, l, b
<1> QED
  BY <1>3, <1>6, <1>7 DEF c, l, b

(* The third pass ends, *)
LEMMA ParseEnds ==
    ASSUME NEW p, ParseState(p)
    PROVE  LET t == [p EXCEPT !.ok = FALSE]
           IN  ParseState(t) /\ ~t.ok /\ t.msg = p.msg /\ t.h = p.h /\ t.ufields = p.ufields
<1>1. PICK m, k, o, w : p = [msg |-> m, h |-> k, ok |-> o, ufields |-> w]
  BY DEF ParseState
<1>2. p.msg = m /\ p.h = k /\ p.ufields = w
  BY ONLY <1>1
<1>3. PICK z : z = FALSE
  OBVIOUS
<1> DEFINE t == [p EXCEPT !.ok = z]
<1>4. t = [msg |-> m, h |-> k, ok |-> z, ufields |-> w]
  BY ONLY <1>1
<1> HIDE DEF t
<1>5. t.msg = m /\ t.h = k /\ t.ok = z /\ t.ufields = w
  BY ONLY <1>4
<1>6. z \in BOOLEAN /\ ~z
  BY ONLY <1>3, Zenon
<1>7. t = [msg |-> t.msg, h |-> t.h, ok |-> t.ok, ufields |-> t.ufields]
  BY ONLY <1>4, <1>5
<1>8. ParseState(t) /\ ~t.ok
  BY <1>5, <1>6, <1>7, Zenon DEF ParseState
<1>9. t = [p EXCEPT !.ok = FALSE]
  BY <1>3, Zenon DEF t
<1>10. t.msg = p.msg /\ t.h = p.h /\ t.ufields = p.ufields
  BY ONLY <1>2, <1>5
<1> QED
  BY ONLY <1>8, <1>9, <1>10, Zenon

(* with everything accounted for. *)
LEMMA EndsKeeps ==
    ASSUME NEW name, NEW a, NEW p, NEW g, NEW h, NEW n, ParseInv(name, a, p, g, h, n)
    PROVE  LET t == [p EXCEPT !.ok = FALSE]
           IN  ParseInv(name, a, t, g, h, n) /\ ~t.ok /\ t.ufields = p.ufields
<1> DEFINE t == [p EXCEPT !.ok = FALSE]
<1>1. ParseState(t) /\ ~t.ok /\ t.msg = p.msg /\ t.h = p.h /\ t.ufields = p.ufields
  BY ParseEnds DEF ParseInv
<1> HIDE DEF t
<1>2. Unused(t) = Unused(p)
  BY <1>1 DEF Unused
<1>3. ParseInv(name, a, t, g, h, n)
  BY <1>1, <1>2 DEF ParseInv, Accounted
<1> QED
  BY <1>1, <1>3 DEF t

(* There is a place for a member: an array of unknown fields or, if it has
   values for a repeated field, the array of that field. *)
HasPlace(d, a, p, mem) ==
    p.ok => /\ mem.field = 0 => p.ufields = 1
            /\ mem.field # 0 /\ d.fields[mem.field].label = "repeated" /\ CountOf(d, mem) # 0 =>
                  mem.field \in a.arrays

(* A member has left something in the message. *)
Done(d, m, mem) ==
    /\ mem.field = 0 => m.unknown # <<>>
    /\ mem.field # 0 /\ (d.fields[mem.field].label # "repeated" \/ CountOf(d, mem) # 0) =>
          m.val[d.fields[mem.field].name] # <<>>

(* What parsing a member must leave. *)
MemberKept(name, a, p, t, g, h, n, mem) ==
    /\ ParseInv(name, a, t, g, h, n) /\ HoldsMore(name, p, t) /\ t.ufields = p.ufields
    /\ t.ok => p.ok /\ Done(Schema[name], t.msg, mem)

(* Whatever the member, everything stays accounted for. *)
LEMMA MemberKeeps ==
    ASSUME NEW name \in DOMAIN Schema, NEW n \in Nat, NEW unpack, InsideOK(unpack, n),
           NEW h, NEW a, ArraysOK(Schema[name], a),
           NEW g \in Int, NEW p, ParseInv(name, a, p, g, h, n),
           NEW mem, Valued(Schema[name], mem, n), CountOf(Schema[name], mem) \in Nat,
           HasPlace(Schema[name], a, p, mem)
    PROVE  MemberKept(name, a, p, parse_member(unpack, Schema[name], p, mem), g, h, n, mem)
<1> DEFINE d == Schema[name]
           t == parse_member(unpack, d, p, mem)
           j == mem.field
           f == d.fields[j]
           s == p.msg.val[f.name]
           u == [tag |-> mem.tag, wiretype |-> mem.wiretype, data |-> mem.data]
           c == CountOf(d, mem)
           run == f.label = "repeated" /\ IsPackedRun(f, mem.wiretype)
           rp == parse_packed(f, mem, s, p.h)
           ru == parse_unpacked(unpack, f, mem, s, p.h)
           ended == [p EXCEPT !.ok = FALSE]
           grown == [p EXCEPT !.msg.unknown = Append(@, u), !.h = do_alloc(@)]
           set(r) == [p EXCEPT !.msg.val[f.name] = r.cur, !.h = r.h, !.ok = r.ok]
<1>0. /\ ParseState(p) /\ p.h \in Heaps /\ MsgOK(name, p.msg, n)
      /\ j \in 0 .. Len(d.fields) /\ Len(d.fields) \in Nat
  BY FieldsKnown DEF ParseInv, Valued
<1>1. CASE ~p.ok
  <2>1. t = p
    BY <1>1 DEF parse_member
  <2> HIDE DEF t
  <2> QED
    BY <1>1, <2>1 DEF MemberKept, HoldsMore, t
<1>2. CASE p.ok /\ j = 0 /\ ~CanAlloc(p.h)
  <2>1. t = ended
    BY <1>2 DEF parse_member
  <2>2. ParseInv(name, a, ended, g, h, n) /\ ~ended.ok /\ ended.ufields = p.ufields
    BY EndsKeeps
  <2> HIDE DEF t, ended
  <2> QED
    BY <2>1, <2>2 DEF MemberKept, HoldsMore, t
<1>3. CASE p.ok /\ j = 0 /\ CanAlloc(p.h)
  <2>1. t = grown
    BY <1>3 DEF parse_member
  <2>2. grown = UnknownParsed(p, u)
    BY <1>0, UnknownIs
  <2>3. p.ufields = 1
    BY <1>3 DEF HasPlace
  <2> HIDE DEF t, grown, u
  <2>4. /\ ParseInv(name, a, t, g, h, n) /\ HoldsMore(name, p, t) /\ t.ufields = p.ufields
        /\ t.msg.unknown # <<>>
    BY <1>3, <2>1, <2>2, <2>3, UnknownKeeps, ZenonT(60)
  <2> QED
    BY <1>3, <2>4 DEF MemberKept, Done, t
<1>4. CASE p.ok /\ j # 0
  <2>0. j \in 1 .. Len(d.fields)
    BY <1>0, <1>4
  <2>1. FieldWellFormed(f) /\ f \in Range(d.fields)
    BY <2>0, FieldsKnown
  <2>2. Kept(f, s, n) /\ (f.label # "repeated" => Len(s) <= 1)
    BY <1>0, <2>1, MsgField, SMTT(60)
  <2>3. c \in Nat /\ c = (IF f.label # "repeated" THEN 0
             ELSE IF IsPackedRun(f, mem.wiretype)
                  THEN IF Wrapped(mem) THEN -2 ELSE count_packed_elements(f.type, Body(mem))
             ELSE 1)
    BY <1>4 DEF CountOf, Body
  <2>4. f.label = "repeated" /\ c # 0 => j \in a.arrays
    BY <1>4 DEF HasPlace
  <2>5. \A r : set(r) = FieldParsed(p, f, r)
    <3> SUFFICES ASSUME NEW r PROVE set(r) = FieldParsed(p, f, r)
      OBVIOUS
    <3> HIDE DEF f
    <3> QED
      BY <1>0, FieldParsedIs
  <2>6. CASE run
    <3>1. t = set(rp)
      BY <1>4, <2>6, Zenon DEF parse_member
    <3>2. t = FieldParsed(p, f, rp)
      BY <2>5, <3>1, Zenon
    <3>3. f.type \in Types32 \cup Types64 \cup {"BOOL"}
      BY <2>1, <2>6, RunType
    <3>4. c = count_packed_elements(f.type, Body(mem)) /\ c # -1
      BY <2>3, <2>6
    <3>5. FieldStep(f, s, p.h, rp, n, c)
      <4> DEFINE k == p.h
      <4>1. k \in Heaps /\ f.label = "repeated" /\ count_packed_elements(f.type, Body(mem)) # -1
        BY <1>0, <2>6, <3>4
      <4> HIDE DEF k, s, f, d, c
      <4>2. FieldStep(f, s, k, parse_packed(f, mem, s, k), n, count_packed_elements(f.type, Body(mem)))
        BY <2>2, <3>3, <4>1, PackedOK DEF d
      <4> QED
        BY <3>4, <4>2 DEF k
    <3> HIDE DEF rp, c, t, s
    <3>6. FieldKept(name, a, p, FieldParsed(p, f, rp), g, h, n, j, c)
      <4>1. FieldStep(f, p.msg.val[f.name], p.h, rp, n, c)
        BY <3>5 DEF s
      <4> QED
        BY <2>0, <2>4, <4>1, FieldParsedKeeps
    <3>7. MemberKept(name, a, p, t, g, h, n, mem)
      BY <1>4, <3>2, <3>6, Zenon DEF MemberKept, FieldKept, Done, c
    <3> QED
      BY <3>7 DEF t
  <2>7. CASE ~run
    <3>1. t = set(ru)
      BY <1>4, <2>7, Zenon DEF parse_member
    <3>2. t = FieldParsed(p, f, ru)
      BY <2>5, <3>1, Zenon
    <3>3. f.label = "repeated" => c = 1
      BY <2>3, <2>7
    <3>4. FieldStep(f, s, p.h, ru, n, 1)
      <4> DEFINE k == p.h
      <4>1. k \in Heaps
        BY <1>0
      <4> HIDE DEF k, s, f, d
      <4>2. FieldStep(f, s, k, parse_unpacked(unpack, f, mem, s, k), n, 1)
        BY <2>1, <2>2, <4>1, UnpackedOK DEF d
      <4> QED
        BY <4>2 DEF k
    <3>5. f.label = "repeated" => j \in a.arrays
      BY <2>4, <3>3
    <3> HIDE DEF ru, t, s
    <3>6. FieldKept(name, a, p, FieldParsed(p, f, ru), g, h, n, j, 1)
      <4>1. FieldStep(f, p.msg.val[f.name], p.h, ru, n, 1)
        BY <3>4 DEF s
      <4> QED
        BY <2>0, <3>5, <4>1, FieldParsedKeeps
    <3>7. MemberKept(name, a, p, t, g, h, n, mem)
      <4>1. t.ok => t.msg.val[f.name] # <<>>
        BY <3>2, <3>6 DEF FieldKept
      <4> QED
        BY <1>4, <3>2, <3>6, <4>1, Zenon DEF MemberKept, FieldKept, Done
    <3> QED
      BY <3>7 DEF t
  <2> QED
    BY <2>6, <2>7
<1> QED
  BY <1>1, <1>2, <1>3, <1>4

(* Two functions that unpack the messages with fewer than n bytes alike. *)
Agree(u1, u2, n) ==
    \A name \in DOMAIN Schema, body \in Seq(Byte), h \in Heaps :
        Len(body) < n => u1[<<name, body, h>>] = u2[<<name, body, h>>]

(* They parse a member alike. *)
LEMMA SameMember ==
    ASSUME NEW name \in DOMAIN Schema, NEW n \in Nat, NEW u1, NEW u2, Agree(u1, u2, n),
           NEW p, p.h \in Heaps, NEW mem, Valued(Schema[name], mem, n)
    PROVE  parse_member(u1, Schema[name], p, mem) = parse_member(u2, Schema[name], p, mem)
<1> DEFINE d == Schema[name]
           f == d.fields[mem.field]
           body == Body(mem)
<1>1. CASE mem.field = 0
  BY <1>1, Zenon DEF parse_member
<1>2. CASE mem.field # 0
  <2>1. FieldWellFormed(f)
    BY <1>2, FieldsKnown DEF Valued
  <2>2. body \in Seq(Byte) /\ Len(body) < n
    BY BodyIs
  <2>3. f.type = "MESSAGE" => u1[<<f.sub, body, p.h>>] = u2[<<f.sub, body, p.h>>]
    <3> SUFFICES ASSUME f.type = "MESSAGE" PROVE u1[<<f.sub, body, p.h>>] = u2[<<f.sub, body, p.h>>]
      OBVIOUS
    <3>1. f.sub \in DOMAIN Schema
      BY <2>1 DEF FieldWellFormed
    <3> HIDE DEF f, body
    <3> QED
      BY <2>2, <3>1 DEF Agree
  <2>4. ASSUME NEW cur PROVE parse_required_member(u1, f, mem, cur, p.h) = parse_required_member(u2, f, mem, cur, p.h)
    <3>1. CASE f.type = "MESSAGE"
      <4>1. ParseMessage(u1, f, body, cur, p.h) = ParseMessage(u2, f, body, cur, p.h)
        BY <2>3, <3>1 DEF ParseMessage
      <4> HIDE DEF f
      <4> QED
        BY <3>1, <4>1 DEF parse_required_member, Body
    <3>2. CASE f.type # "MESSAGE"
      <4> HIDE DEF f
      <4> QED
        BY <3>2 DEF parse_required_member
    <3> QED
      BY <3>1, <3>2
  <2>5. ASSUME NEW s PROVE parse_unpacked(u1, f, mem, s, p.h) = parse_unpacked(u2, f, mem, s, p.h)
    <3> DEFINE b == IF f.label = "repeated" THEN <<>> ELSE s
               q1 == parse_required_member(u1, f, mem, b, p.h)
               q2 == parse_required_member(u2, f, mem, b, p.h)
               k == IF f.label = "repeated" THEN s ELSE <<>>
    <3>1. q1 = q2
      BY <2>4
    <3>2. parse_unpacked(u1, f, mem, s, p.h) = [q1 EXCEPT !.cur = k \o @]
      BY DEF parse_unpacked
    <3>3. parse_unpacked(u2, f, mem, s, p.h) = [q2 EXCEPT !.cur = k \o @]
      BY DEF parse_unpacked
    <3> HIDE DEF q1, q2, k
    <3> QED
      BY <3>1, <3>2, <3>3
  <2> QED
    BY <1>2, <2>5, Zenon DEF parse_member
<1> QED
  BY <1>1, <1>2

ParseStep(unpack, d, p, members, f, i) ==
    IF i = 0 THEN p ELSE parse_member(unpack, d, f[i - 1], members[i])
IsParse(unpack, d, p, members, f) ==
    f = [i \in 0 .. Len(members) |-> ParseStep(unpack, d, p, members, f, i)]

(* ParseMembers is a function of the number of members, when there is one. *)
LEMMA ParseIs ==
    ASSUME NEW unpack, NEW d, NEW p, NEW members
    PROVE  ParseMembers(unpack, d, p, members)
           = (CHOOSE f : IsParse(unpack, d, p, members, f))[Len(members)]
BY DEF ParseMembers, IsParse, ParseStep

(* There is such a function. *)
LEMMA ParseExists ==
    ASSUME NEW unpack, NEW d, NEW p, NEW members, Len(members) \in Nat
    PROVE  \E f : IsParse(unpack, d, p, members, f)
<1> DEFINE Step(f, i) == ParseStep(unpack, d, p, members, f, i)
           T == {k \in Nat : \E f : f = [i \in 0 .. k |-> Step(f, i)]}
<1>1. 0 \in T
  <2> DEFINE f == [i \in 0 .. 0 |-> p]
  <2>1. \A i \in 0 .. 0 : Step(f, i) = p
    BY DEF ParseStep
  <2>2. f = [i \in 0 .. 0 |-> Step(f, i)]
    BY <2>1
  <2> HIDE DEF f
  <2> QED
    BY <2>2
<1>2. ASSUME NEW k \in Nat, k \in T PROVE k + 1 \in T
  <2>1. PICK f : f = [i \in 0 .. k |-> Step(f, i)]
    BY <1>2
  <2> DEFINE t == [i \in 0 .. k + 1 |-> IF i \in 0 .. k THEN f[i] ELSE Step(f, k + 1)]
  <2>2. \A i \in 0 .. k : t[i] = f[i] /\ f[i] = Step(f, i)
    BY <2>1
  <2>3. t[k + 1] = Step(f, k + 1)
    OBVIOUS
  <2>4. DOMAIN t = 0 .. k + 1 /\ t = [i \in 0 .. k + 1 |-> t[i]]
    OBVIOUS
  <2> HIDE DEF t
  <2>5. \A i \in 0 .. k + 1 : Step(t, i) = Step(f, i)
    <3> SUFFICES ASSUME NEW i \in 0 .. k + 1, i # 0
                 PROVE  Step(t, i) = Step(f, i)
      BY DEF ParseStep
    <3>1. i - 1 \in 0 .. k
      OBVIOUS
    <3>2. t[i - 1] = f[i - 1]
      BY <2>2, <3>1
    <3> QED
      BY <3>2 DEF ParseStep
  <2>6. \A i \in 0 .. k + 1 : i \in 0 .. k \/ i = k + 1
    OBVIOUS
  <2>7. \A i \in 0 .. k + 1 : t[i] = Step(t, i)
    BY <2>2, <2>3, <2>5, <2>6
  <2>8. t = [i \in 0 .. k + 1 |-> Step(t, i)]
    BY <2>4, <2>7
  <2>9. k + 1 \in Nat
    OBVIOUS
  <2> QED
    BY <2>8, <2>9
<1>3. Len(members) \in T
  <2> HIDE DEF T
  <2> QED
    BY <1>1, <1>2, SetInduction
<1> QED
  BY <1>3 DEF IsParse

(* Members that there is a place for. *)
Ready(d, a, p, members, n) ==
    /\ Len(members) \in Nat
    /\ \A k \in 1 .. Len(members) :
          /\ Valued(d, members[k], n) /\ CountOf(d, members[k]) \in Nat
          /\ HasPlace(d, a, p, members[k])

(* The message once the first i members have been parsed. *)
AllDone(name, a, p, t, g, h, n, members, i) ==
    /\ ParseInv(name, a, t, g, h, n) /\ t.ufields = p.ufields
    /\ t.ok => p.ok /\ \A k \in 1 .. i : Done(Schema[name], t.msg, members[k])

(* What a member has left stays. *)
LEMMA DoneStays ==
    ASSUME NEW name \in DOMAIN Schema, NEW p, NEW t, HoldsMore(name, p, t), t.ok,
           NEW mem, NEW n, Valued(Schema[name], mem, n), Done(Schema[name], p.msg, mem)
    PROVE  Done(Schema[name], t.msg, mem)
<1>1. mem.field # 0 => mem.field \in 1 .. Len(Schema[name].fields)
  <2>1. Len(Schema[name].fields) \in Nat /\ mem.field \in 0 .. Len(Schema[name].fields)
    BY FieldsKnown DEF Valued
  <2> QED
    BY <2>1
<1>2. /\ p.msg.unknown # <<>> => t.msg.unknown # <<>>
      /\ \A i \in 1 .. Len(Schema[name].fields) :
            p.msg.val[Schema[name].fields[i].name] # <<>> => t.msg.val[Schema[name].fields[i].name] # <<>>
  BY DEF HoldsMore
<1> QED
  BY <1>1, <1>2 DEF Done

(* All members are parsed: everything is accounted for, and two functions
   that agree on shorter messages give the same. *)
LEMMA MembersKeep ==
    ASSUME NEW name \in DOMAIN Schema, NEW n \in Nat, NEW u1, InsideOK(u1, n), NEW u2, Agree(u1, u2, n),
           NEW h, NEW a, ArraysOK(Schema[name], a),
           NEW g \in Int, NEW p, ParseInv(name, a, p, g, h, n),
           NEW members, Ready(Schema[name], a, p, members, n)
    PROVE  /\ AllDone(name, a, p, ParseMembers(u1, Schema[name], p, members), g, h, n, members, Len(members))
           /\ ParseMembers(u1, Schema[name], p, members) = ParseMembers(u2, Schema[name], p, members)
<1> DEFINE d == Schema[name]
           f == CHOOSE w : IsParse(u1, d, p, members, w)
           e == CHOOSE w : IsParse(u2, d, p, members, w)
           N == Len(members)
           Good(i) == AllDone(name, a, p, f[i], g, h, n, members, i) /\ f[i] = e[i]
           T == {i \in Nat : i <= N => Good(i)}
<1>1. /\ N \in Nat
      /\ \A k \in 1 .. N : Valued(d, members[k], n) /\ CountOf(d, members[k]) \in Nat /\ HasPlace(d, a, p, members[k])
  BY DEF Ready
<1>2. /\ IsParse(u1, d, p, members, f) /\ ParseMembers(u1, d, p, members) = f[N]
      /\ IsParse(u2, d, p, members, e) /\ ParseMembers(u2, d, p, members) = e[N]
  BY <1>1, ParseExists, ParseIs
<1> HIDE DEF f, e, N, d
<1>3. \A i \in 0 .. N : f[i] = ParseStep(u1, d, p, members, f, i) /\ e[i] = ParseStep(u2, d, p, members, e, i)
  BY <1>2 DEF IsParse, N
<1>4. 0 \in T
  <2>1. 0 \in 0 .. N
    BY <1>1
  <2>2. f[0] = p /\ e[0] = p
    BY <1>3, <2>1 DEF ParseStep
  <2>3. AllDone(name, a, p, p, g, h, n, members, 0)
    BY DEF AllDone
  <2> QED
    BY <2>2, <2>3
<1>5. ASSUME NEW i \in Nat, i \in T PROVE i + 1 \in T
  <2> SUFFICES ASSUME i + 1 <= N PROVE Good(i + 1)
    OBVIOUS
  <2>1. i <= N /\ i + 1 \in 1 .. N /\ i + 1 \in 0 .. N /\ (i + 1) - 1 = i /\ i + 1 # 0
    BY <1>1
  <2>2. Good(i)
    BY <1>5, <2>1
  <2> HIDE DEF T
  <2> DEFINE r == f[i]
             mem == members[i + 1]
             t == parse_member(u1, d, r, mem)
  <2>3. f[i + 1] = t /\ e[i + 1] = parse_member(u2, d, e[i], mem)
    BY <1>3, <2>1 DEF ParseStep
  <2>4. /\ ParseInv(name, a, r, g, h, n) /\ r.ufields = p.ufields
        /\ r.ok => p.ok /\ \A k \in 1 .. i : Done(d, r.msg, members[k])
    BY <2>2 DEF AllDone, d
  <2>5. e[i] = r
    BY <2>2
  <2>6. /\ Valued(d, mem, n) /\ CountOf(d, mem) \in Nat
        /\ HasPlace(d, a, r, mem)
    BY <1>1, <2>1, <2>4 DEF HasPlace
  <2> HIDE DEF r, mem
  <2>7. MemberKept(name, a, r, t, g, h, n, mem)
    BY <2>4, <2>6, MemberKeeps DEF d
  <2>8. parse_member(u1, d, r, mem) = parse_member(u2, d, r, mem)
    BY <2>4, <2>6, SameMember DEF d, ParseInv
  <2> HIDE DEF t
  <2>9. /\ ParseInv(name, a, t, g, h, n) /\ HoldsMore(name, r, t) /\ t.ufields = r.ufields
        /\ t.ok => r.ok /\ Done(d, t.msg, mem)
    BY <2>7 DEF MemberKept, d
  <2>10. ASSUME t.ok, NEW k \in 1 .. i + 1 PROVE Done(d, t.msg, members[k])
    <3>1. CASE k = i + 1
      BY <2>9, <2>10, <3>1 DEF mem
    <3>2. CASE k # i + 1
      <4>1. k \in 1 .. i /\ k \in 1 .. N
        BY <1>1, <2>1, <2>10, <3>2
      <4> DEFINE o == members[k]
      <4>2. Done(d, r.msg, o) /\ Valued(d, o, n)
        BY <1>1, <2>4, <2>9, <2>10, <4>1
      <4> HIDE DEF o
      <4>3. Done(d, t.msg, o)
        BY <2>9, <2>10, <4>2, DoneStays DEF d
      <4> QED
        BY <4>3 DEF o
    <3> QED
      BY <3>1, <3>2
  <2>11. AllDone(name, a, p, t, g, h, n, members, i + 1)
    BY <2>4, <2>9, <2>10 DEF AllDone, d
  <2> QED
    BY <2>3, <2>5, <2>8, <2>11 DEF t
<1>6. Nat \subseteq T
  <2> HIDE DEF T
  <2> QED
    BY <1>4, <1>5, SetInduction
<1>7. Good(N)
  <2>1. N \in T /\ N <= N
    BY <1>1, <1>6
  <2> QED
    BY <2>1
<1> QED
  BY <1>2, <1>7 DEF d, N

(* A sum of zeros. *)
LEMMA ZeroSum ==
    ASSUME NEW f, Numbers(f), \A x \in DOMAIN f : f[x] = 0
    PROVE  SumFunction(f) = 0
<1> DEFINE D == DOMAIN f
           T == {n \in Nat : \A s \in Small(D, n) : PartSum(f, s) = 0}
<1>0. IsFiniteSet(D) /\ D \in SUBSET D
  BY DEF Numbers
<1>1. 0 \in T
  <2>1. {} \in SUBSET D
    OBVIOUS
  <2>2. PartSum(f, {}) = 0
    BY <1>0, <2>1, PartSumIs
  <2>3. Small(D, 0) = {{}}
    BY <1>0, SmallSets
  <2> QED
    BY <2>2, <2>3
<1>2. ASSUME NEW n \in Nat, n \in T PROVE n + 1 \in T
  <2> SUFFICES ASSUME NEW s \in Small(D, n + 1) PROVE PartSum(f, s) = 0
    <3>1. n + 1 \in Nat
      OBVIOUS
    <3> HIDE DEF D
    <3> QED
      BY <3>1
  <2>1. s \in SUBSET D
    BY DEF Small
  <2>2. CASE s = {}
    BY <1>0, <2>1, <2>2, PartSumIs
  <2>3. CASE s # {}
    <3>1. s \ {Chosen(s)} \in Small(D, n) /\ Chosen(s) \in s
      BY <1>0, <2>1, <2>3, SmallSets, Smaller
    <3>2. PartSum(f, s \ {Chosen(s)}) = 0
      BY <1>2, <3>1
    <3>3. f[Chosen(s)] = 0
      BY <2>1, <3>1
    <3> QED
      BY <1>0, <2>1, <2>3, <3>2, <3>3, PartSumIs
  <2> QED
    BY <2>2, <2>3
<1>3. Cardinality(D) \in T
  <2>1. Cardinality(D) \in Nat
    BY <1>0, FS_CardinalityType
  <2> HIDE DEF T
  <2> QED
    BY <1>1, <1>2, <2>1, SetInduction
<1>4. PartSum(f, D) = 0
  BY <1>0, <1>3, SmallSets
<1> QED
  BY <1>4, SumIs

(* The message before any member of it has been parsed. *)
LEMMA InitOK ==
    ASSUME NEW name \in DOMAIN Schema, NEW n \in Nat
    PROVE  LET m == protobuf_c_message_init(name)
           IN  /\ MsgOK(name, m, n) /\ Blocks(m) = 1 /\ m.unknown = <<>>
               /\ \A i \in 1 .. Len(Schema[name].fields) : m.val[Schema[name].fields[i].name] = <<>>
<1> DEFINE m == protobuf_c_message_init(name)
           N == NamesOf(name)
           F == Range(Schema[name].fields)
           v == [x \in N |-> <<>>]
           k == n + 1
<1>1. m = [desc |-> name, unknown |-> <<>>, val |-> v]
  BY DEF protobuf_c_message_init, NamesOf
<1>2. \A f \in F : f.name \in N
  BY FieldsKnown
<1>3. v = [x \in N |-> v[x]] /\ \A f \in F : v[f.name] = <<>>
  BY <1>2
<1> HIDE DEF m, v, N
<1>4. m.desc = name /\ m.unknown = <<>> /\ m.val = v
  BY ONLY <1>1
<1>5. m = [desc |-> m.desc, unknown |-> m.unknown, val |-> m.val]
  BY ONLY <1>1, <1>4
<1>6. IsList(<<>>) /\ Len(<<>>) <= 1
  BY DEF IsList
<1>7. \A f \in F : Holds(f, <<>>, FALSE)
  <2>1. 1 .. Len(<<>>) = {}
    OBVIOUS
  <2> QED
    BY <1>6, <2>1 DEF Holds
<1>8. Built(m, FALSE)
  BY <1>3, <1>4, <1>5, <1>6, <1>7 DEF Built, N
<1>9. Children(m) = {}
  <2>1. 1 .. Len(<<>>) = {}
    OBVIOUS
  <2>2. \A c \in Children(m) : \E f \in F : \E i \in 1 .. Len(m.val[f.name]) : TRUE
    BY <1>4, <1>8, ChildrenAre
  <2>3. \A f \in F : m.val[f.name] = <<>>
    BY <1>3, <1>4
  <2> QED
    BY <2>1, <2>2, <2>3
<1>10. MsgOK(name, m, n)
  BY <1>4, <1>8, <1>9 DEF MsgOK
<1>11. Well(m, k, FALSE) /\ k \in Nat
  BY <1>10, MsgWell
<1> HIDE DEF k
<1>12. /\ Blocks(m) = 1 + SumFunction(FieldsOwn(m)) + UnknownOwn(<<>>) /\ Numbers(FieldsOwn(m))
  BY <1>4, <1>11, BlocksAre
<1>13. SumFunction(FieldsOwn(m)) = 0
  <2>1. \A f \in F : Own(f, m.val[f.name]) = 0
    BY <1>3, <1>4, OwnNone
  <2>2. DOMAIN FieldsOwn(m) = F /\ \A f \in F : FieldsOwn(m)[f] = Own(f, m.val[f.name])
    BY <1>4 DEF FieldsOwn
  <2>3. \A f \in DOMAIN FieldsOwn(m) : FieldsOwn(m)[f] = 0
    BY <2>1, <2>2
  <2> QED
    BY <1>12, <2>3, ZeroSum
<1>14. UnknownOwn(<<>>) = 0
  BY DEF UnknownOwn
<1>15. Blocks(m) = 1
  BY <1>12, <1>13, <1>14
<1>16. \A i \in 1 .. Len(Schema[name].fields) : m.val[Schema[name].fields[i].name] = <<>>
  <2>1. \A i \in 1 .. Len(Schema[name].fields) : Schema[name].fields[i] \in F
    BY FieldsKnown
  <2> QED
    BY <1>3, <1>4, <2>1
<1> QED
  BY <1>4, <1>10, <1>15, <1>16 DEF m

(* The message before the third pass, with or without an array for the
   unknown fields. *)
LEMMA EmptyKeeps ==
    ASSUME NEW name \in DOMAIN Schema, NEW n \in Nat, NEW h, NEW a, ArraysOK(Schema[name], a),
           NEW g \in Int, NEW k \in Heaps, k.crashed = h.crashed, NEW o \in BOOLEAN, NEW w \in {0, 1},
           k.live = g + 1 + Cardinality(a.arrays) + w
    PROVE  LET p == [msg |-> protobuf_c_message_init(name), h |-> k, ok |-> o, ufields |-> w]
           IN  ParseInv(name, a, p, g, h, n) /\ p.ok = o /\ p.ufields = w
<1> DEFINE d == Schema[name]
           m == protobuf_c_message_init(name)
           p == [msg |-> m, h |-> k, ok |-> o, ufields |-> w]
<1>1. /\ MsgOK(name, m, n) /\ Blocks(m) = 1 /\ m.unknown = <<>>
      /\ \A i \in 1 .. Len(d.fields) : m.val[d.fields[i].name] = <<>>
  BY InitOK
<1> HIDE DEF m
<1>2. p.msg = m /\ p.h = k /\ p.ok = o /\ p.ufields = w /\ p = [msg |-> p.msg, h |-> p.h, ok |-> p.ok, ufields |-> p.ufields]
  OBVIOUS
<1> HIDE DEF p
<1>3. ParseState(p)
  BY <1>2 DEF ParseState
<1>4. EmptyArrays(d, a, m) = a.arrays
  BY <1>1 DEF EmptyArrays, ArraysOK
<1>5. Unused(p) = w
  BY <1>1, <1>2 DEF Unused
<1>6. Accounted(d, a, p, g)
  BY <1>1, <1>2, <1>4, <1>5 DEF Accounted
<1>7. InArrays(d, a, m)
  BY <1>1 DEF InArrays
<1>8. ParseInv(name, a, p, g, h, n)
  BY <1>1, <1>2, <1>3, <1>6, <1>7 DEF ParseInv
<1> QED
  BY <1>2, <1>8 DEF p, m

(* The arrays are those of repeated fields. *)
LEMMA ArraysAre ==
    ASSUME NEW d, NEW s, NEW a, AllocInv(d, s, a, Len(d.fields))
    PROVE  ArraysOK(d, a)
BY DEF AllocInv, ArraysOK

(* The places of the members that were scanned. *)
LEMMA PlacesAre ==
    ASSUME NEW name \in DOMAIN Schema, NEW n \in Nat, NEW s, Reached(Schema[name], s, n),
           NEW a, AllocInv(Schema[name], s, a, Len(Schema[name].fields)),
           NEW p, p.ok => a.ok /\ (s.unknown # 0 => p.ufields = 1)
    PROVE  ArraysOK(Schema[name], a) /\ Ready(Schema[name], a, p, s.members, n)
<1> DEFINE d == Schema[name]
           F == 1 .. Len(d.fields)
           ms == s.members
<1>1. /\ IsList(ms)
      /\ \A i \in 1 .. Len(ms) : Valued(d, ms[i], n) /\ CountOf(d, ms[i]) \in Nat
      /\ s.unknown # 0 <=> \E i \in 1 .. Len(ms) : ms[i].field = 0
      /\ \A j \in F : s.n[j] # 0 <=> \E i \in 1 .. Len(ms) : ms[i].field = j /\ CountOf(d, ms[i]) # 0
  BY DEF Reached
<1>2. Len(ms) \in Nat /\ Len(d.fields) \in Nat
  BY <1>1, FieldsKnown DEF IsList
<1>4. a.ok => \A j \in F : d.fields[j].label = "repeated" /\ s.n[j] # 0 => j \in a.arrays
  BY DEF AllocInv
<1>5. ArraysOK(d, a)
  BY ArraysAre
<1> HIDE DEF ms
<1>6. ASSUME NEW k \in 1 .. Len(ms) PROVE HasPlace(d, a, p, ms[k])
  <2> DEFINE mem == ms[k]
  <2> SUFFICES ASSUME p.ok
               PROVE  /\ mem.field = 0 => p.ufields = 1
                      /\ mem.field # 0 /\ d.fields[mem.field].label = "repeated" /\ CountOf(d, mem) # 0 =>
                            mem.field \in a.arrays
    BY DEF HasPlace
  <2>1. mem.field = 0 => s.unknown # 0
    BY <1>1, <1>6
  <2>2. mem.field # 0 => mem.field \in F
    <3>1. mem.field \in 0 .. Len(d.fields)
      BY <1>1, <1>6 DEF Valued
    <3> QED
      BY <1>2, <3>1
  <2>3. mem.field # 0 /\ CountOf(d, mem) # 0 => s.n[mem.field] # 0
    BY <1>1, <1>6, <2>2
  <2> QED
    BY <1>4, <2>1, <2>2, <2>3
<1>7. Ready(d, a, p, ms, n)
  BY <1>1, <1>2, <1>6 DEF Ready
<1> QED
  BY <1>5, <1>7 DEF ms

(* The third pass starts with everything accounted for. *)
LEMMA StartOK ==
    ASSUME NEW name \in DOMAIN Schema, NEW n \in Nat, NEW h \in Heaps,
           NEW s, ScanInv(Schema[name], s, h, n), s.ok,
           NEW a, AllocInv(Schema[name], s, a, Len(Schema[name].fields))
    PROVE  LET p == StartMessage(name, s, a)
           IN  /\ ArraysOK(Schema[name], a) /\ h.live + s.slabs \in Int
               /\ ParseInv(name, a, p, h.live + s.slabs, h, n)
               /\ Ready(Schema[name], a, p, s.members, n)
               /\ p.ok => a.ok
               /\ p.ufields # 0 => s.unknown # 0
<1> DEFINE p == StartMessage(name, s, a)
           m == protobuf_c_message_init(name)
           g == h.live + s.slabs
           k == do_alloc(a.h)
           o == a.ok
           b == a.h
           c == Cardinality(a.arrays)
           empty == [msg |-> m, h |-> b, ok |-> o, ufields |-> 0]
           full == [empty EXCEPT !.ok = FALSE]
           grown == [empty EXCEPT !.h = do_alloc(@), !.ufields = 1]
<1>1. /\ s.slabs \in Nat /\ s.h.crashed = h.crashed /\ s.h.live = h.live + 1 + s.slabs
      /\ Reached(Schema[name], s, n)
  BY DEF ScanInv
<1>2. /\ b \in Heaps /\ b.crashed = h.crashed /\ o \in BOOLEAN
      /\ b.live = s.h.live + c
  BY <1>1 DEF AllocInv, AllocState
<1>3. h.live \in Int /\ g \in Int /\ c \in Nat
  <2>1. IsFiniteSet(a.arrays) /\ h.live \in Int
    BY AllocatedHeap DEF AllocInv
  <2>2. c \in Nat
    BY <2>1, FS_CardinalityType
  <2>3. g \in Int
    BY <1>1, <2>1
  <2> HIDE DEF c, g
  <2> QED
    BY <2>1, <2>2, <2>3
<1>4. b.live = g + 1 + c + 0
  <2> DEFINE l == b.live
             e == h.live
             w == s.slabs
             y == s.h.live
  <2>1. l = y + c /\ y = e + 1 + w /\ e \in Int /\ w \in Nat /\ c \in Nat /\ g = e + w
    BY <1>1, <1>2, <1>3
  <2> HIDE DEF l, e, w, y, c, g
  <2>2. l = g + 1 + c + 0
    BY ONLY <2>1
  <2> QED
    BY <2>2 DEF l
<1>5. CanAlloc(b) => k \in Heaps /\ k.crashed = h.crashed /\ k.live = g + 1 + c + 1
  <2> SUFFICES ASSUME CanAlloc(b) PROVE k \in Heaps /\ k.crashed = h.crashed /\ k.live = g + 1 + c + 1
    OBVIOUS
  <2>1. k \in Heaps /\ k.crashed = b.crashed /\ k.live = b.live + 1
    BY <1>2, AllocatedHeap
  <2> HIDE DEF k, b, g, c
  <2> QED
    BY <1>2, <1>3, <1>4, <2>1
<1>6. p = IF ~o \/ s.unknown = 0 THEN empty ELSE IF ~CanAlloc(b) THEN full ELSE grown
  BY DEF StartMessage
<1>7. ASSUME ArraysOK(Schema[name], a), ParseInv(name, a, p, g, h, n),
             p.ok => a.ok /\ (s.unknown # 0 => p.ufields = 1), p.ufields # 0 => s.unknown # 0
      PROVE  ArraysOK(Schema[name], a) /\ g \in Int /\ ParseInv(name, a, p, g, h, n)
             /\ Ready(Schema[name], a, p, s.members, n) /\ (p.ok => a.ok)
             /\ (p.ufields # 0 => s.unknown # 0)
  <2> HIDE DEF p, g
  <2> QED
    BY <1>1, <1>3, <1>7, PlacesAre
<1>8. ArraysOK(Schema[name], a)
  BY ArraysAre
<1>9. ParseInv(name, a, empty, g, h, n) /\ empty.ok = o /\ empty.ufields = 0
  <2> HIDE DEF b, g, o, c
  <2>1. b.live = g + 1 + Cardinality(a.arrays) + 0
    BY <1>4 DEF c
  <2> QED
    BY <1>2, <1>3, <1>8, <2>1, EmptyKeeps
<1>10. CASE ~o \/ s.unknown = 0
  <2>1. p = empty
    BY <1>6, <1>10
  <2> HIDE DEF p, empty
  <2>2. (p.ok => a.ok /\ (s.unknown # 0 => p.ufields = 1)) /\ p.ufields = 0
    BY <1>9, <1>10, <2>1
  <2> QED
    BY <1>7, <1>8, <1>9, <2>1, <2>2 DEF p
<1>11. CASE o /\ s.unknown # 0 /\ ~CanAlloc(b)
  <2>1. p = full
    BY <1>6, <1>11
  <2> HIDE DEF p, empty, g
  <2>2. ParseInv(name, a, full, g, h, n) /\ ~full.ok /\ full.ufields = 0
    BY <1>9, EndsKeeps
  <2> HIDE DEF full
  <2> QED
    BY <1>7, <1>8, <1>11, <2>1, <2>2 DEF p, g
<1>12. CASE o /\ s.unknown # 0 /\ CanAlloc(b)
  <2> DEFINE q == [msg |-> m, h |-> k, ok |-> o, ufields |-> 1]
  <2>1. p = grown
    BY <1>6, <1>12
  <2>2. grown = q
    <3>1. grown = [empty EXCEPT !.h = k, !.ufields = 1]
      OBVIOUS
    <3> DEFINE e1 == [empty EXCEPT !.h = k]
    <3>2. grown = [e1 EXCEPT !.ufields = 1]
      BY <3>1
    <3> HIDE DEF grown, k, b, o, m
    <3>3. e1 = [msg |-> m, h |-> k, ok |-> o, ufields |-> 0]
      OBVIOUS
    <3> HIDE DEF e1
    <3>4. [[msg |-> m, h |-> k, ok |-> o, ufields |-> 0] EXCEPT !.ufields = 1] = q
      OBVIOUS
    <3> QED
      BY ONLY <3>2, <3>3, <3>4
  <2>3. ParseInv(name, a, q, g, h, n) /\ q.ok = o /\ q.ufields = 1
    <3>1. k.live = g + 1 + Cardinality(a.arrays) + 1 /\ k \in Heaps /\ k.crashed = h.crashed
      BY <1>5, <1>12 DEF c
    <3> HIDE DEF k, g, o
    <3> QED
      BY <1>2, <1>3, <1>8, <3>1, EmptyKeeps
  <2> HIDE DEF p, q, grown, g
  <2>4. p.ok => a.ok /\ (s.unknown # 0 => p.ufields = 1)
    BY <2>1, <2>2, <2>3
  <2> QED
    BY <1>7, <1>8, <1>12, <2>1, <2>2, <2>3, <2>4 DEF p, g
<1> QED
  BY <1>10, <1>11, <1>12

--------------------------------
(* The ends of unpacking *)

(* The heap after error_cleanup. *)
Released(k, b, c, wild) == [do_free(k, b) EXCEPT !.live = @ - c, !.crashed = @ \/ wild]

ReleasedOK(q, k, l) == q \in Heaps /\ q.crashed = k.crashed /\ q.live = l

(* It has the blocks that were released less. *)
LEMMA FreedHeap ==
    ASSUME NEW k \in Heaps, NEW b \in Int, NEW c \in Int, NEW wild, wild = FALSE
    PROVE  ReleasedOK(Released(k, b, c, wild), k, (k.live - b) - c)
<1> DEFINE x == do_free(k, b)
           l == x.live - c
           o == x.crashed \/ wild
           y == [x EXCEPT !.live = l]
           q == [y EXCEPT !.crashed = o]
<1>1. x \in Heaps /\ x.crashed = k.crashed /\ x.live = k.live - b
  BY AllocatedHeap
<1> HIDE DEF x
<1>2. PICK i \in Int, e \in Nat, w \in BOOLEAN, r \in BOOLEAN :
          x = [live |-> i, left |-> e, crashed |-> w, beyond |-> r]
  BY <1>1 DEF Heaps
<1>3. x.live = i /\ x.crashed = w
  BY ONLY <1>2
<1>4. l \in Int /\ l = (k.live - b) - c
  <2>1. x.live \in Int
    BY ONLY <1>2, <1>3
  <2> QED
    BY <1>1, <2>1
<1>5. o = w
  <2>1. w = TRUE \/ w = FALSE
    OBVIOUS
  <2> QED
    BY <1>3, <2>1, Zenon
<1>6. q = Released(k, b, c, wild)
  <2>1. y.crashed = x.crashed
    <3> HIDE DEF l
    <3> QED
      BY <1>2, <1>3
  <2>2. y = [x EXCEPT !.live = @ - c]
    OBVIOUS
  <2> HIDE DEF y
  <2>3. q = [y EXCEPT !.crashed = @ \/ wild]
    BY <2>1, Zenon
  <2> HIDE DEF q
  <2> QED
    BY <2>2, <2>3, Zenon DEF x, Released
<1> HIDE DEF l, o
<1>7. y = [live |-> l, left |-> e, crashed |-> w, beyond |-> r]
  BY ONLY <1>2
<1> HIDE DEF y
<1>8. q = [live |-> l, left |-> e, crashed |-> o, beyond |-> r]
  BY ONLY <1>7
<1> HIDE DEF q
<1>9. q = [live |-> l, left |-> e, crashed |-> w, beyond |-> r]
  BY ONLY <1>5, <1>8
<1>10. q.live = l /\ q.crashed = w
  BY ONLY <1>9
<1>11. q \in Heaps
  BY <1>4, <1>9 DEF Heaps
<1> QED
  BY ONLY <1>1, <1>3, <1>4, <1>6, <1>10, <1>11, Zenon DEF ReleasedOK

(* When unpacking fails, all it has allocated is released and nothing is
   freed through an unset pointer (error_cleanup). *)
LEMMA CleanedUp ==
    ASSUME NEW name \in DOMAIN Schema, NEW n \in Nat, NEW h \in Heaps, NEW slabs \in Nat,
           NEW a, ArraysOK(Schema[name], a),
           \A j \in 1 .. Len(Schema[name].fields) : Schema[name].fields[j].label = "repeated" => a.n[j] = 0,
           NEW p, ParseInv(name, a, p, h.live + slabs, h, n)
    PROVE  UnpackOK(ErrorCleanup(Schema[name], a, p, slabs), name, h, n + 1)
<1> DEFINE d == Schema[name]
           empty == EmptyArrays(d, a, p.msg)
           wild == \E i \in 1 .. Len(d.fields) :
                      /\ d.fields[i].label = "repeated"
                      /\ d.fields[i].type \in LengthPrefixed
                      /\ a.n[i] # 0
           unused == Unused(p)
           b == Blocks(p.msg)
           k == p.h
           c == slabs + Cardinality(empty) + unused
           q == [do_free(k, b) EXCEPT !.live = @ - c, !.crashed = @ \/ wild]
<1>1. ErrorCleanup(d, a, p, slabs) = [msg |-> <<>>, h |-> q]
  BY DEF ErrorCleanup, Failed, protobuf_c_message_free_unpacked, EmptyArrays, Unused
<1>2. wild = FALSE
  OBVIOUS
<1>3. /\ k \in Heaps /\ k.crashed = h.crashed /\ p.ufields \in {0, 1} /\ MsgOK(name, p.msg, n)
      /\ k.live = (h.live + slabs) + b + Cardinality(empty) + unused
  BY DEF ParseInv, Accounted
<1>4. b \in Nat /\ unused \in Nat /\ h.live \in Int
  <2> DEFINE m == p.msg
  <2>1. MsgOK(name, m, n) /\ h.live \in Int
    BY <1>3, AllocatedHeap
  <2>2. unused \in Nat
    BY <1>3 DEF Unused
  <2> HIDE DEF m
  <2>3. Blocks(m) \in Nat
    BY <2>1, MsgWell
  <2> QED
    BY <2>1, <2>2, <2>3 DEF m
<1>5. Cardinality(empty) \in Nat
  <2>1. IsFiniteSet(empty)
    BY FS_Subset DEF EmptyArrays, ArraysOK
  <2> QED
    BY <2>1, FS_CardinalityType
<1>6. c \in Int /\ b \in Int
  <2> HIDE DEF empty, unused, b
  <2> QED
    BY <1>4, <1>5
<1>7. q \in Heaps /\ q.crashed = k.crashed /\ q.live = (k.live - b) - c
  <2>1. k \in Heaps
    BY <1>3
  <2>2. PICK z : z = FALSE
    OBVIOUS
  <2> DEFINE y == Released(k, b, c, z)
  <2> HIDE DEF c, b, k, wild
  <2>3. y = q
    <3>1. z = wild
      BY ONLY <1>2, <2>2, Zenon
    <3> QED
      BY ONLY <3>1, Zenon DEF Released
  <2>4. y \in Heaps /\ y.crashed = k.crashed /\ y.live = (k.live - b) - c
    <3>1. ReleasedOK(y, k, (k.live - b) - c)
      BY ONLY <1>6, <2>1, <2>2, FreedHeap
    <3> HIDE DEF y
    <3> QED
      BY ONLY <3>1 DEF ReleasedOK
  <2> HIDE DEF y, q
  <2> QED
    BY ONLY <2>3, <2>4
<1>8. q.live = h.live
  <2> DEFINE e == Cardinality(empty)
             l == k.live
             g == h.live
             z == q.live
  <2>1. l = (g + slabs) + b + e + unused /\ c = slabs + e + unused /\ z = (l - b) - c
        /\ b \in Nat /\ unused \in Nat /\ e \in Nat /\ g \in Int /\ slabs \in Nat
    BY <1>3, <1>4, <1>5, <1>7
  <2> HIDE DEF e, l, g, z, b, unused, c
  <2>2. z = g
    BY ONLY <2>1
  <2> QED
    BY <2>2 DEF z, g
<1> HIDE DEF q
<1> DEFINE u == [msg |-> <<>>, h |-> q]
<1>9. u.msg = <<>> /\ u.h = q
  OBVIOUS
<1> HIDE DEF u
<1>10. UnpackOK(u, name, h, n + 1)
  BY <1>3, <1>7, <1>8, <1>9 DEF UnpackOK
<1> QED
  BY <1>1, <1>10 DEF u

(* What the passes have found of a message that is accepted: every array has
   a value, every required field was there. *)
LEMMA AllFound ==
    ASSUME NEW name \in DOMAIN Schema, NEW n \in Nat, NEW s, Reached(Schema[name], s, n),
           NEW a, AllocInv(Schema[name], s, a, Len(Schema[name].fields)), a.ok,
           NEW p, NEW g, NEW h, ParseInv(name, a, p, g, h, n), p.ufields # 0 => s.unknown # 0,
           \A k \in 1 .. Len(s.members) : Done(Schema[name], p.msg, s.members[k])
    PROVE  /\ EmptyArrays(Schema[name], a, p.msg) = {} /\ Unused(p) = 0
           /\ Well(p.msg, n + 1, TRUE) /\ Blocks(p.msg) \in Nat
<1> DEFINE d == Schema[name]
           F == 1 .. Len(d.fields)
           ms == s.members
           m == p.msg
<1>1. /\ \A i \in 1 .. Len(ms) : Valued(d, ms[i], n)
      /\ s.unknown # 0 <=> \E i \in 1 .. Len(ms) : ms[i].field = 0
      /\ \A j \in F : /\ j \in s.seen => \E i \in 1 .. Len(ms) : ms[i].field = j
                      /\ s.n[j] # 0 <=> \E i \in 1 .. Len(ms) : ms[i].field = j /\ CountOf(d, ms[i]) # 0
  BY DEF Reached
<1>2. /\ a.arrays \subseteq F
      /\ \A j \in F : /\ j \in a.arrays => d.fields[j].label = "repeated" /\ s.n[j] # 0
                      /\ Wanted(d.fields[j]) => j \in s.seen
  BY DEF AllocInv
<1>3. MsgOK(name, m, n)
  BY DEF ParseInv
<1> HIDE DEF ms, m
<1>4. \A k \in 1 .. Len(ms) : Done(d, m, ms[k])
  BY DEF ms, m
<1>5. EmptyArrays(d, a, m) = {}
  <2> SUFFICES ASSUME NEW j \in a.arrays, m.val[d.fields[j].name] = <<>> PROVE FALSE
    BY DEF EmptyArrays
  <2>1. j \in F /\ j # 0 /\ s.n[j] # 0
    BY <1>2
  <2>2. PICK i \in 1 .. Len(ms) : ms[i].field = j /\ CountOf(d, ms[i]) # 0
    BY <1>1, <2>1
  <2>3. m.val[d.fields[j].name] # <<>>
    BY <1>4, <2>1, <2>2, SMTT(60) DEF Done
  <2> QED
    BY <2>3
<1>6. Unused(p) = 0
  <2>1. s.unknown # 0 => m.unknown # <<>>
    BY <1>1, <1>4, SMTT(60) DEF Done
  <2> QED
    BY <2>1 DEF Unused, m
<1>7. ASSUME NEW f \in Range(d.fields), Wanted(f) PROVE m.val[f.name] # <<>>
  <2>1. PICK j \in F : f = d.fields[j]
    BY <1>7, FieldsKnown
  <2>2. PICK i \in 1 .. Len(ms) : ms[i].field = j
    BY <1>1, <1>2, <1>7, <2>1
  <2>3. j # 0 /\ f.label # "repeated"
    BY <1>7, <2>1 DEF Wanted
  <2> QED
    BY <1>4, <2>1, <2>2, <2>3 DEF Done
<1>8. Built(m, TRUE)
  <2>1. m.desc = name /\ Built(m, FALSE)
    BY <1>3 DEF MsgOK
  <2>2. \A f \in Range(d.fields) : Holds(f, m.val[f.name], TRUE)
    BY <1>7, <2>1 DEF Built, Holds
  <2> QED
    BY <2>1, <2>2 DEF Built
<1>9. Well(m, n + 1, TRUE)
  BY <1>3, <1>8, WellStep DEF MsgOK
<1>10. Blocks(m) \in Nat
  BY <1>3, MsgWell
<1> QED
  BY <1>5, <1>6, <1>9, <1>10 DEF m

(* When it does not, the message holds all that is left. *)
LEMMA Accepted ==
    ASSUME NEW name \in DOMAIN Schema, NEW n \in Nat, NEW h \in Heaps,
           NEW s, Reached(Schema[name], s, n), s.slabs \in Nat,
           NEW a, AllocInv(Schema[name], s, a, Len(Schema[name].fields)), a.ok,
           NEW p, ParseInv(name, a, p, h.live + s.slabs, h, n), p.ufields # 0 => s.unknown # 0,
           \A k \in 1 .. Len(s.members) : Done(Schema[name], p.msg, s.members[k])
    PROVE  UnpackOK([msg |-> <<p.msg>>, h |-> do_free(p.h, s.slabs)], name, h, n + 1)
<1> DEFINE d == Schema[name]
           m == p.msg
           k == p.h
           q == do_free(k, s.slabs)
           g == h.live + s.slabs
           one == <<m>>
           u == [msg |-> one, h |-> q]
<1>1. /\ k \in Heaps /\ k.crashed = h.crashed /\ m.desc = name
      /\ k.live = g + Blocks(m) + Cardinality(EmptyArrays(d, a, m)) + Unused(p)
  BY DEF ParseInv, Accounted, MsgOK
<1>2. EmptyArrays(d, a, m) = {} /\ Unused(p) = 0 /\ Well(m, n + 1, TRUE) /\ Blocks(m) \in Nat
  <2> HIDE DEF g
  <2>1. ParseInv(name, a, p, g, h, n)
    BY DEF g
  <2> QED
    BY <2>1, AllFound
<1>3. Cardinality(EmptyArrays(d, a, m)) = 0
  BY <1>2, FS_EmptySet
<1>4. h.live \in Int /\ k.live \in Int /\ s.slabs \in Int
  <2>1. k \in Heaps /\ s.slabs \in Int
    BY <1>1
  <2> HIDE DEF k
  <2> QED
    BY <2>1, AllocatedHeap
<1>5. q \in Heaps /\ q.crashed = k.crashed /\ q.live = k.live - s.slabs
  <2> HIDE DEF k
  <2> QED
    BY <1>1, <1>4, AllocatedHeap
<1> HIDE DEF q
<1>6. q.live = h.live + Blocks(m)
  <2> DEFINE l == k.live
             e == h.live
             w == s.slabs
             b == Blocks(m)
             z == q.live
  <2>1. l = (e + w) + b + 0 + 0 /\ z = l - w /\ e \in Int /\ w \in Int /\ b \in Nat
    BY <1>1, <1>2, <1>3, <1>4, <1>5
  <2> HIDE DEF l, e, w, b, z
  <2>2. z = e + b
    BY ONLY <2>1
  <2> QED
    BY <2>2 DEF z, e, b
<1>7. u.msg = one /\ u.h = q
  OBVIOUS
<1> HIDE DEF u
<1>8. UnpackOK(u, name, h, n + 1)
  <2>1. u.msg = <<m>> /\ m.desc = name /\ Well(m, n + 1, TRUE) /\ u.h.live = h.live + Blocks(m)
    BY <1>1, <1>2, <1>6, <1>7
  <2>2. u.h \in Heaps /\ u.h.crashed = h.crashed
    BY <1>1, <1>5, <1>7
  <2> HIDE DEF m
  <2> QED
    BY <2>1, <2>2 DEF UnpackOK
<1> QED
  BY <1>8 DEF u, q

(* Unpacking a message, when it is as it should be for the messages that are
   shorter; it does nothing else with the function it is given. *)
LEMMA MessageOK ==
    ASSUME NEW name \in DOMAIN Schema, NEW data \in Seq(Byte), NEW h \in Heaps,
           NEW u1, InsideOK(u1, Len(data)), NEW u2, Agree(u1, u2, Len(data))
    PROVE  /\ UnpackOK(UnpackMessage(u1, name, data, h), name, h, Len(data) + 1)
           /\ UnpackMessage(u1, name, data, h) = UnpackMessage(u2, name, data, h)
<1> DEFINE d == Schema[name]
           n == Len(data)
           s == Scan(d, StartScan(d, h), Members(data))
           a == AllocArrays(d, s)
           p == StartMessage(name, s, a)
           t == ParseMembers(u1, d, p, s.members)
           r == UnpackMessage(u1, name, data, h)
           v == UnpackMessage(u2, name, data, h)
<1>0. n \in Nat
  OBVIOUS
<1>1. CASE ~CanAlloc(h)
  <2> DEFINE u == [msg |-> <<>>, h |-> h]
  <2>1. r = u /\ v = u
    BY <1>1 DEF UnpackMessage, Failed
  <2>2. u.msg = <<>> /\ u.h = h
    OBVIOUS
  <2> HIDE DEF u, r, v
  <2>3. UnpackOK(u, name, h, n + 1)
    BY <2>2 DEF UnpackOK
  <2> QED
    BY <2>1, <2>3 DEF r, v
<1>2. CASE CanAlloc(h) /\ ~s.ok
  <2> DEFINE b == 1 + s.slabs
             k == do_free(s.h, b)
             u == [msg |-> <<>>, h |-> k]
  <2>1. r = u /\ v = u
    BY <1>2 DEF UnpackMessage, Scanned, Failed
  <2>2. ScanInv(d, s, h, n)
    BY <1>2, FirstPass
  <2> HIDE DEF s, d, r, v
  <2>3. s.slabs \in Nat /\ s.h \in Heaps /\ s.h.crashed = h.crashed /\ s.h.live = h.live + 1 + s.slabs
        /\ h.live \in Int
    BY <2>2, AllocatedHeap DEF ScanInv
  <2>4. k \in Heaps /\ k.crashed = h.crashed /\ k.live = h.live
    <3> DEFINE x == s.h
    <3>1. x \in Heaps /\ b \in Int /\ x.live = h.live + b /\ x.crashed = h.crashed
      BY <2>3, SMTT(60)
    <3> HIDE DEF x, b
    <3>2. do_free(x, b) \in Heaps /\ do_free(x, b).crashed = x.crashed /\ do_free(x, b).live = x.live - b
      BY <3>1, AllocatedHeap
    <3> QED
      BY <2>3, <3>1, <3>2 DEF x
  <2> HIDE DEF k
  <2>5. u.msg = <<>> /\ u.h = k
    OBVIOUS
  <2> HIDE DEF u
  <2>6. UnpackOK(u, name, h, n + 1)
    BY <2>4, <2>5 DEF UnpackOK
  <2> QED
    BY <2>1, <2>6 DEF r, v
<1>3. CASE CanAlloc(h) /\ s.ok
  <2>1. ScanInv(d, s, h, n)
    BY <1>3, FirstPass
  <2>2. r = Allocated(u1, name, s, a) /\ v = Allocated(u2, name, s, a)
    BY <1>3 DEF UnpackMessage, Scanned
  <2> HIDE DEF s, r, v
  <2>3. /\ Reached(d, s, n) /\ s.slabs \in Nat /\ s.h \in Heaps
        /\ s.n \in [1 .. Len(d.fields) -> Nat] /\ Len(d.fields) \in Nat
    BY <1>3, <2>1, FieldsKnown DEF ScanInv, Reached
  <2>4. AllocInv(d, s, a, Len(d.fields))
    <3> HIDE DEF d
    <3> QED
      BY <2>3, AllocKeeps
  <2> HIDE DEF a
  <2> DEFINE g == h.live + s.slabs
  <2>5. /\ ArraysOK(d, a) /\ g \in Int /\ ParseInv(name, a, p, g, h, n)
        /\ Ready(d, a, p, s.members, n) /\ (p.ok => a.ok) /\ (p.ufields # 0 => s.unknown # 0)
    <3>1. s.ok
      BY <1>3
    <3> HIDE DEF n
    <3> QED
      BY <1>0, <2>1, <2>4, <3>1, StartOK
  <2> HIDE DEF p, g
  <2>6. InsideOK(u1, n) /\ Agree(u1, u2, n)
    OBVIOUS
  <2>7. /\ AllDone(name, a, p, t, g, h, n, s.members, Len(s.members))
        /\ t = ParseMembers(u2, d, p, s.members)
    <3> DEFINE ms == s.members
    <3>1. Ready(d, a, p, ms, n)
      BY <2>5
    <3> HIDE DEF ms, n
    <3>2. /\ AllDone(name, a, p, ParseMembers(u1, d, p, ms), g, h, n, ms, Len(ms))
          /\ ParseMembers(u1, d, p, ms) = ParseMembers(u2, d, p, ms)
      BY <1>0, <2>5, <2>6, <3>1, MembersKeep
    <3> QED
      BY <3>2 DEF ms
  <2>8. r = Parsed(name, s, a, t) /\ v = Parsed(name, s, a, t)
    BY <2>2, <2>7 DEF Allocated, p
  <2> HIDE DEF t
  <2>9. /\ ParseInv(name, a, t, g, h, n) /\ t.ufields = p.ufields
        /\ t.ok => p.ok /\ \A k \in 1 .. Len(s.members) : Done(d, t.msg, s.members[k])
    BY <2>7 DEF AllDone
  <2>10. CASE ~t.ok
    <3>1. r = ErrorCleanup(d, a, t, s.slabs)
      BY <2>8, <2>10 DEF Parsed
    <3>2. \A j \in 1 .. Len(d.fields) : d.fields[j].label = "repeated" => a.n[j] = 0
      <4>1. \A j \in 1 .. Len(d.fields) : j <= Len(d.fields)
        BY <2>3
      <4> QED
        BY <2>4, <4>1 DEF AllocInv
    <3> DEFINE w == s.slabs
    <3>3. w \in Nat /\ ParseInv(name, a, t, h.live + w, h, n)
      BY <2>3, <2>9 DEF g
    <3> HIDE DEF w, n
    <3>4. UnpackOK(ErrorCleanup(d, a, t, w), name, h, n + 1)
      BY <1>0, <2>5, <3>2, <3>3, CleanedUp
    <3> QED
      BY <2>8, <3>1, <3>4 DEF w, n, r, v
  <2>11. CASE t.ok
    <3>1. r = [msg |-> <<t.msg>>, h |-> do_free(t.h, s.slabs)]
      BY <2>8, <2>11 DEF Parsed
    <3>2. ParseInv(name, a, t, h.live + s.slabs, h, n) /\ (t.ufields # 0 => s.unknown # 0) /\ a.ok
      BY <2>5, <2>9, <2>11 DEF g
    <3> HIDE DEF n
    <3>3. UnpackOK([msg |-> <<t.msg>>, h |-> do_free(t.h, s.slabs)], name, h, n + 1)
      BY <1>0, <2>3, <2>4, <2>9, <2>11, <3>2, Accepted
    <3> QED
      BY <2>8, <3>1, <3>3 DEF n, r, v
  <2> QED
    BY <2>10, <2>11
<1> QED
  BY <1>1, <1>2, <1>3

--------------------------------
(* Unpacking, by the number of bytes of the message *)

Short(n) == {c \in Calls : Len(c[2]) < n}
IsUnpack(u, n) == u = [c \in Short(n) |-> UnpackMessage(u, c[1], c[2], c[3])]

(* A call has the name of a descriptor, bytes and a heap. *)
LEMMA CallIs ==
    /\ \A c \in Calls : /\ c = <<c[1], c[2], c[3]>>
                        /\ c[1] \in DOMAIN Schema /\ c[2] \in Seq(Byte) /\ c[3] \in Heaps
                        /\ Len(c[2]) \in Nat
    /\ \A name \in DOMAIN Schema, body \in Seq(Byte), h \in Heaps :
          LET c == <<name, body, h>>
          IN  c \in Calls /\ c[1] = name /\ c[2] = body /\ c[3] = h
<1>1. ASSUME NEW c \in Calls
      PROVE  /\ c = <<c[1], c[2], c[3]>>
             /\ c[1] \in DOMAIN Schema /\ c[2] \in Seq(Byte) /\ c[3] \in Heaps /\ Len(c[2]) \in Nat
  BY DEF Calls
<1>2. ASSUME NEW name \in DOMAIN Schema, NEW body \in Seq(Byte), NEW h \in Heaps
      PROVE  LET c == <<name, body, h>>
             IN  c \in Calls /\ c[1] = name /\ c[2] = body /\ c[3] = h
  BY DEF Calls
<1> QED
  BY <1>1, <1>2

(* A message of less than n levels has less than n + 1. *)
LEMMA UnpackMore ==
    ASSUME NEW u, NEW name, NEW h, NEW n \in Nat, UnpackOK(u, name, h, n)
    PROVE  UnpackOK(u, name, h, n + 1)
<1>1. n + 1 \in Nat /\ n <= n + 1
  OBVIOUS
<1>2. \A m : Well(m, n, TRUE) => Well(m, n + 1, TRUE)
  BY <1>1, WellFinite
<1> QED
  BY <1>2 DEF UnpackOK

(* Equal results for the messages with fewer than n bytes, and for those with
   n, are equal results for those with fewer than n + 1. *)
LEMMA OneLonger ==
    ASSUME NEW n \in Nat, NEW body \in Seq(Byte), Len(body) < n + 1
    PROVE  Len(body) \in Nat /\ (Len(body) < n \/ Len(body) = n)
OBVIOUS

(* A function that unpacks the messages with fewer than n bytes does as it
   should, *)
LEMMA ShortOK ==
    ASSUME NEW n \in Nat, NEW u, IsUnpack(u, n)
    PROVE  \A k \in Nat : k <= n => InsideOK(u, k)
<1> DEFINE T == {k \in Nat : k <= n => InsideOK(u, k)}
<1>1. 0 \in T
  <2>1. \A body \in Seq(Byte) : ~(Len(body) < 0)
    OBVIOUS
  <2> QED
    BY <2>1 DEF InsideOK
<1>2. ASSUME NEW k \in Nat, k \in T PROVE k + 1 \in T
  <2>1. k + 1 \in Nat
    OBVIOUS
  <2> SUFFICES ASSUME k + 1 <= n, NEW name \in DOMAIN Schema, NEW body \in Seq(Byte), NEW h \in Heaps,
                      Len(body) < k + 1
               PROVE  UnpackOK(u[<<name, body, h>>], name, h, k + 1)
    BY <2>1 DEF InsideOK
  <2>2. InsideOK(u, k) /\ k <= n
    BY <1>2
  <2>3. CASE Len(body) < k
    <3> DEFINE x == u[<<name, body, h>>]
    <3>1. UnpackOK(x, name, h, k)
      BY <2>2, <2>3 DEF InsideOK
    <3> HIDE DEF x
    <3>2. UnpackOK(x, name, h, k + 1)
      BY <3>1, UnpackMore
    <3> QED
      BY <3>2 DEF x
  <2>4. CASE Len(body) = k
    <3> DEFINE c == <<name, body, h>>
    <3>1. c \in Calls /\ c[1] = name /\ c[2] = body /\ c[3] = h
      BY CallIs
    <3> HIDE DEF c
    <3>2. c \in Short(n)
      BY <2>4, <3>1 DEF Short
    <3>3. u[c] = UnpackMessage(u, name, body, h)
      BY <3>1, <3>2 DEF IsUnpack
    <3>4. InsideOK(u, Len(body)) /\ Agree(u, u, Len(body))
      BY <2>2, <2>4 DEF Agree
    <3>5. UnpackOK(UnpackMessage(u, name, body, h), name, h, Len(body) + 1)
      BY <3>4, MessageOK
    <3> QED
      BY <2>4, <3>3, <3>5 DEF c
  <2> QED
    BY <2>3, <2>4, OneLonger
<1>3. Nat \subseteq T
  <2> HIDE DEF T
  <2> QED
    BY <1>1, <1>2, SetInduction
<1> QED
  BY <1>3

(* and there is only one. *)
LEMMA ShortAgree ==
    ASSUME NEW n \in Nat, NEW m \in Nat, NEW u, IsUnpack(u, n), NEW v, IsUnpack(v, m)
    PROVE  \A k \in Nat : k <= n /\ k <= m => Agree(u, v, k)
<1> DEFINE T == {k \in Nat : k <= n /\ k <= m => Agree(u, v, k)}
<1>1. 0 \in T
  <2>1. \A body \in Seq(Byte) : ~(Len(body) < 0)
    OBVIOUS
  <2> QED
    BY <2>1 DEF Agree
<1>2. ASSUME NEW k \in Nat, k \in T PROVE k + 1 \in T
  <2>1. k + 1 \in Nat
    OBVIOUS
  <2> SUFFICES ASSUME k + 1 <= n, k + 1 <= m,
                      NEW name \in DOMAIN Schema, NEW body \in Seq(Byte), NEW h \in Heaps, Len(body) < k + 1
               PROVE  u[<<name, body, h>>] = v[<<name, body, h>>]
    BY <2>1 DEF Agree
  <2>2. Agree(u, v, k) /\ k <= n
    BY <1>2
  <2>3. CASE Len(body) < k
    BY <2>2, <2>3 DEF Agree
  <2>4. CASE Len(body) = k
    <3> DEFINE c == <<name, body, h>>
    <3>1. c \in Calls /\ c[1] = name /\ c[2] = body /\ c[3] = h
      BY CallIs
    <3> HIDE DEF c
    <3>2. c \in Short(n) /\ c \in Short(m)
      BY <2>4, <3>1 DEF Short
    <3>3. u[c] = UnpackMessage(u, name, body, h)
      BY <3>1, <3>2 DEF IsUnpack
    <3>4. v[c] = UnpackMessage(v, name, body, h)
      BY <3>1, <3>2 DEF IsUnpack
    <3>5. InsideOK(u, Len(body)) /\ Agree(u, v, Len(body))
      BY <2>2, <2>4, ShortOK
    <3>6. UnpackMessage(u, name, body, h) = UnpackMessage(v, name, body, h)
      BY <3>5, MessageOK
    <3> QED
      BY <3>3, <3>4, <3>6 DEF c
  <2> QED
    BY <2>3, <2>4, OneLonger
<1>3. Nat \subseteq T
  <2> HIDE DEF T
  <2> QED
    BY <1>1, <1>2, SetInduction
<1> QED
  BY <1>3

(* Unpacking a message only asks for what the messages shorter than it give. *)
LEMMA SameResult ==
    ASSUME NEW u1, NEW u2, NEW c \in Calls, InsideOK(u1, Len(c[2])), Agree(u1, u2, Len(c[2]))
    PROVE  UnpackMessage(u1, c[1], c[2], c[3]) = UnpackMessage(u2, c[1], c[2], c[3])
<1> DEFINE name == c[1]
           data == c[2]
           h == c[3]
<1>1. name \in DOMAIN Schema /\ data \in Seq(Byte) /\ h \in Heaps /\ InsideOK(u1, Len(data)) /\ Agree(u1, u2, Len(data))
  BY CallIs
<1> HIDE DEF name, data, h
<1>2. UnpackMessage(u1, name, data, h) = UnpackMessage(u2, name, data, h)
  BY <1>1, MessageOK
<1> QED
  BY <1>2 DEF name, data, h

(* Those that agree on longer messages agree on shorter ones. *)
LEMMA AgreeLess ==
    ASSUME NEW u, NEW v, NEW n \in Nat, Agree(u, v, n), NEW k \in Nat, k <= n
    PROVE  Agree(u, v, k)
<1>1. \A body \in Seq(Byte) : Len(body) < k => Len(body) < n
  OBVIOUS
<1> QED
  BY <1>1 DEF Agree

(* There is one for each n. *)
LEMMA ShortExists ==
    \A n \in Nat : \E u : IsUnpack(u, n)
<1> DEFINE T == {n \in Nat : \E u : IsUnpack(u, n)}
<1>1. 0 \in T
  <2> DEFINE u == [c \in Short(0) |-> 0]
  <2>1. Short(0) = {}
    <3>1. \A c \in Calls : ~(Len(c[2]) < 0)
      BY CallIs
    <3> QED
      BY <3>1 DEF Short
  <2>2. \A c \in Short(0) : u[c] = UnpackMessage(u, c[1], c[2], c[3])
    BY <2>1
  <2>3. u = [c \in Short(0) |-> u[c]]
    OBVIOUS
  <2> HIDE DEF u
  <2>4. IsUnpack(u, 0)
    BY <2>2, <2>3 DEF IsUnpack
  <2> QED
    BY <2>4
<1>2. ASSUME NEW n \in Nat, n \in T PROVE n + 1 \in T
  <2>0. n + 1 \in Nat
    OBVIOUS
  <2>1. PICK u : IsUnpack(u, n)
    BY <1>2
  <2> DEFINE v == [c \in Short(n + 1) |-> UnpackMessage(u, c[1], c[2], c[3])]
  <2>2. v = [c \in Short(n + 1) |-> v[c]] /\ \A c \in Short(n + 1) : v[c] = UnpackMessage(u, c[1], c[2], c[3])
    OBVIOUS
  <2> HIDE DEF v
  <2>3. \A c \in Short(n) : c \in Short(n + 1)
    <3>1. \A c \in Calls : Len(c[2]) < n => Len(c[2]) < n + 1
      BY CallIs
    <3> QED
      BY <3>1 DEF Short
  <2>4. \A c \in Short(n) : v[c] = u[c]
    BY <2>1, <2>2, <2>3 DEF IsUnpack
  <2>5. Agree(u, v, n)
    <3> SUFFICES ASSUME NEW name \in DOMAIN Schema, NEW body \in Seq(Byte), NEW h \in Heaps, Len(body) < n
                 PROVE  u[<<name, body, h>>] = v[<<name, body, h>>]
      BY DEF Agree
    <3> DEFINE c == <<name, body, h>>
    <3>1. c \in Calls /\ c[2] = body
      BY CallIs
    <3> HIDE DEF c
    <3>2. c \in Short(n)
      BY <3>1 DEF Short
    <3> QED
      BY <2>4, <3>2 DEF c
  <2>6. ASSUME NEW c \in Short(n + 1)
        PROVE  v[c] = UnpackMessage(v, c[1], c[2], c[3])
    <3>1. c \in Calls /\ Len(c[2]) < n + 1 /\ Len(c[2]) \in Nat
      BY CallIs DEF Short
    <3> DEFINE k == Len(c[2])
    <3>2. k \in Nat /\ k <= n
      BY <3>1
    <3> HIDE DEF k
    <3>3. InsideOK(u, k) /\ Agree(u, v, k)
      BY <2>1, <2>5, <3>2, ShortOK, AgreeLess
    <3>4. UnpackMessage(u, c[1], c[2], c[3]) = UnpackMessage(v, c[1], c[2], c[3])
      BY <3>1, <3>3, SameResult DEF k
    <3> QED
      BY <2>2, <3>4
  <2>7. IsUnpack(v, n + 1)
    BY <2>2, <2>6 DEF IsUnpack
  <2> QED
    BY <2>0, <2>7
<1>3. Nat \subseteq T
  <2> HIDE DEF T
  <2> QED
    BY <1>1, <1>2, SetInduction
<1> QED
  BY <1>3

IsUnpacking(u) == u = [c \in Calls |-> UnpackMessage(u, c[1], c[2], c[3])]

(* Unpacking is a function of all calls, when there is one. *)
LEMMA UnpackingIs == protobuf_c_message_unpack = CHOOSE u : IsUnpacking(u)
BY DEF protobuf_c_message_unpack, IsUnpacking

(* There is one. *)
LEMMA UnpackingExists == \E u : IsUnpacking(u)
<1> DEFINE short(n) == CHOOSE u : IsUnpack(u, n)
           v == [c \in Calls |-> short(Len(c[2]) + 1)[c]]
<1>1. \A n \in Nat : IsUnpack(short(n), n)
  BY ShortExists
<1>2. v = [c \in Calls |-> v[c]] /\ \A c \in Calls : v[c] = short(Len(c[2]) + 1)[c]
  OBVIOUS
<1> HIDE DEF v, short
<1>3. ASSUME NEW n \in Nat PROVE Agree(short(n), v, n)
  <2> SUFFICES ASSUME NEW name \in DOMAIN Schema, NEW body \in Seq(Byte), NEW h \in Heaps, Len(body) < n
               PROVE  short(n)[<<name, body, h>>] = v[<<name, body, h>>]
    BY DEF Agree
  <2> DEFINE m == Len(body) + 1
             x == short(n)
             y == short(m)
             c == <<name, body, h>>
  <2>1. m \in Nat /\ m <= n /\ m <= m /\ Len(body) < m
    OBVIOUS
  <2>2. IsUnpack(x, n) /\ IsUnpack(y, m)
    BY <1>1, <2>1
  <2>3. c \in Calls /\ c[2] = body
    BY CallIs
  <2> HIDE DEF x, y, m, c
  <2>4. Agree(x, y, m)
    BY <2>1, <2>2, ShortAgree
  <2>5. x[c] = y[c]
    BY <2>1, <2>4 DEF Agree, c
  <2>6. v[c] = y[c]
    BY <1>2, <2>3 DEF y, m
  <2> QED
    BY <2>5, <2>6 DEF x, c
<1>4. ASSUME NEW c \in Calls PROVE v[c] = UnpackMessage(v, c[1], c[2], c[3])
  <2> DEFINE k == Len(c[2])
             n == k + 1
             x == short(n)
  <2>1. k \in Nat /\ n \in Nat /\ k < n /\ k <= n
    BY CallIs
  <2>2. IsUnpack(x, n) /\ Agree(x, v, n) /\ v[c] = x[c]
    BY <1>1, <1>2, <1>3, <2>1
  <2>3. c \in Short(n)
    BY <2>1 DEF Short
  <2> HIDE DEF x, n
  <2>4. x[c] = UnpackMessage(x, c[1], c[2], c[3])
    BY <2>2, <2>3 DEF IsUnpack
  <2> HIDE DEF k
  <2>5. InsideOK(x, k) /\ Agree(x, v, k)
    BY <2>1, <2>2, ShortOK, AgreeLess
  <2>6. UnpackMessage(x, c[1], c[2], c[3]) = UnpackMessage(v, c[1], c[2], c[3])
    BY <2>5, SameResult DEF k
  <2> QED
    BY <2>2, <2>4, <2>6
<1>5. IsUnpacking(v)
  BY <1>2, <1>4 DEF IsUnpacking
<1> QED
  BY <1>5

(* So unpacking does what its body says. *)
LEMMA UnpackIs ==
    \A c \in Calls :
        protobuf_c_message_unpack[c] = UnpackMessage(protobuf_c_message_unpack, c[1], c[2], c[3])
<1> DEFINE u == CHOOSE w : IsUnpacking(w)
<1>1. IsUnpacking(u)
  BY UnpackingExists
<1> HIDE DEF u
<1>2. \A c \in Calls : u[c] = UnpackMessage(u, c[1], c[2], c[3])
  <2>1. u = [c \in Calls |-> UnpackMessage(u, c[1], c[2], c[3])]
    BY <1>1 DEF IsUnpacking
  <2> DEFINE v == [c \in Calls |-> UnpackMessage(u, c[1], c[2], c[3])]
  <2>2. \A c \in Calls : v[c] = UnpackMessage(u, c[1], c[2], c[3])
    OBVIOUS
  <2>3. u = v
    BY <2>1
  <2> HIDE DEF v
  <2> QED
    BY <2>2, <2>3
<1>3. protobuf_c_message_unpack = u
  BY UnpackingIs DEF u
<1> QED
  BY <1>2, <1>3

(* A call does as it should when those on shorter messages do. *)
LEMMA CallOK ==
    ASSUME NEW name \in DOMAIN Schema, NEW data \in Seq(Byte), NEW h \in Heaps,
           InsideOK(protobuf_c_message_unpack, Len(data))
    PROVE  UnpackOK(protobuf_c_message_unpack[<<name, data, h>>], name, h, Len(data) + 1)
<1> DEFINE c == <<name, data, h>>
           u == protobuf_c_message_unpack
<1>1. c \in Calls /\ c[1] = name /\ c[2] = data /\ c[3] = h
  BY CallIs
<1>2. u[c] = UnpackMessage(u, c[1], c[2], c[3])
  BY <1>1, UnpackIs
<1>3. InsideOK(u, Len(data)) /\ Agree(u, u, Len(data))
  BY DEF Agree
<1> HIDE DEF c, u
<1>4. UnpackOK(UnpackMessage(u, name, data, h), name, h, Len(data) + 1)
  BY <1>3, MessageOK
<1>5. UnpackOK(u[c], name, h, Len(data) + 1)
  BY <1>1, <1>2, <1>4
<1> QED
  BY <1>5 DEF u, c

(* All calls do. *)
LEMMA InsideIsOK ==
    \A n \in Nat : InsideOK(protobuf_c_message_unpack, n)
<1> DEFINE u == protobuf_c_message_unpack
           T == {n \in Nat : InsideOK(u, n)}
<1>1. 0 \in T
  <2>1. \A body \in Seq(Byte) : ~(Len(body) < 0)
    OBVIOUS
  <2> QED
    BY <2>1 DEF InsideOK
<1>2. ASSUME NEW n \in Nat, n \in T PROVE n + 1 \in T
  <2>1. n + 1 \in Nat
    OBVIOUS
  <2> SUFFICES ASSUME NEW name \in DOMAIN Schema, NEW body \in Seq(Byte), NEW h \in Heaps,
                      Len(body) < n + 1
               PROVE  UnpackOK(u[<<name, body, h>>], name, h, n + 1)
    BY <2>1 DEF InsideOK
  <2> DEFINE x == u[<<name, body, h>>]
  <2>2. InsideOK(u, n)
    BY <1>2
  <2>3. CASE Len(body) < n
    <3>1. UnpackOK(x, name, h, n)
      BY <2>2, <2>3 DEF InsideOK
    <3> HIDE DEF x
    <3>2. UnpackOK(x, name, h, n + 1)
      BY <3>1, UnpackMore
    <3> QED
      BY <3>2 DEF x
  <2>4. CASE Len(body) = n
    BY <2>2, <2>4, CallOK
  <2> QED
    BY <2>3, <2>4, OneLonger
<1>3. Nat \subseteq T
  <2> HIDE DEF T
  <2> QED
    BY <1>1, <1>2, SetInduction
<1> QED
  BY <1>3

(* What unpacking to u accounts for, on a heap h: either there is no message
   and the heap is as it was, or a message with every required field in it
   and in the messages within it, and what was allocated is exactly what
   freeing the message releases; nothing is freed through an unset pointer. *)
Settles(u, name, h) ==
    /\ u.h \in Heaps /\ u.h.crashed = h.crashed
    /\ \/ u.msg = <<>> /\ u.h.live = h.live
       \/ \E m : /\ u.msg = <<m>> /\ m.desc = name
                 /\ IsComplete(m) /\ \E n \in Nat : Well(m, n, TRUE)
                 /\ u.h.live = h.live + Blocks(m)

(* The model's heap accounts for all of it, also where the code reads on. *)
LEMMA UnpackLeaves ==
    ASSUME NEW name \in DOMAIN Schema, NEW data \in Seq(Byte), NEW h \in Heaps
    PROVE  Settles(protobuf_c_message_unpack[<<name, data, h>>], name, h)
<1> DEFINE u == protobuf_c_message_unpack[<<name, data, h>>]
           n == Len(data) + 1
<1>1. Len(data) \in Nat /\ n \in Nat
  OBVIOUS
<1>2. UnpackOK(u, name, h, n)
  BY <1>1, InsideIsOK, CallOK
<1> HIDE DEF u, n
<1>3. \A m : Well(m, n, TRUE) => IsComplete(m)
  BY <1>1, WellIsComplete
<1>4. Settles(u, name, h)
  BY <1>1, <1>2, <1>3 DEF UnpackOK, Settles
<1> QED
  BY <1>4 DEF u

(* For any bytes, any descriptors and any number of allocations before one
   fails, unpacking accounts for what it allocates
   (protobuf_c_message_unpack, protobuf_c_message_free_unpacked), unless the
   sum of a length prefix and its length wraps at 2^32
   (scan_length_prefixed_data) where the bytes are read on after their end. *)
THEOREM UnpackAccounts ==
    ASSUME NEW name \in DOMAIN Schema, NEW data \in Seq(Byte), NEW h \in Heaps
    PROVE  LET u == protobuf_c_message_unpack[<<name, data, h>>]
           IN  ~u.h.beyond => Settles(u, name, h)
BY UnpackLeaves

--------------------------------
(* From the sender to the receiver *)

(* What the receiver has allocated is what the message it got holds. *)
HeapInv ==
    /\ wire \in Seq(Byte) /\ heap \in Heaps /\ ~heap.crashed
    /\ ~(phase = "unpacked" /\ got # <<>>) => heap.live = 0
    /\ phase = "unpacked" /\ got # <<>> =>
          \E m : /\ got = <<m>> /\ IsComplete(m) /\ \E n \in Nat : Well(m, n, TRUE)
                 /\ heap.live = Blocks(m)

(* What is sent is a message of one of the descriptors. *)
LEMMA SentIsMessage == SentInv => IsMessage(sent[1]) /\ desc \in DOMAIN Schema
<1> SUFFICES ASSUME SentInv PROVE IsMessage(sent[1]) /\ desc \in DOMAIN Schema
  OBVIOUS
<1>1. PICK m \in Sent : sent = <<m>> \/ \E l : sent = <<m, l>>
  BY DEF SentInv
<1>2. sent[1] = m
  BY <1>1
<1>3. IsMessage(m)
  BY SentAssumption
<1>4. m \in Within(m)
  BY <1>3, MessageIsFinite, WithinIs
<1> QED
  BY <1>2, <1>3, <1>4 DEF desc, IsMessage, Fits

(* This holds at first, *)
LEMMA HeapInit == Init => HeapInv
<1> SUFFICES ASSUME Init PROVE HeapInv
  OBVIOUS
<1>1. memory \in Nat
  BY MemoryAssumption DEF Init
<1>2. PICK z \in Int, f \in BOOLEAN : z = 0 /\ f = FALSE
  <2>1. 0 \in Int /\ FALSE \in BOOLEAN
    OBVIOUS
  <2> QED
    BY <2>1
<1>3. heap = [live |-> z, left |-> memory, crashed |-> f, beyond |-> f]
  BY <1>2, Zenon DEF Init, Heap
<1>4. heap \in Heaps /\ heap.live = z /\ heap.crashed = f
  <2>1. \A l \in Nat : LET k == [live |-> z, left |-> l, crashed |-> f, beyond |-> f]
                       IN  k \in Heaps /\ k.live = z /\ k.crashed = f
    BY DEF Heaps
  <2> QED
    BY <1>1, <1>3, <2>1
<1>5. ~heap.crashed
  BY <1>2, <1>4, Zenon
<1>6. phase = "filled" /\ wire = <<>> /\ wire \in Seq(Byte)
  BY DEF Init
<1> QED
  BY <1>2, <1>4, <1>5, <1>6 DEF HeapInv

(* Bytes after bytes. *)
LEMMA BytesJoin == \A a, b \in Seq(Byte) : a \o b \in Seq(Byte)
OBVIOUS

(* The bytes of a field of a newer node. *)
LEMMA NewerBytes ==
    ASSUME NEW u \in Unknown
    PROVE  unknown_field_pack(u) \in Seq(Byte)
<1>1. u.wiretype \in Word(3) /\ u.data \in Seq(Byte)
  BY DEF Unknown
<1>2. tag_pack(Bits(u.tag), u.wiretype) \in Seq(Byte)
  BY <1>1, BitsType, TagBytes
<1> QED
  BY <1>1, <1>2, BytesJoin DEF unknown_field_pack

(* The bytes, until they are unpacked. *)
LEMMA WireStep ==
    ASSUME SentInv, wire \in Seq(Byte), [Next]_vars
    PROVE  wire' \in Seq(Byte)
<1>1. CASE Pack
  BY <1>1, SentIsMessage, PackedSizeIsExact DEF Pack
<1>2. CASE Again
  <2>1. PICK m \in Sent : sent = <<m>> \/ \E l : sent = <<m, l>>
    BY DEF SentInv
  <2>2. sent[1] = m
    BY <2>1
  <2>3. PICK l \in Later(m) : wire' = wire \o protobuf_c_message_pack(l)
    BY <1>2, <2>2 DEF Again
  <2>4. protobuf_c_message_pack(l) \in Seq(Byte)
    BY SentAssumption, PackedSizeIsExact
  <2> QED
    BY <2>3, <2>4, BytesJoin
<1>3. CASE Newer
  <2>1. PICK u \in NewFields : wire' = wire \o unknown_field_pack(u)
    BY <1>3 DEF Newer
  <2>2. unknown_field_pack(u) \in Seq(Byte)
    BY SentAssumption, NewerBytes
  <2> QED
    BY <2>1, <2>2, BytesJoin
<1>4. CASE Cut
  <2>1. PICK n \in 0 .. Len(wire) - 1 : wire' = SubSeq(wire, 1, n)
    BY <1>4 DEF Cut
  <2>2. 1 \in Nat /\ n \in Nat /\ 1 <= n + 1 /\ n <= Len(wire) /\ 1 <= 1
    OBVIOUS
  <2> QED
    BY <2>1, <2>2, SomeBytes
<1>5. CASE UNCHANGED wire
  BY <1>5
<1> QED
  BY <1>1, <1>2, <1>3, <1>4, <1>5 DEF Next, Unpack, Free, vars

(* and after every step. *)
LEMMA HeapStep == SentInv /\ HeapInv /\ [Next]_vars => HeapInv'
<1> SUFFICES ASSUME SentInv, HeapInv, [Next]_vars PROVE HeapInv'
  OBVIOUS
<1>0. /\ wire \in Seq(Byte) /\ heap \in Heaps /\ ~heap.crashed
      /\ ~(phase = "unpacked" /\ got # <<>>) => heap.live = 0
      /\ phase = "unpacked" /\ got # <<>> =>
            \E m : /\ got = <<m>> /\ IsComplete(m) /\ \E n \in Nat : Well(m, n, TRUE)
                   /\ heap.live = Blocks(m)
  BY DEF HeapInv
<1>1. wire' \in Seq(Byte)
  BY <1>0, WireStep
<1>2. CASE heap' = heap /\ phase # "unpacked" /\ phase' # "unpacked"
  BY <1>0, <1>1, <1>2 DEF HeapInv
<1>3. CASE Unpack
  <2> DEFINE r == protobuf_c_message_unpack[<<desc, wire, heap>>]
  <2>1. phase = "packed" /\ phase' = "unpacked" /\ got' = r.msg /\ heap' = r.h
    BY <1>3 DEF Unpack, Unpacked
  <2>2. desc \in DOMAIN Schema /\ heap.live = 0
    BY <1>0, <2>1, SentIsMessage
  <2>3. /\ r.h \in Heaps /\ r.h.crashed = heap.crashed
        /\ \/ r.msg = <<>> /\ r.h.live = heap.live
           \/ \E m : /\ r.msg = <<m>> /\ m.desc = desc
                     /\ IsComplete(m) /\ \E n \in Nat : Well(m, n, TRUE)
                     /\ r.h.live = heap.live + Blocks(m)
    <3> DEFINE d == desc
               w == wire
               k == heap
    <3>1. d \in DOMAIN Schema /\ w \in Seq(Byte) /\ k \in Heaps
      BY <1>0, <2>2
    <3> HIDE DEF d, w, k
    <3> DEFINE u == protobuf_c_message_unpack[<<d, w, k>>]
    <3>2. Settles(u, d, k)
      BY <3>1, UnpackLeaves
    <3>3. u = r
      BY DEF d, w, k
    <3> HIDE DEF u, r
    <3> QED
      BY <3>2, <3>3 DEF Settles, d, k
  <2> HIDE DEF r
  <2>4. heap' \in Heaps /\ ~heap'.crashed
    <3>1. r.h.crashed = heap.crashed /\ ~heap.crashed
      BY <1>0, <2>3
    <3>2. ~r.h.crashed
      BY ONLY <3>1, Zenon
    <3> QED
      BY <2>1, <2>3, <3>2
  <2>5. CASE r.msg = <<>> /\ r.h.live = heap.live
    BY <1>1, <2>1, <2>2, <2>4, <2>5 DEF HeapInv
  <2>6. CASE ~(r.msg = <<>> /\ r.h.live = heap.live)
    <3>1. PICK m : /\ r.msg = <<m>> /\ IsComplete(m) /\ \E n \in Nat : Well(m, n, TRUE)
                   /\ r.h.live = heap.live + Blocks(m)
      BY <2>3, <2>6
    <3>2. Blocks(m) \in Nat
      BY <3>1, WellLess, BlocksAre
    <3>3. r.h.live = Blocks(m)
      BY <2>2, <3>1, <3>2
    <3>4. got' = <<m>> /\ got' # <<>> /\ heap'.live = Blocks(m)
      BY <2>1, <3>1, <3>3
    <3> QED
      BY <1>1, <2>1, <2>4, <3>1, <3>4 DEF HeapInv
  <2> QED
    BY <2>5, <2>6
<1>4. CASE Free
  <2>1. phase = "unpacked" /\ got # <<>> /\ phase' = "freed"
        /\ heap' = do_free(heap, Blocks(got[1]))
    BY <1>4 DEF Free, protobuf_c_message_free_unpacked
  <2>2. PICK m : got = <<m>> /\ (\E n \in Nat : Well(m, n, TRUE)) /\ heap.live = Blocks(m)
    BY <1>0, <2>1
  <2> DEFINE b == Blocks(m)
  <2>3. b \in Int
    <3>1. PICK n \in Nat : Well(m, n, TRUE)
      BY <2>2
    <3>2. Well(m, n, FALSE)
      BY <3>1, WellLess
    <3>3. Blocks(m) \in Nat
      BY <3>1, <3>2, BlocksAre
    <3> QED
      BY <3>3
  <2>4. heap' = do_free(heap, b) /\ heap.live = b
    BY <2>1, <2>2
  <2> HIDE DEF b
  <2>5. heap' \in Heaps /\ heap'.crashed = heap.crashed /\ heap'.live = heap.live - b
    BY <1>0, <2>3, <2>4, AllocatedHeap
  <2>6. heap'.live = 0
    BY <2>3, <2>4, <2>5
  <2>7. ~heap'.crashed
    BY <1>0, <2>5, Zenon
  <2> QED
    BY <1>1, <2>1, <2>5, <2>6, <2>7 DEF HeapInv
<1>5. CASE UNCHANGED vars
  BY <1>0, <1>5 DEF HeapInv, vars
<1>6. Pack \/ Again \/ Newer \/ Cut => heap' = heap /\ phase # "unpacked" /\ phase' # "unpacked"
  BY DEF Pack, Again, Newer, Cut
<1> QED
  BY <1>2, <1>3, <1>4, <1>5, <1>6 DEF Next

(* It implies the properties. *)
LEMMA HeapIsKept == HeapInv => (~heap.beyond => NothingLost) /\ RequiredThere
<1> SUFFICES ASSUME HeapInv PROVE (~heap.beyond => NothingLost) /\ RequiredThere
  OBVIOUS
<1>1. /\ ~heap.crashed
      /\ ~(phase = "unpacked" /\ got # <<>>) => heap.live = 0
      /\ phase = "unpacked" /\ got # <<>> => \E m : got = <<m>> /\ IsComplete(m)
  BY DEF HeapInv
<1>2. ~heap.beyond => NothingLost
  BY <1>1, Zenon DEF NothingLost
<1>3. RequiredThere
  <2> SUFFICES ASSUME phase = "unpacked", got # <<>> PROVE IsComplete(got[1])
    BY DEF RequiredThere
  <2>1. PICK m : got = <<m>> /\ IsComplete(m)
    BY <1>1
  <2>2. got[1] = m
    BY <2>1
  <2> QED
    BY <2>1, <2>2
<1> QED
  BY <1>2, <1>3

(* Wherever the bytes end and whichever allocation fails, nothing is left
   behind, and nothing freed through an unset pointer (error_cleanup and
   protobuf_c_message_free_unpacked), unless a value was read from after the
   end of the bytes. *)
THEOREM NothingIsLost == Spec => [](~heap.beyond => NothingLost)
BY InitPacked, SentStep, HeapInit, HeapStep, HeapIsKept, PTL DEF Spec

(* No message without its required fields reaches a callback (the check of
   required_fields_bitmap in protobuf_c_message_unpack), with the same
   exception. *)
THEOREM RequiredIsThere == Spec => [](~heap.beyond => RequiredThere)
BY InitPacked, SentStep, HeapInit, HeapStep, HeapIsKept, PTL DEF Spec
=============================================================================
