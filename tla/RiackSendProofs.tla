---------------------------- MODULE RiackSendProofs ----------------------------
(***************************************************************************)
(* TLAPS proofs about RiackSend: where the bytes of every call stand on    *)
(* the stream, and from it what the node can read there.  The node's       *)
(* reading is a recursive function over the stream; that it is what its    *)
(* definition says, and what it reads, is by induction over the positions. *)
(***************************************************************************)
EXTENDS RiackSend, TLAPS, SequenceTheorems, WellFoundedInduction

-----------------------------------------------------------------------------
(* Numbers and parts of sequences.  Induction is stated with a set as its
   hypothesis, the library states it for an operator. *)

Less == {pair \in Nat \X Nat : pair[1] < pair[2]}

LEMMA LessIsWellFounded == IsWellFoundedOn(Less, Nat)
BY NatLessThanWellFounded DEF OpToRel, Less

(* Every nonempty set of natural numbers has a least element. *)
LEMMA LeastElement ==
    ASSUME NEW T, T \subseteq Nat, T # {}
    PROVE  \E x \in T : \A y \in T : x <= y
<1>1. \E x \in T : \A y \in T : <<y, x>> \notin Less
  <2> HIDE DEF Less
  <2> QED
    BY LessIsWellFounded, WFMin
<1>2. \A x, y \in Nat : <<y, x>> \notin Less => x <= y
  BY DEF Less
<1> QED
  BY <1>1, <1>2

(* A set that holds 0, and with every number the next, holds them all. *)
LEMMA SetInduction ==
    ASSUME NEW T, 0 \in T, \A n \in Nat : n \in T => n + 1 \in T
    PROVE  Nat \subseteq T
<1> DEFINE R == Nat \ T
<1> SUFFICES ASSUME R # {} PROVE FALSE
  OBVIOUS
<1>1. PICK x \in R : \A y \in R : x <= y
  <2> HIDE DEF R
  <2> QED
    BY LeastElement DEF R
<1>2. x \in Nat /\ x # 0
  OBVIOUS
<1>3. x - 1 \in Nat /\ x - 1 \in T
  BY <1>1, <1>2
<1> QED
  BY <1>2, <1>3

(* The bytes of s behind the first a, up to the b-th. *)
LEMMA Slice ==
    ASSUME NEW S, NEW s \in Seq(S), NEW a \in Nat, NEW b \in Nat, a <= b, b <= Len(s)
    PROVE  /\ SubSeq(s, a + 1, b) \in Seq(S)
           /\ Len(SubSeq(s, a + 1, b)) = b - a
           /\ \A j \in 1 .. b - a : SubSeq(s, a + 1, b)[j] = s[a + j]
<1>1. \A i \in a + 1 .. b : s[i] \in S
  OBVIOUS
<1>2. /\ SubSeq(s, a + 1, b) \in Seq(S)
      /\ Len(SubSeq(s, a + 1, b)) = IF a + 1 <= b THEN b - (a + 1) + 1 ELSE 0
      /\ \A i \in 1 .. b - (a + 1) + 1 : SubSeq(s, a + 1, b)[i] = s[a + 1 + i - 1]
  BY <1>1, SubSeqProperties
<1> QED
  BY <1>2

-----------------------------------------------------------------------------
(* What has been taken of each call, in order: the bytes of call i are those
   from starts[i] up to before starts[i + 1], its first ones. *)
Laid(starts) ==
    /\ starts[1] = 1
    /\ starts[Current + 1] = Len(stream) + 1
    /\ \A i \in 1 .. Current :
          /\ starts[i] <= starts[i + 1]
          /\ starts[i + 1] - starts[i] <= FrameSize(i)
          /\ i \in DOMAIN results => (results[i] <=> starts[i + 1] - starts[i] = FrameSize(i))
          /\ \A k \in 1 .. starts[i + 1] - starts[i] : stream[starts[i] + k - 1] = <<i, k>>
    /\ \A q \in 1 .. Len(stream) :
          \E i \in 1 .. Current : starts[i] <= q /\ q < starts[i + 1]

StartsOf == [1 .. Current + 1 -> 1 .. Len(stream) + 1]

LaidOut ==
  \E starts \in StartsOf :
     /\ Laid(starts)
     /\ sending => offset = starts[Current + 1] - starts[Current]

(* The inductive invariant. *)
IInv ==
    /\ TypeOK
    /\ Current \in 0 .. MaxCalls
    /\ Len(results) = (IF sending THEN Current - 1 ELSE Current)
    /\ sending => Current > 0
    /\ LaidOut

-----------------------------------------------------------------------------
LEMMA InitIInv == Init => IInv
<1> SUFFICES ASSUME Init PROVE IInv
  OBVIOUS
<1>1. Current = 0 /\ Len(stream) = 0 /\ Len(results) = 0
  BY DEF Init, Current
<1>2. TypeOK
  <2>1. sizes \in Seq(BodySizes) /\ stream \in Seq((1 .. MaxCalls) \X Nat) /\ results \in Seq(BOOLEAN)
    BY DEF Init
  <2>2. offset \in 0 .. (IF Current = 0 THEN 0 ELSE FrameSize(Current))
    BY <1>1 DEF Init
  <2> QED
    BY <2>1, <2>2 DEF Init, TypeOK
<1>3. LaidOut
  <2> DEFINE t == [i \in 1 .. 1 |-> 1]
  <2>1. t \in StartsOf
    BY <1>1 DEF StartsOf
  <2>2. t[1] = 1 /\ t[Current + 1] = Len(stream) + 1
    BY <1>1
  <2>3. Laid(t)
    BY <2>2, <1>1 DEF Laid
  <2> QED
    BY <2>1, <2>3 DEF LaidOut, Init
<1> QED
  BY <1>1, <1>2, <1>3, SendAssumption DEF IInv, Init

(* The ranges of what is counted. *)
Basics ==
    /\ Current \in Nat /\ MaxCalls \in Nat
    /\ Len(stream) \in Nat /\ Len(results) \in Nat
    /\ \A i \in 1 .. Current : sizes[i] \in Nat /\ FrameSize(i) \in Nat \ {0}
                                 /\ FrameSize(i) >= 5
    /\ offset \in Nat
    /\ DOMAIN results = 1 .. Len(results)
    /\ Len(results) <= Current

LEMMA Facts == IInv => Basics
<1> SUFFICES ASSUME IInv PROVE Basics
  OBVIOUS
<1>1. Current \in Nat /\ MaxCalls \in Nat
  BY SendAssumption DEF IInv, TypeOK, Current
<1>2. \A i \in 1 .. Current : sizes[i] \in Nat
  <2> SUFFICES ASSUME NEW i \in 1 .. Current PROVE sizes[i] \in Nat
    OBVIOUS
  <2>1. sizes \in Seq(BodySizes) /\ i \in 1 .. Len(sizes)
    BY DEF IInv, TypeOK, Current
  <2>2. sizes[i] \in BodySizes
    BY <2>1
  <2> QED
    BY <2>2, SendAssumption
<1>3. \A i \in 1 .. Current : FrameSize(i) \in Nat \ {0} /\ FrameSize(i) >= 5
  BY <1>2 DEF FrameSize
<1>4. offset \in Nat
  <2>1. CASE Current = 0
    BY <2>1 DEF IInv, TypeOK
  <2>2. CASE Current # 0
    <3>1. FrameSize(Current) \in Nat
      BY <1>1, <1>3, <2>2
    <3> QED
      BY <2>2, <3>1 DEF IInv, TypeOK
  <2> QED
    BY <2>1, <2>2
<1>5. /\ Len(stream) \in Nat /\ Len(results) \in Nat /\ DOMAIN results = 1 .. Len(results)
  BY DEF IInv, TypeOK
<1>6. Len(results) <= Current
  BY <1>1, <1>5 DEF IInv
<1> QED
  BY <1>1, <1>2, <1>3, <1>4, <1>5, <1>6 DEF Basics

(* A new call: nothing has been taken of it yet. *)
LEMMA BeginIInv == IInv /\ Begin => IInv'
<1> SUFFICES ASSUME IInv, Begin PROVE IInv'
  OBVIOUS
<1>f. Basics
  BY Facts
<1> USE <1>f DEF Basics
<1>1. PICK size \in BodySizes : sizes' = Append(sizes, size)
  BY DEF Begin
<1>2. /\ sizes' \in Seq(BodySizes) /\ Current' = Current + 1
      /\ sizes'[Current + 1] \in BodySizes
      /\ \A i \in 1 .. Current : sizes'[i] = sizes[i]
  BY <1>1 DEF IInv, TypeOK, Current
<1>3. /\ sending' = TRUE /\ offset' = 0 /\ stream' = stream /\ results' = results
      /\ Len(results) = Current /\ Current + 1 <= MaxCalls
  BY DEF Begin, IInv
<1>n. PICK n : n = Current + 1
  OBVIOUS
<1>4. FrameSize(n)' \in Nat /\ \A i \in 1 .. Current : FrameSize(i)' = FrameSize(i)
  <2>1. sizes'[n] \in Nat
    BY <1>2, <1>n, SendAssumption
  <2> QED
    BY <1>2, <1>n, <2>1 DEF FrameSize
<1>5. TypeOK'
  <2>1. offset' \in 0 .. (IF Current' = 0 THEN 0 ELSE FrameSize(Current)')
    <3>1. FrameSize(Current)' \in Nat
      <4>1. Current' = n
        BY <1>2, <1>n
      <4> QED
        BY <1>4, <4>1 DEF FrameSize
    <3> QED
      BY <1>3, <3>1
  <2> QED
    BY <1>2, <1>3, <2>1 DEF IInv, TypeOK
<1>6. PICK starts \in StartsOf : Laid(starts)
  BY DEF IInv, LaidOut
<1>7. LaidOut'
  <2>1. PICK t : t = [i \in 1 .. Current + 2 |-> IF i <= Current + 1 THEN starts[i]
                                                 ELSE Len(stream) + 1]
    OBVIOUS
  <2>2. /\ \A i \in 1 .. Current + 1 : starts[i] \in 1 .. Len(stream) + 1 /\ t[i] = starts[i]
        /\ t[Current + 2] = Len(stream) + 1 /\ t[Current + 1] = Len(stream) + 1
    <3>1. starts \in [1 .. Current + 1 -> 1 .. Len(stream) + 1] /\ starts[Current + 1] = Len(stream) + 1
      BY <1>6 DEF StartsOf, Laid
    <3> QED
      BY <2>1, <3>1
  <2>3. t \in StartsOf'
    BY <1>2, <1>3, <2>1, <2>2 DEF StartsOf
  <2>4. t[1] = 1 /\ t[Current' + 1] = Len(stream') + 1
    BY <1>2, <1>3, <1>6, <2>2 DEF Laid
  <2>5. ASSUME NEW i \in 1 .. Current'
        PROVE  /\ t[i] <= t[i + 1]
               /\ t[i + 1] - t[i] <= FrameSize(i)'
               /\ i \in DOMAIN results' => (results'[i] <=> t[i + 1] - t[i] = FrameSize(i)')
               /\ \A k \in 1 .. t[i + 1] - t[i] : stream'[t[i] + k - 1] = <<i, k>>
    <3>1. CASE i \in 1 .. Current
      <4>1. t[i] = starts[i] /\ t[i + 1] = starts[i + 1] /\ FrameSize(i)' = FrameSize(i)
        BY <1>4, <2>2, <3>1
      <4>2. /\ starts[i] <= starts[i + 1] /\ starts[i + 1] - starts[i] <= FrameSize(i)
            /\ i \in DOMAIN results => (results[i] <=> starts[i + 1] - starts[i] = FrameSize(i))
            /\ \A k \in 1 .. starts[i + 1] - starts[i] : stream[starts[i] + k - 1] = <<i, k>>
        BY <1>6, <3>1 DEF Laid
      <4> QED
        BY <1>3, <4>1, <4>2
    <3>2. CASE i = Current + 1
      <4>1. t[i] = Len(stream) + 1 /\ t[i + 1] = Len(stream) + 1
        BY <2>2, <3>2
      <4>2. FrameSize(i)' \in Nat
        BY <1>4, <1>n, <3>2
      <4>3. i \notin DOMAIN results'
        BY <1>3, <3>2
      <4> QED
        BY <4>1, <4>2, <4>3
    <3>3. i \in 1 .. Current \/ i = Current + 1
      BY <1>2
    <3> QED
      BY <3>1, <3>2, <3>3
  <2>6. ASSUME NEW q \in 1 .. Len(stream')
        PROVE  \E i \in 1 .. Current' : t[i] <= q /\ q < t[i + 1]
    <3>1. PICK i \in 1 .. Current : starts[i] <= q /\ q < starts[i + 1]
      BY <1>3, <1>6 DEF Laid
    <3>2. i \in 1 .. Current' /\ t[i] = starts[i] /\ t[i + 1] = starts[i + 1]
      BY <1>2, <2>2
    <3> QED
      BY <3>1, <3>2
  <2>7. Laid(t)'
    BY <2>4, <2>5, <2>6 DEF Laid
  <2>8. offset' = t[Current' + 1] - t[Current']
    BY <1>2, <1>3, <2>2
  <2> QED
    BY <2>3, <2>7, <2>8 DEF LaidOut
<1> QED
  BY <1>2, <1>3, <1>5, <1>7 DEF IInv

(* The kernel takes the next bytes of the frame: they stand right behind those
   it took before. *)
LEMMA WriteIInv == IInv /\ Write => IInv'
<1> SUFFICES ASSUME IInv, Write PROVE IInv'
  OBVIOUS
<1>f. Basics
  BY Facts
<1>g. /\ Current \in Nat /\ Len(stream) \in Nat /\ Len(results) \in Nat /\ offset \in Nat
      /\ DOMAIN results = 1 .. Len(results)
  BY <1>f DEF Basics
<1> USE <1>g
<1> DEFINE F == FrameSize(Current)
<1>0. Current \in 1 .. Current /\ F \in Nat \ {0} /\ Len(results) = Current - 1
  BY <1>f DEF Write, IInv, Basics
<1>1. PICK k \in 1 .. F - offset :
         /\ stream' = stream \o SubSeq(Frame(Current), offset + 1, offset + k)
         /\ offset' = offset + k
  BY DEF Write
<1>2. UNCHANGED <<sizes, sending, results>> /\ sending
  BY DEF Write
<1>3. Current' = Current /\ \A i \in 1 .. Current : FrameSize(i)' = FrameSize(i)
  BY <1>2 DEF Current, FrameSize
<1> DEFINE taken == SubSeq(Frame(Current), offset + 1, offset + k)
<1>k. k \in Nat \ {0} /\ offset + k <= F
  BY <1>0, <1>1
<1> HIDE DEF F
<1>4. /\ taken \in Seq((1 .. MaxCalls) \X Nat) /\ Len(taken) = k
      /\ \A j \in 1 .. k : taken[j] = <<Current, offset + j>>
  <2>1. Frame(Current) \in Seq((1 .. MaxCalls) \X Nat) /\ Len(Frame(Current)) = F
    <3>1. Current \in 1 .. MaxCalls
      BY <1>0 DEF IInv
    <3>2. Frame(Current) \in [1 .. F -> (1 .. MaxCalls) \X Nat]
      BY <1>0, <3>1 DEF Frame, F
    <3> QED
      BY <1>0, <3>2
  <2>2. \A j \in 1 .. F : Frame(Current)[j] = <<Current, j>>
    BY DEF Frame, F
  <2> DEFINE frame == Frame(Current)
             end == offset + k
  <2>3. end \in Nat /\ offset <= end /\ end <= Len(frame) /\ end - offset = k
    BY <1>k, <2>1
  <2>4. frame \in Seq((1 .. MaxCalls) \X Nat) /\ taken = SubSeq(frame, offset + 1, end)
    BY <2>1
  <2>5. \A j \in 1 .. k : frame[offset + j] = <<Current, offset + j>>
    <3> SUFFICES ASSUME NEW j \in 1 .. k PROVE offset + j \in 1 .. F
      BY <2>2
    <3> QED
      BY <1>0, <1>k
  <2> DEFINE S == (1 .. MaxCalls) \X Nat
  <2> HIDE DEF frame, end, taken, S
  <2>6. /\ SubSeq(frame, offset + 1, end) \in Seq(S)
        /\ Len(SubSeq(frame, offset + 1, end)) = end - offset
        /\ \A j \in 1 .. end - offset : SubSeq(frame, offset + 1, end)[j] = frame[offset + j]
    <3>1. frame \in Seq(S)
      BY <2>4 DEF S
    <3> QED
      BY <2>3, <3>1, Slice
  <2> QED
    BY <2>3, <2>4, <2>5, <2>6 DEF S
<1> HIDE DEF taken
<1>5. /\ stream' = stream \o taken /\ stream' \in Seq((1 .. MaxCalls) \X Nat)
      /\ Len(stream') = Len(stream) + k
      /\ \A q \in 1 .. Len(stream) : stream'[q] = stream[q]
      /\ \A j \in 1 .. k : stream'[Len(stream) + j] = <<Current, offset + j>>
  <2>1. stream \in Seq((1 .. MaxCalls) \X Nat)
    BY DEF IInv, TypeOK
  <2>2. stream' = stream \o taken
    BY <1>1 DEF taken
  <2>3. /\ stream \o taken \in Seq((1 .. MaxCalls) \X Nat)
        /\ Len(stream \o taken) = Len(stream) + Len(taken)
        /\ \A q \in 1 .. Len(stream) + Len(taken) : (stream \o taken)[q] =
               IF q <= Len(stream) THEN stream[q] ELSE taken[q - Len(stream)]
    BY <1>4, <2>1, ConcatProperties
  <2>4. \A q \in 1 .. Len(stream) : stream'[q] = stream[q]
    BY <1>4, <1>k, <2>2, <2>3
  <2>5. ASSUME NEW j \in 1 .. k
        PROVE  stream'[Len(stream) + j] = <<Current, offset + j>>
    <3>1. Len(stream) + j \in 1 .. Len(stream) + Len(taken) /\ ~(Len(stream) + j <= Len(stream))
          /\ Len(stream) + j - Len(stream) = j
      BY <1>4, <1>k
    <3>2. stream'[Len(stream) + j] = taken[j]
      BY <2>2, <2>3, <3>1
    <3> QED
      BY <1>4, <3>2
  <2> QED
    BY <1>4, <2>2, <2>3, <2>4, <2>5
<1>6. TypeOK'
  <2>1. offset' \in 0 .. (IF Current' = 0 THEN 0 ELSE FrameSize(Current)')
    <3>1. FrameSize(Current)' = F /\ Current' # 0
      BY <1>0, <1>3 DEF F
    <3> QED
      BY <1>0, <1>1, <1>k, <3>1
  <2> QED
    BY <1>2, <1>5, <2>1 DEF IInv, TypeOK
<1>7. PICK starts \in StartsOf : Laid(starts) /\ offset = starts[Current + 1] - starts[Current]
  BY <1>2 DEF IInv, LaidOut
<1>8. LaidOut'
  <2>1. PICK t : t = [starts EXCEPT ![Current + 1] = Len(stream) + k + 1]
    OBVIOUS
  <2>2. /\ \A i \in 1 .. Current : starts[i] \in 1 .. Len(stream) + 1 /\ t[i] = starts[i]
        /\ t[Current + 1] = Len(stream) + k + 1
        /\ starts[Current + 1] = Len(stream) + 1
        /\ DOMAIN t = 1 .. Current + 1
    <3>1. starts \in [1 .. Current + 1 -> 1 .. Len(stream) + 1] /\ starts[Current + 1] = Len(stream) + 1
      BY <1>7 DEF StartsOf, Laid
    <3> QED
      BY <1>0, <2>1, <3>1
  <2>3. t \in StartsOf'
    <3>1. ASSUME NEW i \in 1 .. Current + 1 PROVE t[i] \in 1 .. Len(stream) + k + 1
      <4>1. CASE i = Current + 1
        BY <1>k, <2>2, <4>1
      <4>2. CASE i # Current + 1
        <5>1. i \in 1 .. Current
          BY <4>2
        <5> QED
          BY <1>k, <2>2, <5>1
      <4> QED
        BY <4>1, <4>2
    <3>2. t = [i \in 1 .. Current + 1 |-> t[i]]
      BY <1>7, <2>1 DEF StartsOf
    <3>3. t \in [1 .. Current + 1 -> 1 .. Len(stream) + k + 1]
      BY <3>1, <3>2
    <3>4. Len(stream') + 1 = Len(stream) + k + 1
      BY <1>5, <1>k
    <3> QED
      BY <1>3, <3>3, <3>4 DEF StartsOf
  <2>4. t[1] = 1 /\ t[Current' + 1] = Len(stream') + 1
    <3>1. starts[1] = 1 /\ t[1] = starts[1]
      <4>1. starts[1] = 1 /\ 1 \in 1 .. Current
        BY <1>0, <1>7 DEF Laid
      <4> QED
        BY <2>2, <4>1
    <3> QED
      BY <1>3, <1>5, <1>k, <2>2, <3>1
  <2>5. ASSUME NEW i \in 1 .. Current'
        PROVE  /\ t[i] <= t[i + 1]
               /\ t[i + 1] - t[i] <= FrameSize(i)'
               /\ i \in DOMAIN results' => (results'[i] <=> t[i + 1] - t[i] = FrameSize(i)')
               /\ \A j \in 1 .. t[i + 1] - t[i] : stream'[t[i] + j - 1] = <<i, j>>
    <3>1. CASE i \in 1 .. Current - 1
      <4>1. t[i] = starts[i] /\ t[i + 1] = starts[i + 1] /\ FrameSize(i)' = FrameSize(i)
        BY <1>3, <2>2, <3>1
      <4>2. starts[i] \in 1 .. Len(stream) + 1 /\ starts[i + 1] \in 1 .. Len(stream) + 1
        BY <3>1, <2>2
      <4>3. \A j \in 1 .. starts[i + 1] - starts[i] :
               stream'[starts[i] + j - 1] = stream[starts[i] + j - 1]
        <5> SUFFICES ASSUME NEW j \in 1 .. starts[i + 1] - starts[i]
                     PROVE  starts[i] + j - 1 \in 1 .. Len(stream)
          BY <1>5
        <5> QED
          BY <4>2
      <4>4. /\ starts[i] <= starts[i + 1] /\ starts[i + 1] - starts[i] <= FrameSize(i)
            /\ i \in DOMAIN results => (results[i] <=> starts[i + 1] - starts[i] = FrameSize(i))
            /\ \A j \in 1 .. starts[i + 1] - starts[i] : stream[starts[i] + j - 1] = <<i, j>>
        <5>1. i \in 1 .. Current
          BY <3>1
        <5> QED
          BY <1>7, <5>1 DEF Laid
      <4> QED
        BY <1>2, <4>1, <4>3, <4>4
    <3>2. CASE i = Current
      <4>1. t[i] = starts[i] /\ t[i + 1] = starts[i + 1] + k /\ FrameSize(i)' = F
        <5>1. t[i] = starts[i] /\ t[i + 1] = Len(stream) + k + 1 /\ starts[i + 1] = Len(stream) + 1
          BY <1>0, <2>2, <3>2
        <5>2. FrameSize(i)' = F
          BY <1>0, <1>3, <3>2 DEF F
        <5> QED
          BY <1>k, <5>1, <5>2
      <4>2. starts[i] \in 1 .. Len(stream) + 1 /\ offset = Len(stream) + 1 - starts[i]
        <5>1. offset = starts[Current + 1] - starts[Current]
          BY <1>7
        <5>2. starts[i] \in 1 .. Len(stream) + 1
          BY <2>2, <3>2, <1>0
        <5>3. offset = starts[Current + 1] - starts[i]
          BY <3>2, <5>1
        <5> QED
          BY <2>2, <5>2, <5>3
      <4>3. t[i] <= t[i + 1] /\ t[i + 1] - t[i] = offset + k /\ offset + k <= F
        <5>1. t[i + 1] = Len(stream) + 1 + k
          BY <2>2, <3>2, <1>k
        <5> QED
          BY <1>k, <4>1, <4>2, <5>1
      <4>4. i \notin DOMAIN results'
        BY <1>0, <1>2, <3>2
      <4>5. ASSUME NEW j \in 1 .. offset + k
            PROVE  stream'[t[i] + j - 1] = <<i, j>>
        <5>0. j \in Nat \ {0}
          BY <1>k
        <5>1. CASE j <= offset
          <6>1. stream[starts[i] + j - 1] = <<i, j>>
            <7>1. j \in 1 .. starts[i + 1] - starts[i]
              BY <1>7, <3>2, <5>1
            <7> QED
              BY <1>7, <3>2, <7>1, <1>0 DEF Laid
          <6>2. starts[i] + j - 1 \in 1 .. Len(stream)
            <7>1. PICK first \in Nat : first = starts[i] /\ first >= 1
              BY <4>2
            <7>2. PICK last \in Nat : last = Len(stream) /\ offset = last + 1 - first
              BY <4>2, <7>1
            <7>3. first + j - 1 \in 1 .. last
              <8>1. j \in Nat /\ j >= 1 /\ j <= last + 1 - first
                BY <5>0, <5>1, <7>2
              <8> QED
                BY <7>1, <8>1
            <7> QED
              BY <7>1, <7>2, <7>3
          <6> QED
            BY <1>5, <4>1, <6>1, <6>2
        <5>2. CASE j > offset
          <6>1. t[i] + j - 1 = Len(stream) + (j - offset) /\ j - offset \in 1 .. k
            <7>1. starts[i] \in Nat /\ starts[i] = Len(stream) + 1 - offset /\ t[i] = starts[i]
              BY <4>1, <4>2
            <7>2. j - offset \in 1 .. k
              BY <1>k, <5>0, <5>2
            <7>3. t[i] + j - 1 = Len(stream) + (j - offset)
              BY <5>0, <7>1
            <7> QED
              BY <7>2, <7>3
          <6>2. offset + (j - offset) = j
            BY <5>0
          <6> QED
            BY <1>5, <3>2, <6>1, <6>2
        <5> QED
          BY <5>1, <5>2
      <4> QED
        BY <4>1, <4>3, <4>4, <4>5
    <3> QED
      BY <1>3, <1>0, <3>1, <3>2
  <2>6. ASSUME NEW q \in 1 .. Len(stream')
        PROVE  \E i \in 1 .. Current' : t[i] <= q /\ q < t[i + 1]
    <3>1. CASE q <= Len(stream)
      <4>1. PICK i \in 1 .. Current : starts[i] <= q /\ q < starts[i + 1]
        <5>1. q \in 1 .. Len(stream)
          BY <1>5, <1>k, <3>1
        <5> QED
          BY <1>7, <5>1 DEF Laid
      <4>2. t[i] = starts[i] /\ t[i + 1] >= starts[i + 1]
            /\ starts[i + 1] \in Nat /\ t[i + 1] \in Nat
        <5>1. CASE i = Current
          BY <1>k, <2>2, <5>1
        <5>2. CASE i # Current
          <6>1. i + 1 \in 1 .. Current
            BY <5>2
          <6> QED
            BY <2>2, <6>1
        <5> QED
          BY <5>1, <5>2
      <4>3. q < t[i + 1]
        <5>1. q \in Nat
          OBVIOUS
        <5> QED
          BY <4>1, <4>2, <5>1
      <4> QED
        BY <1>3, <4>1, <4>2, <4>3
    <3>2. CASE q > Len(stream)
      <4>1. t[Current] <= q /\ q < t[Current + 1]
        <5>1. t[Current] \in 1 .. Len(stream) + 1 /\ t[Current + 1] = Len(stream) + k + 1
          BY <1>0, <2>2
        <5>2. q \in 1 .. Len(stream) + k
          BY <1>5, <1>k
        <5> QED
          BY <1>k, <3>2, <5>1, <5>2
      <4> QED
        BY <1>0, <1>3, <4>1
    <3>3. q \in Nat
      OBVIOUS
    <3> QED
      BY <3>1, <3>2, <3>3
  <2>7. Laid(t)'
    BY <2>4, <2>5, <2>6 DEF Laid
  <2>8. offset' = t[Current' + 1] - t[Current']
    <3>1. t[Current] = starts[Current] /\ starts[Current] \in 1 .. Len(stream) + 1
          /\ t[Current + 1] = Len(stream) + k + 1 /\ starts[Current + 1] = Len(stream) + 1
      BY <1>0, <2>2
    <3>2. offset = Len(stream) + 1 - starts[Current]
      BY <1>7, <3>1
    <3> QED
      BY <1>1, <1>3, <1>k, <3>1, <3>2
  <2> QED
    BY <2>3, <2>7, <2>8 DEF LaidOut
<1> QED
  BY <1>0, <1>2, <1>3, <1>6, <1>8 DEF IInv

(* A call that has ended: all of its frame has been taken if and only if it
   returned its length. *)
LEMMA EndIInv ==
    ASSUME NEW sent \in BOOLEAN, IInv, sending, End(sent),
           sent <=> offset = FrameSize(Current)
    PROVE  IInv'
<1>f. Basics
  BY Facts
<1>0. Current \in 1 .. Current /\ Len(results) = Current - 1
  BY <1>f DEF IInv, Basics
<1>1. /\ UNCHANGED <<sizes, offset, stream>> /\ sending' = FALSE
      /\ results' = Append(results, sent)
  BY DEF End
<1>2. Current' = Current /\ \A i : FrameSize(i)' = FrameSize(i)
  BY <1>1 DEF Current, FrameSize
<1>3. results \in Seq(BOOLEAN)
  BY DEF IInv, TypeOK
<1>4. /\ results' \in Seq(BOOLEAN) /\ Len(results') = Current /\ results'[Current] = sent
      /\ DOMAIN results' = 1 .. Current
      /\ \A i \in 1 .. Current - 1 : i \in DOMAIN results /\ results'[i] = results[i]
  BY <1>0, <1>1, <1>3, <1>f, AppendProperties DEF Basics
<1>5. TypeOK'
  BY <1>1, <1>2, <1>4 DEF IInv, TypeOK
<1>6. PICK starts \in StartsOf : Laid(starts) /\ offset = starts[Current + 1] - starts[Current]
  BY DEF IInv, LaidOut
<1>7. starts \in StartsOf'
  BY <1>1, <1>2 DEF StartsOf
<1>8. ASSUME NEW i \in 1 .. Current, i \in DOMAIN results'
      PROVE  results'[i] <=> starts[i + 1] - starts[i] = FrameSize(i)
  <2>1. CASE i \in 1 .. Current - 1
    BY <1>4, <1>6, <2>1 DEF Laid
  <2>2. CASE i = Current
    BY <1>4, <1>6, <2>2
  <2> QED
    BY <1>f, <2>1, <2>2 DEF Basics
<1>9. Laid(starts)'
  BY <1>1, <1>2, <1>6, <1>8 DEF Laid
<1> QED
  BY <1>1, <1>2, <1>4, <1>5, <1>7, <1>9 DEF IInv, LaidOut

THEOREM InductiveInvariant == Spec => []IInv
<1>1. IInv /\ [Next]_vars => IInv'
  <2> SUFFICES ASSUME IInv, [Next]_vars PROVE IInv'
    OBVIOUS
  <2>1. CASE Begin
    BY <2>1, BeginIInv
  <2>2. CASE Write
    BY <2>2, WriteIInv
  <2>3. CASE Sent
    BY <2>3, EndIInv DEF Sent
  <2>4. CASE SendFails
    <3>1. FrameSize(Current) \in Nat /\ offset \in Nat
      BY <2>4, Facts DEF SendFails, IInv, Basics
    <3>2. ~ (FALSE <=> offset # FrameSize(Current)) /\ offset # FrameSize(Current)
      BY <2>4, <3>1 DEF SendFails
    <3> QED
      BY <2>4, <3>2, EndIInv DEF SendFails
  <2>5. CASE UNCHANGED vars
    <3>1. UNCHANGED <<sizes, sending, offset, stream, results>>
      BY <2>5 DEF vars
    <3>2. Current' = Current /\ \A i : FrameSize(i)' = FrameSize(i)
      BY <3>1 DEF Current, FrameSize
    <3>3. TypeOK'
      BY <3>1, <3>2 DEF IInv, TypeOK
    <3>4. PICK starts \in StartsOf :
             Laid(starts) /\ (sending => offset = starts[Current + 1] - starts[Current])
      BY DEF IInv, LaidOut
    <3>5. starts \in StartsOf'
      BY <3>1, <3>2, <3>4 DEF StartsOf
    <3>6. Laid(starts)'
      BY <3>1, <3>2, <3>4 DEF Laid
    <3> QED
      BY <3>1, <3>2, <3>3, <3>4, <3>5, <3>6 DEF IInv, LaidOut
  <2> QED
    BY <2>1, <2>2, <2>3, <2>4, <2>5 DEF Next, Finished
<1> QED
  BY <1>1, InitIInv, PTL DEF Spec

-----------------------------------------------------------------------------
(* What the node reads. *)

(* f collects v along the steps next from each position in W. *)
Follows(f, N, W, v, next) ==
    f = [p \in 1 .. N + 1 |-> IF p <= N /\ p \in W THEN <<v[p]>> \o f[next[p]] ELSE <<>>]

(* Steps that only go forward come to an end: there is such a function. *)
LEMMA ChainExists ==
    ASSUME NEW N \in Nat, NEW W, NEW v, NEW next,
           \A p \in 1 .. N : p \in W => next[p] \in p + 1 .. N + 1
    PROVE  \E f : Follows(f, N, W, v, next)
<1> DEFINE Step(f, p) == IF p <= N /\ p \in W THEN <<v[p]>> \o f[next[p]] ELSE <<>>
           T == {n \in Nat : n <= N => \E f : f = [p \in N + 1 - n .. N + 1 |-> Step(f, p)]}
<1>1. 0 \in T
  <2> SUFFICES \E f : f = [p \in N + 1 - 0 .. N + 1 |-> Step(f, p)]
    OBVIOUS
  <2> DEFINE f == [p \in N + 1 .. N + 1 |-> <<>>]
  <2>1. \A p \in N + 1 .. N + 1 : Step(f, p) = <<>>
    OBVIOUS
  <2> HIDE DEF Step
  <2>2. f = [p \in N + 1 - 0 .. N + 1 |-> Step(f, p)]
    BY <2>1
  <2> QED
    BY <2>2
<1>2. ASSUME NEW n \in Nat, n \in T PROVE n + 1 \in T
  <2> SUFFICES ASSUME n + 1 <= N
               PROVE  \E f : f = [p \in N + 1 - (n + 1) .. N + 1 |-> Step(f, p)]
    <3>1. n + 1 \in Nat
      OBVIOUS
    <3> HIDE DEF Step
    <3> QED
      BY <3>1
  <2> DEFINE first == N + 1 - (n + 1)
  <2>1. first \in 1 .. N /\ N + 1 - n = first + 1
    OBVIOUS
  <2>2. PICK g : g = [p \in first + 1 .. N + 1 |-> Step(g, p)]
    <3> HIDE DEF Step
    <3>1. n <= N
      OBVIOUS
    <3>2. \E g : g = [p \in N + 1 - n .. N + 1 |-> Step(g, p)]
      BY <1>2, <3>1
    <3> HIDE DEF first
    <3> QED
      BY <2>1, <3>2
  <2> DEFINE f == [p \in first .. N + 1 |-> IF p = first THEN Step(g, first) ELSE g[p]]
  <2> HIDE DEF first
  <2>3. ASSUME NEW p \in first .. N + 1
        PROVE  Step(f, p) = Step(g, p)
    <3> SUFFICES ASSUME p <= N, p \in W PROVE f[next[p]] = g[next[p]]
      OBVIOUS
    <3>1. next[p] \in p + 1 .. N + 1
      BY <2>1
    <3>2. next[p] \in first + 1 .. N + 1
      BY <2>1, <3>1
    <3> QED
      BY <2>1, <3>2
  <2>4. ASSUME NEW p \in first .. N + 1
        PROVE  f[p] = Step(g, p)
    <3>1. CASE p = first
      BY <3>1
    <3>2. CASE p # first
      <4>1. p \in first + 1 .. N + 1
        BY <2>1, <3>2
      <4> HIDE DEF Step
      <4> QED
        BY <2>2, <3>2, <4>1
    <3> QED
      BY <3>1, <3>2
  <2>5. f = [p \in first .. N + 1 |-> f[p]]
    OBVIOUS
  <2> HIDE DEF Step, f
  <2>6. f = [p \in first .. N + 1 |-> Step(f, p)]
    BY <2>3, <2>4, <2>5
  <2> QED
    BY <2>6 DEF first
<1> HIDE DEF T
<1>3. N \in T
  BY <1>1, <1>2, SetInduction
<1>4. \E f : f = [p \in N + 1 - N .. N + 1 |-> Step(f, p)]
  <2>1. N <= N
    OBVIOUS
  <2> HIDE DEF Step
  <2> QED
    BY <1>3, <2>1 DEF T
<1>5. N + 1 - N = 1
  OBVIOUS
<1> QED
  BY <1>4, <1>5 DEF Follows

(* Every byte is of a call that was made, and has its place in that call's frame. *)
LEMMA ByteOfCall ==
    ASSUME IInv, NEW starts \in StartsOf, Laid(starts), NEW q \in 1 .. Len(stream)
    PROVE  \E i \in 1 .. Current :
              /\ starts[i] <= q /\ q < starts[i + 1]
              /\ stream[q] = <<i, q - starts[i] + 1>>
<1>1. PICK i \in 1 .. Current : starts[i] <= q /\ q < starts[i + 1]
  BY DEF Laid
<1>2. /\ Current \in Nat /\ Len(stream) \in Nat
  BY Facts DEF Basics
<1>3. starts[i] \in Nat /\ starts[i + 1] \in Nat
  BY <1>1, <1>2 DEF StartsOf
<1>4. PICK k : k = q - starts[i] + 1
  OBVIOUS
<1>5. k \in 1 .. starts[i + 1] - starts[i] /\ starts[i] + k - 1 = q
  <2>1. PICK from \in Nat : from = starts[i]
    BY <1>3
  <2>2. PICK to \in Nat : to = starts[i + 1]
    BY <1>3
  <2>3. q \in Nat /\ from <= q /\ q < to /\ k = q - from + 1
    BY <1>1, <1>4, <2>1, <2>2
  <2>4. k \in 1 .. to - from /\ from + k - 1 = q
    BY <2>3
  <2> QED
    BY <2>1, <2>2, <2>4
<1>6. stream[starts[i] + k - 1] = <<i, k>>
  BY <1>5 DEF Laid
<1> QED
  BY <1>1, <1>4, <1>5, <1>6

(* A request is as long as its header says. *)
LEMMA FrameAtLength ==
    ASSUME IInv, NEW p \in 1 .. Len(stream), WholeAt(p)
    PROVE  /\ FrameAt(p) \in Seq((1 .. MaxCalls) \X Nat)
           /\ Len(FrameAt(p)) = FrameSize(stream[p][1])
           /\ p + Len(FrameAt(p)) \in p + 1 .. Len(stream) + 1
           /\ \A j \in 1 .. Len(FrameAt(p)) :
                 p + j - 1 \in 1 .. Len(stream) /\ FrameAt(p)[j] = stream[p + j - 1]
<1>1. PICK starts \in StartsOf : Laid(starts)
  BY DEF IInv, LaidOut
<1>2. PICK i \in 1 .. Current : stream[p] = <<i, p - starts[i] + 1>>
  BY <1>1, ByteOfCall
<1>3. PICK size \in Nat \ {0} : size = FrameSize(i)
  BY Facts DEF Basics
<1>4. PICK N \in Nat : N = Len(stream)
  BY Facts DEF Basics
<1>5. FrameSize(stream[p][1]) = size
  BY <1>2, <1>3
<1>6. p + size - 1 <= N
  BY <1>4, <1>5 DEF WholeAt
<1> DEFINE a == p - 1
           b == p + size - 1
           S == (1 .. MaxCalls) \X Nat
<1>7. a \in Nat /\ b \in Nat /\ a <= b /\ b <= Len(stream) /\ b - a = size /\ a + 1 = p
  BY <1>4, <1>6
<1>8. stream \in Seq(S)
  BY DEF IInv, TypeOK
<1>9. FrameAt(p) = SubSeq(stream, a + 1, b)
  BY <1>5, <1>7 DEF FrameAt
<1> HIDE DEF a, b, S
<1>10. /\ FrameAt(p) \in Seq(S) /\ Len(FrameAt(p)) = size
       /\ \A j \in 1 .. size : FrameAt(p)[j] = stream[a + j]
  BY <1>7, <1>8, <1>9, Slice
<1>11. p + size \in p + 1 .. N + 1 /\ \A j \in 1 .. size : p + j - 1 \in 1 .. N /\ a + j = p + j - 1
  BY <1>4, <1>6 DEF a
<1> QED
  BY <1>4, <1>5, <1>10, <1>11 DEF S

(* The node's reading is what its definition says. *)
LEMMA RequestsFromDef ==
    ASSUME IInv
    PROVE  RequestsFrom = [p \in 1 .. Len(stream) + 1 |->
              IF p <= Len(stream) /\ WholeAt(p)
              THEN <<FrameAt(p)>> \o RequestsFrom[p + Len(FrameAt(p))]
              ELSE <<>>]
<1> DEFINE N == Len(stream)
           W == {p \in 1 .. N : WholeAt(p)}
           v == [p \in 1 .. N |-> FrameAt(p)]
           next == [p \in 1 .. N |-> p + Len(FrameAt(p))]
<1>1. N \in Nat
  BY Facts DEF Basics
<1>2. \A p \in 1 .. N : p \in W => next[p] \in p + 1 .. N + 1
  BY FrameAtLength
<1>3. \E f : Follows(f, N, W, v, next)
  <2> HIDE DEF N, W, v, next
  <2> QED
    BY <1>1, <1>2, ChainExists
<1>4. PICK f : f = [p \in 1 .. N + 1 |->
                     IF p <= N /\ p \in W THEN <<v[p]>> \o f[next[p]] ELSE <<>>]
  BY <1>3 DEF Follows
<1>5. \A p \in 1 .. N + 1 :
         (IF p <= N /\ p \in W THEN <<v[p]>> \o f[next[p]] ELSE <<>>) =
         (IF p <= N /\ WholeAt(p) THEN <<FrameAt(p)>> \o f[p + Len(FrameAt(p))] ELSE <<>>)
  BY <1>1
<1>6. f = [p \in 1 .. Len(stream) + 1 |->
              IF p <= Len(stream) /\ WholeAt(p)
              THEN <<FrameAt(p)>> \o f[p + Len(FrameAt(p))] ELSE <<>>]
  BY <1>4, <1>5
<1> QED
  BY <1>6 DEF RequestsFrom

(* What can be read from the stream at all. *)
Readable == {FrameAt(q) : q \in {q \in 1 .. Len(stream) : WholeAt(q)}}

LEMMA ReadsAreReadable ==
    ASSUME IInv
    PROVE  \A p \in 1 .. Len(stream) + 1 : RequestsFrom[p] \in Seq(Readable)
<1>1. PICK N \in Nat : N = Len(stream)
  BY Facts DEF Basics
<1> DEFINE T == {n \in Nat : \A p \in 1 .. N + 1 :
                                N + 1 - p <= n => RequestsFrom[p] \in Seq(Readable)}
<1>2. \A p \in 1 .. N + 1 :
         RequestsFrom[p] = IF p <= N /\ WholeAt(p)
                           THEN <<FrameAt(p)>> \o RequestsFrom[p + Len(FrameAt(p))] ELSE <<>>
  BY <1>1, RequestsFromDef
<1>3. 0 \in T
  <2> SUFFICES ASSUME NEW p \in 1 .. N + 1, N + 1 - p <= 0
               PROVE  RequestsFrom[p] \in Seq(Readable)
    OBVIOUS
  <2>1. ~(p <= N)
    OBVIOUS
  <2>2. RequestsFrom[p] = <<>>
    BY <1>2, <2>1
  <2> QED
    BY <2>2
<1>4. ASSUME NEW n \in Nat, n \in T PROVE n + 1 \in T
  <2> SUFFICES ASSUME NEW p \in 1 .. N + 1, N + 1 - p <= n + 1
               PROVE  RequestsFrom[p] \in Seq(Readable)
    OBVIOUS
  <2>1. CASE p <= N /\ WholeAt(p)
    <3>1. FrameAt(p) \in Readable /\ p + Len(FrameAt(p)) \in p + 1 .. N + 1
      BY <1>1, <2>1, FrameAtLength DEF Readable
    <3>2. PICK next \in p + 1 .. N + 1 : next = p + Len(FrameAt(p))
      BY <3>1
    <3>3. next \in 1 .. N + 1 /\ N + 1 - next <= n
      OBVIOUS
    <3>4. RequestsFrom[next] \in Seq(Readable)
      BY <1>4, <3>3
    <3>5. RequestsFrom[p] = <<FrameAt(p)>> \o RequestsFrom[next]
      BY <1>2, <2>1, <3>2
    <3>6. <<FrameAt(p)>> \in Seq(Readable)
      BY <3>1
    <3> QED
      BY <3>4, <3>5, <3>6
  <2>2. CASE ~(p <= N /\ WholeAt(p))
    <3>1. RequestsFrom[p] = <<>>
      BY <1>2, <2>2
    <3> QED
      BY <3>1
  <2> QED
    BY <2>1, <2>2
<1> HIDE DEF T
<1>5. Nat \subseteq T
  BY <1>3, <1>4, SetInduction
<1> SUFFICES ASSUME NEW p \in 1 .. N + 1 PROVE RequestsFrom[p] \in Seq(Readable)
  BY <1>1
<1>6. N + 1 - p \in Nat /\ N + 1 - p <= N + 1 - p
  OBVIOUS
<1>7. N + 1 - p \in T
  BY <1>5, <1>6
<1> QED
  BY <1>6, <1>7 DEF T

(* The application may repeat a request whose call returned -1: its last byte is
   not on the stream, so nothing the node reads is that request. *)
THEOREM FailedCallsAreUnread == Spec => []FailedIsUnread
<1>1. IInv => FailedIsUnread
  <2> SUFFICES ASSUME IInv, NEW i \in DOMAIN results, ~results[i],
                      NEW j \in DOMAIN NodeReads, NodeReads[j] = Frame(i)
               PROVE  FALSE
    BY DEF FailedIsUnread
  <2>1. i \in 1 .. Current /\ Len(stream) \in Nat
    BY Facts DEF Basics
  <2>2. NodeReads \in Seq(Readable)
    <3>1. 1 \in 1 .. Len(stream) + 1
      BY <2>1
    <3> QED
      BY <3>1, ReadsAreReadable DEF NodeReads
  <2>3. PICK q \in 1 .. Len(stream) : WholeAt(q) /\ FrameAt(q) = Frame(i)
    <3>1. NodeReads[j] \in Readable
      BY <2>2
    <3> QED
      BY <3>1 DEF Readable
  <2>4. PICK size \in Nat \ {0} : size = FrameSize(i)
    BY <2>1, Facts DEF Basics
  <2>5. Len(FrameAt(q)) = size /\ FrameAt(q)[size] = <<i, size>>
    <3>1. Frame(i) = [position \in 1 .. size |-> <<i, position>>]
      BY <2>4 DEF Frame
    <3>2. FrameAt(q) \in Seq((1 .. MaxCalls) \X Nat)
      BY <2>3, FrameAtLength
    <3>3. DOMAIN FrameAt(q) = 1 .. size
      BY <2>3, <3>1
    <3>4. size \in 1 .. size
      OBVIOUS
    <3> QED
      BY <2>3, <3>1, <3>2, <3>3, <3>4
  <2>6. PICK r \in 1 .. Len(stream) : stream[r] = <<i, size>>
    <3>1. size \in 1 .. Len(FrameAt(q))
      BY <2>5
    <3> QED
      BY <2>3, <2>5, <3>1, FrameAtLength
  <2>7. PICK starts \in StartsOf : Laid(starts)
    BY DEF IInv, LaidOut
  <2>8. starts[i] <= r /\ r < starts[i + 1] /\ size = r - starts[i] + 1
    BY <2>6, <2>7, ByteOfCall
  <2>9. starts[i + 1] - starts[i] <= size
    BY <2>1, <2>4, <2>7 DEF Laid
  <2>10. starts[i] \in Nat /\ starts[i + 1] \in Nat
    <3>1. Current \in Nat
      BY Facts DEF Basics
    <3>2. i + 1 \in 1 .. Current + 1 /\ i \in 1 .. Current + 1
      BY <2>1, <3>1
    <3>3. starts[i] \in 1 .. Len(stream) + 1 /\ starts[i + 1] \in 1 .. Len(stream) + 1
      BY <3>2 DEF StartsOf
    <3> QED
      BY <2>1, <3>3
  <2>11. starts[i + 1] - starts[i] = size
    BY <2>8, <2>9, <2>10
  <2> QED
    BY <2>1, <2>4, <2>7, <2>11 DEF Laid
<1> QED
  BY <1>1, InductiveInvariant, PTL

-----------------------------------------------------------------------------
(* All of call i has been taken. *)
Whole(starts, i) == starts[i + 1] - starts[i] = FrameSize(i)

LEMMA StartsAreNumbers ==
    ASSUME IInv, NEW starts \in StartsOf, NEW i \in 1 .. Current
    PROVE  /\ starts[i] \in 1 .. Len(stream) + 1 /\ starts[i + 1] \in 1 .. Len(stream) + 1
           /\ Len(stream) \in Nat
           /\ FrameSize(i) \in Nat /\ FrameSize(i) >= 5
<1>1. Current \in Nat
  BY Facts DEF Basics
<1>2. i + 1 \in 1 .. Current + 1 /\ i \in 1 .. Current + 1
  BY <1>1
<1> QED
  BY <1>2, Facts DEF StartsOf, Basics

(* Where a call that has been taken whole starts, the node reads its request. *)
LEMMA ReadsWhole ==
    ASSUME IInv, NEW starts \in StartsOf, Laid(starts),
           NEW i \in 1 .. Current, Whole(starts, i)
    PROVE  RequestsFrom[starts[i]] = <<Frame(i)>> \o RequestsFrom[starts[i + 1]]
<1>1. PICK p \in Nat \ {0} : p = starts[i]
  BY StartsAreNumbers
<1>2. PICK size \in Nat : size = FrameSize(i) /\ size >= 5
  BY StartsAreNumbers
<1>3. PICK N \in Nat : N = Len(stream)
  BY StartsAreNumbers
<1>4. starts[i + 1] = p + size /\ p + size - 1 <= N
  <2>1. starts[i + 1] \in 1 .. N + 1
    BY <1>3, StartsAreNumbers
  <2> QED
    BY <1>1, <1>2, <2>1 DEF Whole
<1>5. \A k \in 1 .. size : stream[p + k - 1] = <<i, k>>
  BY <1>1, <1>2 DEF Laid, Whole
<1>6. stream[p] = <<i, 1>> /\ stream[p][1] = i
  <2>1. 1 \in 1 .. size /\ p + 1 - 1 = p
    BY <1>2
  <2> QED
    BY <1>5, <2>1
<1>7. PICK a \in Nat : a = p - 1 /\ a + 1 = p
  OBVIOUS
<1>8. stream \in Seq((1 .. MaxCalls) \X Nat)
  BY DEF IInv, TypeOK
<1>9. Frame(i) \in Seq((1 .. Current) \X Nat) /\ Len(Frame(i)) = size
      /\ \A k \in 1 .. size : Frame(i)[k] = <<i, k>>
  <2>1. Frame(i) = [k \in 1 .. size |-> <<i, k>>]
    BY <1>2 DEF Frame
  <2>2. Frame(i) \in [1 .. size -> (1 .. Current) \X Nat]
    BY <2>1
  <2> QED
    BY <2>1, <2>2
<1>10. HeaderAt(p)
  <2>1. /\ SubSeq(stream, a + 1, p + 3) \in Seq((1 .. MaxCalls) \X Nat)
        /\ Len(SubSeq(stream, a + 1, p + 3)) = p + 3 - a
        /\ \A j \in 1 .. p + 3 - a : SubSeq(stream, a + 1, p + 3)[j] = stream[a + j]
    <3>1. p + 3 \in Nat /\ a <= p + 3 /\ p + 3 <= Len(stream)
      BY <1>2, <1>3, <1>4, <1>7
    <3> QED
      BY <1>8, <3>1, Slice
  <2>2. /\ SubSeq(Frame(i), 0 + 1, 4) \in Seq((1 .. Current) \X Nat)
        /\ Len(SubSeq(Frame(i), 0 + 1, 4)) = 4 - 0
        /\ \A j \in 1 .. 4 - 0 : SubSeq(Frame(i), 0 + 1, 4)[j] = Frame(i)[0 + j]
    <3>1. 0 \in Nat /\ 4 \in Nat /\ 0 <= 4 /\ 4 <= Len(Frame(i))
      BY <1>2, <1>9
    <3> QED
      BY <1>9, <3>1, Slice
  <2>3. \A j \in 1 .. 4 : stream[a + j] = Frame(i)[0 + j]
    <3> SUFFICES ASSUME NEW j \in 1 .. 4 PROVE stream[a + j] = Frame(i)[j]
      OBVIOUS
    <3>1. j \in 1 .. size /\ a + j = p + j - 1
      BY <1>2, <1>7
    <3> QED
      BY <1>5, <1>9, <3>1
  <2>4. p + 3 - a = 4 /\ a + 1 = p
    BY <1>7
  <2>5. /\ DOMAIN SubSeq(stream, p, p + 3) = 1 .. 4
        /\ \A j \in 1 .. 4 : SubSeq(stream, p, p + 3)[j] = stream[a + j]
        /\ SubSeq(stream, p, p + 3) = [j \in 1 .. 4 |-> SubSeq(stream, p, p + 3)[j]]
    BY <2>1, <2>4
  <2>6. /\ DOMAIN SubSeq(Frame(i), 1, 4) = 1 .. 4
        /\ \A j \in 1 .. 4 : SubSeq(Frame(i), 1, 4)[j] = Frame(i)[0 + j]
        /\ SubSeq(Frame(i), 1, 4) = [j \in 1 .. 4 |-> SubSeq(Frame(i), 1, 4)[j]]
    BY <2>2
  <2>7. SubSeq(stream, p, p + 3) = SubSeq(Frame(i), 1, 4)
    BY <2>3, <2>5, <2>6
  <2>8. p + 3 <= Len(stream)
    BY <1>2, <1>3, <1>4
  <2> QED
    BY <1>6, <2>7, <2>8 DEF HeaderAt
<1>11. WholeAt(p) /\ p \in 1 .. Len(stream)
  BY <1>2, <1>3, <1>4, <1>6, <1>10 DEF WholeAt
<1>12. FrameAt(p) = Frame(i)
  <2>1. /\ FrameAt(p) \in Seq((1 .. MaxCalls) \X Nat)
        /\ Len(FrameAt(p)) = size
        /\ \A j \in 1 .. size : FrameAt(p)[j] = stream[p + j - 1]
    BY <1>2, <1>6, <1>11, FrameAtLength
  <2>2. \A j \in 1 .. size : FrameAt(p)[j] = Frame(i)[j]
    BY <1>5, <1>9, <2>1
  <2>3. /\ FrameAt(p) = [j \in 1 .. size |-> FrameAt(p)[j]]
        /\ Frame(i) = [j \in 1 .. size |-> Frame(i)[j]]
    BY <1>9, <2>1
  <2> QED
    BY <2>2, <2>3
<1>13. p \in 1 .. Len(stream) + 1 /\ p <= Len(stream)
  BY <1>3, <1>11
<1>14. RequestsFrom[p] = <<FrameAt(p)>> \o RequestsFrom[p + Len(FrameAt(p))]
  BY <1>11, <1>13, RequestsFromDef
<1> QED
  BY <1>1, <1>4, <1>9, <1>12, <1>14

(* Where the stream ends in the middle of a call, or at its end, nothing. *)
LEMMA ReadsNothing ==
    ASSUME IInv, NEW p \in 1 .. Len(stream) + 1,
           \/ p = Len(stream) + 1
           \/ Len(stream) + 1 - p < FrameSize(stream[p][1])
    PROVE  RequestsFrom[p] = <<>>
<1>1. PICK N \in Nat : N = Len(stream)
  BY Facts DEF Basics
<1>2. ~(p <= Len(stream) /\ WholeAt(p))
  <2>1. CASE p = Len(stream) + 1
    BY <1>1, <2>1
  <2>2. CASE p <= N /\ N + 1 - p < FrameSize(stream[p][1])
    <3>1. PICK starts \in StartsOf : Laid(starts)
      BY DEF IInv, LaidOut
    <3>2. PICK i \in 1 .. Current : stream[p] = <<i, p - starts[i] + 1>>
      BY <1>1, <2>2, <3>1, ByteOfCall
    <3>3. PICK size \in Nat : size = FrameSize(stream[p][1])
      BY <3>2, Facts DEF Basics
    <3>4. ~(p + size - 1 <= N)
      BY <1>1, <2>2, <3>3
    <3> QED
      BY <1>1, <3>3, <3>4 DEF WholeAt
  <2> QED
    BY <1>1, <2>1, <2>2
<1> QED
  BY <1>2, RequestsFromDef

(* The first m calls being whole, the node reads them first, one by one. *)
LEMMA ReadsInOrder ==
    ASSUME IInv, NEW starts \in StartsOf, Laid(starts),
           NEW m \in 0 .. Current, \A i \in 1 .. m : Whole(starts, i)
    PROVE  /\ Len(NodeReads) = m + Len(RequestsFrom[starts[m + 1]])
           /\ Len(RequestsFrom[starts[m + 1]]) \in Nat
           /\ \A i \in 1 .. m : NodeReads[i] = Frame(i)
           /\ DOMAIN NodeReads = 1 .. Len(NodeReads)
<1> DEFINE rest(n) == RequestsFrom[starts[n + 1]]
           P(n) == /\ Len(NodeReads) = n + Len(rest(n))
                   /\ \A i \in 1 .. n : NodeReads[i] = Frame(i)
                   /\ \A j \in 1 .. Len(rest(n)) : NodeReads[n + j] = rest(n)[j]
           T == {n \in Nat : n <= m => P(n)}
<1>1. PICK N \in Nat : N = Len(stream)
  BY Facts DEF Basics
<1>2. PICK C \in Nat : C = Current
  BY Facts DEF Basics
<1>3. \A n \in 0 .. C : starts[n + 1] \in 1 .. N + 1 /\ rest(n) \in Seq(Readable)
  <2> SUFFICES ASSUME NEW n \in 0 .. C
               PROVE  starts[n + 1] \in 1 .. N + 1 /\ rest(n) \in Seq(Readable)
    OBVIOUS
  <2>1. n + 1 \in 1 .. C + 1
    OBVIOUS
  <2>2. starts[n + 1] \in 1 .. N + 1
    BY <1>1, <1>2, <2>1 DEF StartsOf
  <2> QED
    BY <1>1, <2>2, ReadsAreReadable
<1>4. NodeReads = rest(0) /\ NodeReads \in Seq(Readable)
  <2>1. starts[0 + 1] = 1 /\ 0 \in 0 .. C
    BY DEF Laid
  <2> QED
    BY <1>3, <2>1 DEF NodeReads
<1>5. 0 \in T
  <2>1. P(0)
    BY <1>4
  <2> HIDE DEF P
  <2> QED
    BY <2>1
<1>6. ASSUME NEW n \in Nat, n \in T PROVE n + 1 \in T
  <2> SUFFICES ASSUME n + 1 <= m PROVE P(n + 1)
    <3>1. n + 1 \in Nat
      OBVIOUS
    <3> HIDE DEF P
    <3> QED
      BY <3>1
  <2>1. n \in 0 .. C /\ n + 1 \in 0 .. C /\ n + 1 \in 1 .. C /\ n + 1 \in 1 .. m /\ n <= m
    BY <1>2
  <2>2. P(n)
    <3> HIDE DEF P
    <3> QED
      BY <1>6, <2>1
  <2> DEFINE R == rest(n + 1)
  <2>3. rest(n) = <<Frame(n + 1)>> \o R
    <3>1. Whole(starts, n + 1)
      BY <2>1
    <3> QED
      BY <1>2, <2>1, <3>1, ReadsWhole
  <2>4. R \in Seq(Readable) /\ Len(R) \in Nat
    <3>1. R \in Seq(Readable)
      BY <1>3, <2>1
    <3> QED
      BY <3>1
  <2> DEFINE r == rest(n)
  <2> HIDE DEF R, r
  <2>5. /\ Len(<<Frame(n + 1)>> \o R) = 1 + Len(R)
        /\ (<<Frame(n + 1)>> \o R)[1] = Frame(n + 1)
        /\ \A j \in 1 .. Len(R) : (<<Frame(n + 1)>> \o R)[1 + j] = R[j]
    BY <2>4
  <2>6. /\ Len(r) = 1 + Len(R) /\ r[1] = Frame(n + 1)
        /\ \A j \in 1 .. Len(R) : r[1 + j] = R[j]
    BY <2>3, <2>5 DEF r, R
  <2>7. /\ Len(NodeReads) = n + Len(r)
        /\ \A i \in 1 .. n : NodeReads[i] = Frame(i)
        /\ \A j \in 1 .. Len(r) : NodeReads[n + j] = r[j]
    BY <2>2 DEF r
  <2>8. Len(NodeReads) = n + 1 + Len(R)
    BY <2>4, <2>6, <2>7
  <2>9. ASSUME NEW i \in 1 .. n + 1 PROVE NodeReads[i] = Frame(i)
    <3>1. CASE i = n + 1
      <4>1. 1 \in 1 .. Len(r)
        BY <2>4, <2>6
      <4> QED
        BY <2>6, <2>7, <3>1, <4>1
    <3>2. CASE i # n + 1
      <4>1. i \in 1 .. n
        BY <3>2
      <4> QED
        BY <2>7, <4>1
    <3> QED
      BY <3>1, <3>2
  <2>10. ASSUME NEW j \in 1 .. Len(R) PROVE NodeReads[n + 1 + j] = R[j]
    <3>1. 1 + j \in 1 .. Len(r) /\ n + (1 + j) = n + 1 + j
      BY <2>4, <2>6
    <3> QED
      BY <2>6, <2>7, <3>1
  <2> QED
    BY <2>8, <2>9, <2>10 DEF R
<1> HIDE DEF T
<1>7. Nat \subseteq T
  BY <1>5, <1>6, SetInduction
<1>8. m \in Nat /\ m <= m /\ m \in 0 .. C
  BY <1>2
<1>9. P(m)
  <2> HIDE DEF P
  <2> QED
    BY <1>7, <1>8 DEF T
<1> QED
  BY <1>3, <1>4, <1>8, <1>9

(* The first failure is one: everything before it has succeeded. *)
LEMMA FirstFailureIs ==
    ASSUME IInv, Failed
    PROVE  /\ FirstFailure \in DOMAIN results /\ ~results[FirstFailure]
           /\ \A j \in 1 .. FirstFailure - 1 : results[j]
<1>1. DOMAIN results = 1 .. Len(results) /\ Len(results) \in Nat
  BY Facts DEF Basics
<1> DEFINE T == {i \in Nat : i \in DOMAIN results /\ ~results[i]}
<1>2. T # {}
  BY <1>1 DEF Failed
<1>3. PICK i \in T : \A j \in T : i <= j
  <2> HIDE DEF T
  <2>1. T \subseteq Nat
    BY DEF T
  <2> QED
    BY <1>2, <2>1, LeastElement
<1>4. ASSUME NEW j \in 1 .. i - 1 PROVE results[j]
  <2>1. j \in Nat /\ j < i /\ j \in DOMAIN results
    BY <1>1
  <2> QED
    BY <1>3, <2>1
<1>5. \E k \in DOMAIN results : ~results[k] /\ \A j \in 1 .. k - 1 : results[j]
  BY <1>4
<1> QED
  BY <1>5 DEF FirstFailure

(* A call that succeeded has been taken whole. *)
LEMMA SucceededIsWhole ==
    ASSUME IInv, NEW starts \in StartsOf, Laid(starts), NEW i \in DOMAIN results, results[i]
    PROVE  i \in 1 .. Current /\ Whole(starts, i)
<1>1. i \in 1 .. Current
  BY Facts DEF Basics
<1> QED
  BY <1>1 DEF Laid, Whole

(* Without a failure the node reads the whole calls and nothing else. *)
LEMMA ReadsAll ==
    ASSUME IInv, ~Failed, NEW i \in DOMAIN NodeReads
    PROVE  NodeReads[i] = Frame(i)
<1>1. PICK starts \in StartsOf :
         Laid(starts) /\ (sending => offset = starts[Current + 1] - starts[Current])
  BY DEF IInv, LaidOut
<1>2. PICK C \in Nat : C = Current
  BY Facts DEF Basics
<1>3. PICK N \in Nat : N = Len(stream)
  BY Facts DEF Basics
<1>4. DOMAIN results = 1 .. (IF sending THEN C - 1 ELSE C)
  BY <1>2, Facts DEF IInv, Basics
<1>5. \A j \in DOMAIN results : Whole(starts, j)
  BY <1>1, SucceededIsWhole DEF Failed
<1>6. starts[C + 1] = N + 1
  BY <1>1, <1>2, <1>3 DEF Laid
<1>7. CASE \A j \in 1 .. C : Whole(starts, j)
  <2>1. RequestsFrom[starts[C + 1]] = <<>>
    <3>1. N + 1 \in 1 .. N + 1
      OBVIOUS
    <3> QED
      BY <1>3, <1>6, <3>1, ReadsNothing
  <2>2. C \in 0 .. Current
    BY <1>2
  <2>3. /\ Len(NodeReads) = C + Len(RequestsFrom[starts[C + 1]])
        /\ \A j \in 1 .. C : NodeReads[j] = Frame(j)
        /\ DOMAIN NodeReads = 1 .. Len(NodeReads)
    BY <1>1, <1>2, <1>7, <2>2, ReadsInOrder
  <2> QED
    BY <2>1, <2>3
<1>8. CASE ~ \A j \in 1 .. C : Whole(starts, j)
  <2>1. sending /\ C > 0 /\ ~Whole(starts, C) /\ C \in 1 .. C
    <3>1. PICK j \in 1 .. C : ~Whole(starts, j)
      BY <1>8
    <3>2. sending
      BY <1>4, <1>5, <3>1
    <3>3. C > 0
      OBVIOUS
    <3>4. j = C
      <4> SUFFICES ASSUME j # C PROVE FALSE
        OBVIOUS
      <4>1. j \in 1 .. C - 1
        OBVIOUS
      <4> QED
        BY <1>4, <1>5, <3>1, <3>2, <4>1
    <3> QED
      BY <3>1, <3>2, <3>3, <3>4
  <2>2. PICK p \in 1 .. N + 1 : p = starts[C]
    BY <1>2, <1>3, <2>1, StartsAreNumbers
  <2>3. PICK size \in Nat : size = FrameSize(C)
    BY <1>2, <2>1, StartsAreNumbers
  <2>4. N + 1 - p < size
    <3>1. N + 1 - p <= size
      BY <1>1, <1>2, <1>6, <2>1, <2>2, <2>3 DEF Laid
    <3>2. N + 1 - p # size
      BY <1>6, <2>1, <2>2, <2>3 DEF Whole
    <3> QED
      BY <3>1, <3>2
  <2>5. RequestsFrom[starts[C - 1 + 1]] = <<>>
    <3>1. p = N + 1 \/ N + 1 - p < FrameSize(stream[p][1])
      <4> SUFFICES ASSUME p # N + 1 PROVE N + 1 - p < FrameSize(stream[p][1])
        OBVIOUS
      <4>1. 1 \in 1 .. starts[C + 1] - starts[C] /\ p + 1 - 1 = p
        BY <1>6, <2>2
      <4>2. stream[starts[C] + 1 - 1] = <<C, 1>>
        BY <1>1, <1>2, <2>1, <4>1 DEF Laid
      <4>3. stream[p][1] = C
        BY <2>2, <4>1, <4>2
      <4> QED
        BY <2>3, <2>4, <4>3
    <3>2. RequestsFrom[p] = <<>>
      BY <1>3, <3>1, ReadsNothing
    <3>3. C - 1 + 1 = C
      OBVIOUS
    <3> QED
      BY <2>2, <3>2, <3>3
  <2>6. PICK m \in 0 .. Current : m = C - 1
    BY <1>2, <2>1
  <2>7. \A j \in 1 .. m : Whole(starts, j)
    BY <1>4, <1>5, <2>1, <2>6
  <2>8. /\ Len(NodeReads) = m + Len(RequestsFrom[starts[m + 1]])
        /\ \A j \in 1 .. m : NodeReads[j] = Frame(j)
        /\ DOMAIN NodeReads = 1 .. Len(NodeReads)
    BY <1>1, <2>7, ReadsInOrder
  <2>9. Len(RequestsFrom[starts[m + 1]]) = 0 /\ m \in Nat
    BY <2>5, <2>6, <1>2
  <2> QED
    BY <2>8, <2>9
<1> QED
  BY <1>7, <1>8

(* Up to the first call that fails there is one request for every call, its very
   bytes, however many sends it took. *)
THEOREM CallsBecomeRequests == Spec => []OneRequestPerCall
<1>1. IInv => OneRequestPerCall
  <2> SUFFICES ASSUME IInv PROVE OneRequestPerCall
    OBVIOUS
  <2>1. PICK starts \in StartsOf : Laid(starts)
    BY DEF IInv, LaidOut
  <2>2. /\ DOMAIN results = 1 .. Len(results) /\ Len(results) \in Nat
        /\ Current \in Nat /\ Len(results) <= Current
    BY Facts DEF Basics
  <2>3. ASSUME NEW m \in 0 .. Len(results), \A j \in 1 .. m : results[j]
        PROVE  /\ 1 .. m \subseteq DOMAIN NodeReads
               /\ \A i \in 1 .. m : NodeReads[i] = Frame(i)
    <3>1. m \in 0 .. Current /\ m \in Nat /\ \A j \in 1 .. m : j \in DOMAIN results
      BY <2>2
    <3>2. \A j \in 1 .. m : Whole(starts, j)
      BY <2>1, <2>3, <3>1, SucceededIsWhole
    <3>3. /\ Len(NodeReads) = m + Len(RequestsFrom[starts[m + 1]])
          /\ Len(RequestsFrom[starts[m + 1]]) \in Nat
          /\ \A i \in 1 .. m : NodeReads[i] = Frame(i)
          /\ DOMAIN NodeReads = 1 .. Len(NodeReads)
      BY <2>1, <3>1, <3>2, ReadsInOrder
    <3> QED
      BY <3>1, <3>3
  <2>4. ASSUME NEW i \in DOMAIN NodeReads, Failed => i < FirstFailure
        PROVE  NodeReads[i] = Frame(i)
    <3>1. CASE ~Failed
      BY <3>1, ReadsAll
    <3>2. CASE Failed
      <4>1. PICK f \in DOMAIN results : f = FirstFailure /\ \A j \in 1 .. f - 1 : results[j]
        BY <3>2, FirstFailureIs
      <4>2. i < f
        BY <2>4, <3>2, <4>1
      <4>3. i \in Nat \ {0}
        <5>1. 1 \in 1 .. Len(stream) + 1
          BY Facts DEF Basics
        <5>2. NodeReads \in Seq(Readable)
          BY <5>1, ReadsAreReadable DEF NodeReads
        <5> QED
          BY <5>2
      <4>4. f - 1 \in 0 .. Len(results) /\ i \in 1 .. f - 1
        BY <2>2, <4>2, <4>3
      <4> QED
        BY <2>3, <4>1, <4>4
    <3> QED
      BY <3>1, <3>2
  <2>5. ASSUME NEW i \in DOMAIN results, \A j \in 1 .. i : results[j]
        PROVE  i \in DOMAIN NodeReads
    <3>1. i \in 0 .. Len(results) /\ i \in 1 .. i
      BY <2>2
    <3> QED
      BY <2>3, <2>5, <3>1
  <2> QED
    BY <2>4, <2>5 DEF OneRequestPerCall
<1> QED
  BY <1>1, InductiveInvariant, PTL

================================================================================
