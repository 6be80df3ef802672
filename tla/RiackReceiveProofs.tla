------------------------- MODULE RiackReceiveProofs -------------------------
(***************************************************************************)
(* Proofs about RiackReceive: whatever portions the bytes come in, a call  *)
(* that does not fail half way leaves the connection at the start of a     *)
(* frame, and what the calls hand up is MessageChannel, for bodies of any  *)
(* size and any number of messages.                                        *)
(***************************************************************************)
EXTENDS RiackReceive, TLAPS, SequenceTheorems, WellFoundedInduction

-----------------------------------------------------------------------------
(* Numbers and parts of sequences. *)

(* Induction over the natural numbers: the library states it for an operator,
   here the hypothesis is the set of the numbers that have the property. *)
LEMMA SetInduction ==
    ASSUME NEW T, 0 \in T, \A n \in Nat : n \in T => n + 1 \in T
    PROVE  Nat \subseteq T
<1> DEFINE R == Nat \ T
           Less == {pair \in Nat \X Nat : pair[1] < pair[2]}
<1> SUFFICES ASSUME R # {} PROVE FALSE
  OBVIOUS
<1>1. IsWellFoundedOn(Less, Nat)
  BY NatLessThanWellFounded DEF OpToRel
<1>2. PICK x \in R : \A y \in R : <<y, x>> \notin Less
  <2> HIDE DEF Less
  <2> QED
    BY <1>1, WFMin
<1>3. x \in Nat /\ x # 0
  OBVIOUS
<1>4. x - 1 \in Nat /\ <<x - 1, x>> \in Less
  BY <1>3
<1> QED
  BY <1>2, <1>3, <1>4

(* The bytes of s behind the first a, up to the b-th. *)
LEMMA Slice ==
    ASSUME NEW S, NEW s \in Seq(S), NEW a \in Nat, NEW b \in Nat, a <= b, b <= Len(s)
    PROVE  /\ SubSeq(s, a + 1, b) \in Seq(S)
           /\ Len(SubSeq(s, a + 1, b)) = b - a
           /\ \A j \in 1 .. b - a : SubSeq(s, a + 1, b)[j] = s[a + j]
<1>1. \A i \in a + 1 .. b : s[i] \in S
  OBVIOUS
<1>2. /\ SubSeq(s, a + 1, b) \in Seq(S)
      /\ Len(SubSeq(s, a + 1, b)) = IF a + 1 <= b THEN b - (a + 1) + 1 ELSE 0
      /\ \A i \in 1 .. b - (a + 1) + 1 : SubSeq(s, a + 1, b)[i] = s[a + 1 + i - 1]
  BY <1>1, SubSeqProperties
<1> QED
  BY <1>2

(* n numbers from f on. *)
Run(f, n) == [i \in 1 .. n |-> f + i - 1]

LEMMA RunIsSeq ==
    ASSUME NEW f \in Int, NEW n \in Nat
    PROVE  /\ Run(f, n) \in Seq(Int) /\ Len(Run(f, n)) = n
           /\ \A i \in 1 .. n : Run(f, n)[i] = f + i - 1
           /\ n = 0 => Run(f, n) = <<>>
BY DEF Run

LEMMA IsRun ==
    ASSUME NEW f \in Int, NEW n \in Nat, NEW S, NEW s \in Seq(S), Len(s) = n,
           \A i \in 1 .. n : s[i] = f + i - 1
    PROVE  s = Run(f, n)
<1>1. DOMAIN s = 1 .. n /\ s = [i \in DOMAIN s |-> s[i]]
  OBVIOUS
<1> QED
  BY <1>1 DEF Run

(* Its first k numbers, and those behind them. *)
LEMMA RunPart ==
    ASSUME NEW f \in Int, NEW n \in Nat, NEW k \in 0 .. n
    PROVE  /\ SubSeq(Run(f, n), 1, k) = Run(f, k)
           /\ SubSeq(Run(f, n), k + 1, n) = Run(f + k, n - k)
<1> DEFINE s == Run(f, n)
<1>1. s \in Seq(Int) /\ Len(s) = n /\ \A i \in 1 .. n : s[i] = f + i - 1
  BY RunIsSeq
<1> HIDE DEF s
<1>2. k \in Nat /\ k <= n /\ n - k \in Nat /\ f + k \in Int
  OBVIOUS
<1>3. SubSeq(s, 1, k) = Run(f, k)
  <2>1. /\ SubSeq(s, 0 + 1, k) \in Seq(Int) /\ Len(SubSeq(s, 0 + 1, k)) = k - 0
        /\ \A i \in 1 .. k - 0 : SubSeq(s, 0 + 1, k)[i] = s[0 + i]
    BY <1>1, <1>2, Slice
  <2>2. 0 + 1 = 1 /\ k - 0 = k /\ \A i \in 1 .. k : i \in 1 .. n /\ 0 + i = i
    BY <1>2
  <2>3. /\ SubSeq(s, 1, k) \in Seq(Int) /\ Len(SubSeq(s, 1, k)) = k
        /\ \A i \in 1 .. k : SubSeq(s, 1, k)[i] = f + i - 1
    BY <1>1, <2>1, <2>2
  <2> QED
    BY <1>2, <2>3, IsRun
<1>4. SubSeq(s, k + 1, n) = Run(f + k, n - k)
  <2>1. /\ SubSeq(s, k + 1, n) \in Seq(Int) /\ Len(SubSeq(s, k + 1, n)) = n - k
        /\ \A i \in 1 .. n - k : SubSeq(s, k + 1, n)[i] = s[k + i]
    BY <1>1, <1>2, Slice
  <2>2. \A i \in 1 .. n - k : k + i \in 1 .. n /\ f + (k + i) - 1 = (f + k) + i - 1
    BY <1>2
  <2>3. \A i \in 1 .. n - k : SubSeq(s, k + 1, n)[i] = (f + k) + i - 1
    BY <1>1, <2>1, <2>2
  <2> QED
    BY <1>2, <2>1, <2>3, IsRun
<1> QED
  BY <1>3, <1>4 DEF s

LEMMA RunHead ==
    ASSUME NEW f \in Int, NEW n \in Nat, n > 0
    PROVE  Run(f, n) # <<>> /\ Head(Run(f, n)) = f /\ Tail(Run(f, n)) = Run(f + 1, n - 1)
<1>1. /\ Run(f, n) \in Seq(Int) /\ Len(Run(f, n)) = n
      /\ \A i \in 1 .. n : Run(f, n)[i] = f + i - 1
  BY RunIsSeq
<1>2. 1 \in 1 .. n /\ f + 1 - 1 = f /\ 1 \in 0 .. n
  OBVIOUS
<1>3. Run(f, n)[1] = f /\ Run(f, n) # <<>>
  BY <1>1, <1>2
<1>4. Head(Run(f, n)) = Run(f, n)[1] /\ Tail(Run(f, n)) = SubSeq(Run(f, n), 1 + 1, n)
  <2>1. \A s \in Seq(Int) : s # <<>> => Head(s) = s[1] /\ Tail(s) = SubSeq(s, 1 + 1, Len(s))
    OBVIOUS
  <2> QED
    BY <1>1, <1>3, <2>1
<1>5. SubSeq(Run(f, n), 1 + 1, n) = Run(f + 1, n - 1)
  BY <1>2, RunPart
<1> QED
  BY <1>3, <1>4, <1>5

LEMMA RunAppend ==
    ASSUME NEW f \in Int, NEW n \in Nat, NEW m \in Int, m = f + n
    PROVE  Append(Run(f, n), m) = Run(f, n + 1)
<1> DEFINE s == Run(f, n)
<1>1. s \in Seq(Int) /\ Len(s) = n /\ \A i \in 1 .. n : s[i] = f + i - 1
  BY RunIsSeq
<1> HIDE DEF s
<1>2. /\ Append(s, m) \in Seq(Int) /\ Len(Append(s, m)) = n + 1
      /\ \A i \in 1 .. n : Append(s, m)[i] = s[i]
      /\ Append(s, m)[n + 1] = m
  BY <1>1, AppendProperties
<1>3. \A i \in 1 .. n + 1 : Append(s, m)[i] = f + i - 1
  <2> SUFFICES ASSUME NEW i \in 1 .. n + 1 PROVE Append(s, m)[i] = f + i - 1
    OBVIOUS
  <2>1. CASE i = n + 1
    BY <1>2, <2>1
  <2>2. CASE i # n + 1
    <3>1. i \in 1 .. n
      BY <2>2
    <3> QED
      BY <1>1, <1>2, <3>1
  <2> QED
    BY <2>1, <2>2
<1>4. n + 1 \in Nat
  OBVIOUS
<1> QED
  BY <1>2, <1>3, <1>4, IsRun DEF s

-----------------------------------------------------------------------------
(* Bytes in step.  z gives the body sizes of the frames. *)

Places(z) == (1 .. Len(z)) \X Nat
Size(z, b) == z[b[1]] + 5

(* From each byte on the rest of its frame follows, and behind it the next. *)
Chain(s, z) ==
    /\ \A j \in 1 .. Len(s) : 1 <= s[j][2] /\ s[j][2] <= Size(z, s[j])
    /\ \A j \in 1 .. Len(s), k \in 1 .. Len(s) :
          /\ j <= k /\ k - j <= Size(z, s[j]) - s[j][2] =>
                s[k][1] = s[j][1] /\ s[k][2] = s[j][2] + (k - j)
          /\ k - j = Size(z, s[j]) - s[j][2] + 1 => s[k][1] = s[j][1] + 1 /\ s[k][2] = 1

(* They start with message n, and end with the last that was sent. *)
StartsWith(s, n) == s # <<>> => s[1][1] = n /\ s[1][2] = 1
EndsWhole(s, z) == s # <<>> => s[Len(s)][1] = Len(z) /\ s[Len(s)][2] = Size(z, s[Len(s)])

LEMMA SizeIsNat ==
    ASSUME NEW z \in Seq(Nat), NEW b \in Places(z)
    PROVE  b[1] \in 1 .. Len(z) /\ b[2] \in Nat /\ Size(z, b) \in Nat /\ z[b[1]] \in Nat
BY DEF Places, Size

LEMMA WhatIsThere ==
    ASSUME NEW z \in Seq(Nat), NEW s \in Seq(Places(z)), NEW j \in 1 .. Len(s)
    PROVE  s[j] \in Places(z) /\ s[j][1] \in 1 .. Len(z) /\ s[j][2] \in Nat /\ Size(z, s[j]) \in Nat
BY SizeIsNat, ElementOfSeq

(* A part of the bytes is in step. *)
LEMMA PartChain ==
    ASSUME NEW z \in Seq(Nat), NEW s \in Seq(Places(z)), Chain(s, z),
           NEW t \in Seq(Places(z)), NEW m \in Nat,
           Len(t) + m <= Len(s), \A j \in 1 .. Len(t) : t[j] = s[j + m]
    PROVE  Chain(t, z)
<1>1. Len(s) \in Nat /\ Len(t) \in Nat
  OBVIOUS
<1>2. \A j \in 1 .. Len(t) : j + m \in 1 .. Len(s) /\ t[j] = s[j + m]
  BY <1>1
<1>3. \A j \in 1 .. Len(t) : 1 <= t[j][2] /\ t[j][2] <= Size(z, t[j])
  BY <1>2 DEF Chain
<1>4. ASSUME NEW j \in 1 .. Len(t), NEW k \in 1 .. Len(t)
      PROVE  /\ j <= k /\ k - j <= Size(z, t[j]) - t[j][2] =>
                   t[k][1] = t[j][1] /\ t[k][2] = t[j][2] + (k - j)
             /\ k - j = Size(z, t[j]) - t[j][2] + 1 => t[k][1] = t[j][1] + 1 /\ t[k][2] = 1
  <2>1. j + m \in 1 .. Len(s) /\ k + m \in 1 .. Len(s) /\ (k + m) - (j + m) = k - j
        /\ t[j] = s[j + m] /\ t[k] = s[k + m] /\ (j <= k => j + m <= k + m)
    <3>1. j + m \in 1 .. Len(s) /\ t[j] = s[j + m]
      BY <1>2
    <3>2. k + m \in 1 .. Len(s) /\ t[k] = s[k + m]
      BY <1>2
    <3>3. (k + m) - (j + m) = k - j /\ (j <= k => j + m <= k + m)
      BY <1>1
    <3> QED
      BY <3>1, <3>2, <3>3
  <2> QED
    BY <2>1 DEF Chain
<1> QED
  BY <1>3, <1>4 DEF Chain

(* Bytes in step up to the end of a frame, and one more frame. *)
LEMMA OneMoreFrame ==
    ASSUME NEW z \in Seq(Nat), NEW s \in Seq(Places(z)), Chain(s, z), EndsWhole(s, z),
           NEW n \in Nat, NEW z1 \in Seq(Nat), z1 = Append(z, n),
           NEW t \in Seq(Places(z1)), Len(t) = Len(s) + n + 5,
           \A j \in 1 .. Len(s) : t[j] = s[j],
           \A p \in 1 .. n + 5 : t[Len(s) + p] = <<Len(z) + 1, p>>
    PROVE  Chain(t, z1) /\ EndsWhole(t, z1)
<1> DEFINE L == Len(s)
<1>1. L \in Nat /\ Len(z) \in Nat /\ Len(t) \in Nat
  OBVIOUS
<1>2. \A j \in 1 .. L : /\ t[j] = s[j] /\ s[j] \in Places(z) /\ s[j][2] \in Nat
                        /\ Size(z1, s[j]) = Size(z, s[j]) /\ Size(z, s[j]) \in Nat
                        /\ 1 <= s[j][2] /\ s[j][2] <= Size(z, s[j])
  <2> SUFFICES ASSUME NEW j \in 1 .. L
               PROVE  /\ t[j] = s[j] /\ s[j] \in Places(z) /\ s[j][2] \in Nat
                      /\ Size(z1, s[j]) = Size(z, s[j]) /\ Size(z, s[j]) \in Nat
                      /\ 1 <= s[j][2] /\ s[j][2] <= Size(z, s[j])
    OBVIOUS
  <2>1. s[j] \in Places(z) /\ s[j][1] \in 1 .. Len(z) /\ s[j][2] \in Nat /\ Size(z, s[j]) \in Nat
    BY WhatIsThere
  <2>2. z1[s[j][1]] = z[s[j][1]]
    BY <2>1
  <2> QED
    BY <2>1, <2>2 DEF Size, Chain
<1>3. \A j \in L + 1 .. Len(t) : t[j] = <<Len(z) + 1, j - L>> /\ Size(z1, t[j]) = n + 5
  <2> SUFFICES ASSUME NEW j \in L + 1 .. Len(t)
               PROVE  t[j] = <<Len(z) + 1, j - L>> /\ Size(z1, t[j]) = n + 5
    OBVIOUS
  <2>1. j - L \in 1 .. n + 5 /\ L + (j - L) = j
    BY <1>1
  <2>2. t[j] = <<Len(z) + 1, j - L>>
    BY <2>1
  <2>3. z1[Len(z) + 1] = n
    BY <1>1
  <2> QED
    BY <2>2, <2>3 DEF Size
<1>4. ASSUME NEW j \in 1 .. L
      PROVE  /\ Size(z, s[j]) - s[j][2] <= L - j
             /\ Size(z, s[j]) - s[j][2] = L - j => s[j][1] = Len(z)
  <2>1. s[L][1] = Len(z) /\ s[L][2] = Size(z, s[L]) /\ L \in 1 .. L
    BY <1>1, <1>4 DEF EndsWhole
  <2>2. CASE L - j <= Size(z, s[j]) - s[j][2]
    <3>1. s[L][1] = s[j][1] /\ s[L][2] = s[j][2] + (L - j)
      BY <1>1, <1>4, <2>1, <2>2 DEF Chain
    <3>2. Size(z, s[L]) = Size(z, s[j])
      BY <3>1 DEF Size
    <3>3. s[j][2] \in Nat /\ Size(z, s[j]) \in Nat
      BY <1>2, <1>4
    <3>4. s[j][2] + (L - j) = Size(z, s[j])
      BY <2>1, <3>1, <3>2
    <3>5. Size(z, s[j]) - s[j][2] = L - j
      <4> HIDE DEF L
      <4> QED
        BY <1>1, <1>4, <3>3, <3>4
    <3>6. s[j][1] = Len(z)
      BY <2>1, <3>1
    <3>7. L - j \in Int
      BY <1>1, <1>4
    <3> QED
      BY <3>5, <3>6, <3>7
  <2>3. CASE ~(L - j <= Size(z, s[j]) - s[j][2])
    BY <1>1, <1>2, <2>3
  <2> QED
    BY <2>2, <2>3
<1>5. \A j \in 1 .. Len(t) : 1 <= t[j][2] /\ t[j][2] <= Size(z1, t[j])
  <2> SUFFICES ASSUME NEW j \in 1 .. Len(t) PROVE 1 <= t[j][2] /\ t[j][2] <= Size(z1, t[j])
    OBVIOUS
  <2>1. CASE j <= L
    BY <1>1, <1>2, <2>1
  <2>2. CASE j > L
    BY <1>1, <1>3, <2>2
  <2> QED
    BY <1>1, <2>1, <2>2
<1>6. ASSUME NEW j \in 1 .. Len(t), NEW k \in 1 .. Len(t)
      PROVE  /\ j <= k /\ k - j <= Size(z1, t[j]) - t[j][2] =>
                   t[k][1] = t[j][1] /\ t[k][2] = t[j][2] + (k - j)
             /\ k - j = Size(z1, t[j]) - t[j][2] + 1 => t[k][1] = t[j][1] + 1 /\ t[k][2] = 1
  <2>1. CASE j <= L /\ k <= L
    <3>1. j \in 1 .. L /\ k \in 1 .. L
      BY <1>1, <2>1
    <3>2. t[j] = s[j] /\ t[k] = s[k] /\ Size(z1, t[j]) = Size(z, s[j])
      BY <1>2, <3>1
    <3>3. /\ j <= k /\ k - j <= Size(z, s[j]) - s[j][2] =>
                s[k][1] = s[j][1] /\ s[k][2] = s[j][2] + (k - j)
          /\ k - j = Size(z, s[j]) - s[j][2] + 1 => s[k][1] = s[j][1] + 1 /\ s[k][2] = 1
      BY <3>1 DEF Chain
    <3> QED
      BY <3>2, <3>3
  <2>2. CASE j <= L /\ k > L
    <3>1. j \in 1 .. L /\ k \in L + 1 .. Len(t)
      BY <1>1, <2>2
    <3>2. /\ Size(z1, t[j]) - t[j][2] <= L - j /\ Size(z1, t[j]) - t[j][2] \in Int
          /\ Size(z1, t[j]) - t[j][2] = L - j => t[j][1] = Len(z)
      <4>1. t[j] = s[j] /\ Size(z1, t[j]) = Size(z, s[j]) /\ s[j][2] \in Nat /\ Size(z, s[j]) \in Nat
        BY <1>2, <3>1
      <4>2. Size(z, s[j]) - s[j][2] <= L - j /\ (Size(z, s[j]) - s[j][2] = L - j => s[j][1] = Len(z))
        BY <1>4, <3>1
      <4> QED
        BY <4>1, <4>2
    <3>3. ~(k - j <= Size(z1, t[j]) - t[j][2])
      BY <1>1, <3>1, <3>2
    <3>4. k - j = Size(z1, t[j]) - t[j][2] + 1 => k = L + 1 /\ Size(z1, t[j]) - t[j][2] = L - j
      <4> DEFINE rest == Size(z1, t[j]) - t[j][2]
      <4>1. rest \in Int /\ rest <= L - j /\ j \in Nat /\ k \in Nat /\ k >= L + 1
        BY <1>1, <3>1, <3>2
      <4> HIDE DEF rest, L
      <4>2. k - j = rest + 1 => k = L + 1 /\ rest = L - j
        BY <1>1, <4>1
      <4> QED
        BY <4>2 DEF rest
    <3>5. k = L + 1 => t[k][1] = Len(z) + 1 /\ t[k][2] = 1
      BY <1>1, <1>3, <3>1
    <3> QED
      BY <3>2, <3>3, <3>4, <3>5
  <2>3. CASE j > L
    <3>1. j \in L + 1 .. Len(t)
      BY <1>1, <2>3
    <3>2. t[j] = <<Len(z) + 1, j - L>> /\ Size(z1, t[j]) = n + 5
      BY <1>3, <3>1
    <3>3. k > L => t[k] = <<Len(z) + 1, k - L>>
      BY <1>1, <1>3
    <3>4. k <= Len(t) /\ Len(t) = L + n + 5
      OBVIOUS
    <3> HIDE DEF L
    <3> QED
      BY <1>1, <3>1, <3>2, <3>3, <3>4
  <2> QED
    BY <1>1, <2>1, <2>2, <2>3
<1>7. Chain(t, z1)
  BY <1>5, <1>6 DEF Chain
<1>8. EndsWhole(t, z1)
  <2>1. Len(t) \in L + 1 .. Len(t) /\ Len(t) - L = n + 5
    BY <1>1
  <2>2. t[Len(t)] = <<Len(z) + 1, n + 5>> /\ Size(z1, t[Len(t)]) = n + 5
    BY <1>3, <2>1
  <2>3. Len(z1) = Len(z) + 1
    OBVIOUS
  <2> QED
    BY <2>2, <2>3 DEF EndsWhole
<1> QED
  BY <1>7, <1>8

(* The first frame of bytes that start with one, and what follows it. *)
LEMMA FirstFrame ==
    ASSUME NEW z \in Seq(Nat), NEW s \in Seq(Places(z)), Chain(s, z),
           NEW n, StartsWith(s, n), s # <<>>
    PROVE  /\ n \in 1 .. Len(z) /\ z[n] \in Nat
           /\ \A j \in 1 .. Len(s) : j <= z[n] + 5 => s[j] = <<n, j>>
           /\ \A j \in 1 .. Len(s) : j = z[n] + 6 => s[j][1] = n + 1 /\ s[j][2] = 1
<1>1. Len(s) \in Nat /\ 1 \in 1 .. Len(s) /\ s[1][2] = 1 /\ s[1][1] = n
  BY DEF StartsWith
<1>2. s[1] \in Places(z) /\ n \in 1 .. Len(z) /\ z[n] \in Nat
  BY <1>1, WhatIsThere
<1>3. Size(z, s[1]) - s[1][2] = z[n] + 4
  BY <1>1, <1>2 DEF Size
<1>4. ASSUME NEW j \in 1 .. Len(s), j <= z[n] + 5 PROVE s[j] = <<n, j>>
  <2>1. 1 <= j /\ j - 1 <= Size(z, s[1]) - s[1][2]
    BY <1>2, <1>3, <1>4
  <2>2. s[j][1] = n /\ s[j][2] = s[1][2] + (j - 1)
    BY <1>1, <2>1 DEF Chain
  <2>3. s[j] = <<s[j][1], s[j][2]>>
    BY WhatIsThere DEF Places
  <2> QED
    BY <1>1, <2>2, <2>3
<1>5. ASSUME NEW j \in 1 .. Len(s), j = z[n] + 6 PROVE s[j][1] = n + 1 /\ s[j][2] = 1
  <2>1. j - 1 = Size(z, s[1]) - s[1][2] + 1
    BY <1>2, <1>3, <1>5
  <2> QED
    BY <1>1, <2>1 DEF Chain
<1> QED
  BY <1>2, <1>4, <1>5

LEMMA Joined ==
    ASSUME NEW S, NEW a \in Seq(S), NEW b \in Seq(S)
    PROVE  /\ a \o b \in Seq(S) /\ Len(a \o b) = Len(a) + Len(b)
           /\ Len(a) \in Nat /\ Len(b) \in Nat
           /\ \A j \in 1 .. Len(a) : (a \o b)[j] = a[j]
           /\ \A j \in 1 .. Len(b) : (a \o b)[j + Len(a)] = b[j]
OBVIOUS

(* What stands behind a part of the bytes is in step, and ends where they end. *)
LEMMA RestChain ==
    ASSUME NEW z \in Seq(Nat), NEW a \in Seq(Places(z)), NEW b \in Seq(Places(z)), Chain(a \o b, z)
    PROVE  Chain(b, z) /\ (EndsWhole(a \o b, z) => EndsWhole(b, z))
<1> DEFINE s == a \o b
           P == Places(z)
<1>0. a \in Seq(P) /\ b \in Seq(P)
  OBVIOUS
<1> HIDE DEF P
<1>1. /\ s \in Seq(P) /\ Len(s) = Len(a) + Len(b) /\ Len(a) \in Nat /\ Len(b) \in Nat
      /\ \A j \in 1 .. Len(b) : s[j + Len(a)] = b[j]
  BY <1>0, Joined
<1>2. s \in Seq(Places(z)) /\ Chain(s, z)
  BY <1>1 DEF P
<1> HIDE DEF s
<1>3. Chain(b, z)
  <2>1. Len(b) + Len(a) <= Len(s) /\ \A j \in 1 .. Len(b) : b[j] = s[j + Len(a)]
    BY <1>1
  <2> QED
    BY <1>1, <1>2, <2>1, PartChain
<1>4. ASSUME EndsWhole(s, z) PROVE EndsWhole(b, z)
  <2> SUFFICES ASSUME b # <<>> PROVE b[Len(b)][1] = Len(z) /\ b[Len(b)][2] = Size(z, b[Len(b)])
    BY DEF EndsWhole
  <2>1. Len(b) >= 1
    BY <1>0
  <2>2. Len(b) \in 1 .. Len(b) /\ Len(b) + Len(a) = Len(s) /\ s # <<>>
    BY <1>1, <2>1
  <2>3. s[Len(b) + Len(a)] = b[Len(b)]
    BY <1>1, <2>2
  <2> QED
    BY <1>4, <2>2, <2>3 DEF EndsWhole
<1> QED
  BY <1>3, <1>4 DEF s

(* Reading the first frame leaves the bytes at the start of the next. *)
LEMMA FrameTaken ==
    ASSUME NEW z \in Seq(Nat), NEW a \in Seq(Places(z)), NEW b \in Seq(Places(z)),
           Chain(a \o b, z), NEW n, StartsWith(a \o b, n), a # <<>>, Len(a) = z[n] + 5
    PROVE  /\ Chain(b, z) /\ StartsWith(b, n + 1)
           /\ EndsWhole(a \o b, z) => EndsWhole(b, z) /\ (b = <<>> => n = Len(z))
           /\ a = [position \in 1 .. z[n] + 5 |-> <<n, position>>]
<1> DEFINE s == a \o b
           P == Places(z)
<1>0. a \in Seq(P) /\ b \in Seq(P)
  OBVIOUS
<1>a. Chain(s, z) /\ StartsWith(s, n)
  OBVIOUS
<1> HIDE DEF P
<1>1. /\ s \in Seq(P) /\ Len(s) = Len(a) + Len(b) /\ Len(a) \in Nat /\ Len(b) \in Nat
      /\ \A j \in 1 .. Len(a) : s[j] = a[j]
      /\ \A j \in 1 .. Len(b) : s[j + Len(a)] = b[j]
  <2>1. s \in Seq(P)
    BY <1>0
  <2>2. Len(s) = Len(a) + Len(b) /\ Len(a) \in Nat /\ Len(b) \in Nat
    BY <1>0
  <2>3. \A j \in 1 .. Len(a) : s[j] = a[j]
    BY <1>0
  <2>4. \A j \in 1 .. Len(b) : s[j + Len(a)] = b[j]
    BY <1>0
  <2> QED
    BY <2>1, <2>2, <2>3, <2>4
<1>b. s \in Seq(Places(z))
  BY <1>1 DEF P
<1> HIDE DEF s
<1>2. s # <<>>
  BY <1>1
<1>3. /\ n \in 1 .. Len(z) /\ z[n] \in Nat
      /\ \A j \in 1 .. Len(s) : j <= z[n] + 5 => s[j] = <<n, j>>
      /\ \A j \in 1 .. Len(s) : j = z[n] + 6 => s[j][1] = n + 1 /\ s[j][2] = 1
  BY <1>a, <1>b, <1>2, FirstFrame
<1>4. Chain(b, z)
  <2>1. Len(b) + Len(a) <= Len(s) /\ \A j \in 1 .. Len(b) : b[j] = s[j + Len(a)]
    BY <1>1
  <2> QED
    BY <1>a, <1>b, <1>1, <2>1, PartChain
<1>5. StartsWith(b, n + 1)
  <2> SUFFICES ASSUME b # <<>> PROVE b[1][1] = n + 1 /\ b[1][2] = 1
    BY DEF StartsWith
  <2>0. Len(b) >= 1
    BY <1>0
  <2>1. 1 + Len(a) = z[n] + 6
    BY <1>1, <1>3
  <2>3. 1 \in 1 .. Len(b) /\ 1 + Len(a) \in 1 .. Len(s)
    BY <1>1, <2>0
  <2>2. s[1 + Len(a)] = b[1]
    BY <1>1, <2>3
  <2> QED
    BY <1>3, <2>1, <2>2, <2>3
<1>6. ASSUME EndsWhole(s, z) PROVE EndsWhole(b, z) /\ (b = <<>> => n = Len(z))
  <2>1. s[Len(s)][1] = Len(z) /\ s[Len(s)][2] = Size(z, s[Len(s)])
    BY <1>2, <1>6 DEF EndsWhole
  <2>2. CASE b = <<>>
    <3>1. Len(s) = z[n] + 5 /\ Len(s) \in 1 .. Len(s)
      BY <1>1, <1>3, <2>2
    <3>2. s[Len(s)] = <<n, Len(s)>>
      BY <1>3, <3>1
    <3> QED
      BY <2>1, <2>2, <3>2 DEF EndsWhole
  <2>3. CASE b # <<>>
    <3>0. Len(b) >= 1
      BY <1>0, <2>3
    <3>1. Len(b) \in 1 .. Len(b) /\ Len(b) + Len(a) = Len(s)
      BY <1>1, <3>0
    <3>2. s[Len(b) + Len(a)] = b[Len(b)]
      BY <1>1, <3>1
    <3> QED
      BY <2>1, <2>3, <3>1, <3>2 DEF EndsWhole
  <2> QED
    BY <2>2, <2>3
<1>7. a = [position \in 1 .. z[n] + 5 |-> <<n, position>>]
  <2>0. DOMAIN a = 1 .. Len(a) /\ Len(a) = z[n] + 5
    BY <1>0
  <2>1. \A j \in 1 .. z[n] + 5 : a[j] = <<n, j>>
    <3> SUFFICES ASSUME NEW j \in 1 .. Len(a) PROVE a[j] = <<n, j>>
      BY <2>0
    <3>1. j \in 1 .. Len(s) /\ j <= z[n] + 5
      BY <1>1, <1>3, <2>0
    <3>2. s[j] = a[j]
      BY <1>1
    <3> QED
      BY <1>3, <3>1, <3>2
  <2>2. a = [j \in DOMAIN a |-> a[j]]
    OBVIOUS
  <2> QED
    BY <2>0, <2>1, <2>2
<1> QED
  BY <1>4, <1>5, <1>6, <1>7 DEF s

(* b, then g, then s, as one. *)
Joint(b, g, s) == (b \o g) \o s

(* recv moves the first k bytes from the connection to what was read. *)
LEMMA Moved ==
    ASSUME NEW S, NEW b \in Seq(S), NEW g \in Seq(S), NEW s \in Seq(S), NEW k \in 0 .. Len(s)
    PROVE  /\ SubSeq(s, 1, k) \in Seq(S) /\ Len(SubSeq(s, 1, k)) = k
           /\ \A j \in 1 .. k : SubSeq(s, 1, k)[j] = s[j]
           /\ SubSeq(s, k + 1, Len(s)) \in Seq(S)
           /\ g \o SubSeq(s, 1, k) \in Seq(S) /\ Len(g \o SubSeq(s, 1, k)) = Len(g) + k
           /\ Joint(b, g \o SubSeq(s, 1, k), SubSeq(s, k + 1, Len(s))) = Joint(b, g, s)
<1> DEFINE u == SubSeq(s, 1, k)
           v == SubSeq(s, k + 1, Len(s))
<1>1. Len(s) \in Nat /\ k \in Nat /\ k <= Len(s)
  OBVIOUS
<1>2. \A i \in 1 .. k : s[i] \in S
  BY <1>1, ElementOfSeq
<1>3. \A i \in k + 1 .. Len(s) : s[i] \in S
  BY <1>1, ElementOfSeq
<1>4. u \in Seq(S) /\ Len(u) = (IF 1 <= k THEN k - 1 + 1 ELSE 0)
      /\ \A i \in 1 .. k - 1 + 1 : u[i] = s[1 + i - 1]
  BY <1>1, <1>2, SubSeqProperties
<1>5. v \in Seq(S)
  BY <1>1, <1>3, SubSeqProperties
<1>6. u \o v = s
  <2>1. u \o v = SubSeq(s, 1, Len(s))
    <3>1. 1 \in 1 .. Len(s) + 1 /\ k \in 1 - 1 .. Len(s) /\ Len(s) \in k .. Len(s)
      BY <1>1
    <3> QED
      BY ONLY <3>1, ConcatAdjacentSubSeq, s \in Seq(S)
  <2> QED
    BY <2>1, SubSeqFull
<1>7. Len(u) = k /\ \A j \in 1 .. k : u[j] = s[j]
  BY <1>1, <1>4
<1> HIDE DEF u, v
<1>8. g \o u \in Seq(S) /\ Len(g \o u) = Len(g) + k
  BY <1>4, <1>7, ConcatProperties
<1>9. (b \o (g \o u)) \o v = (b \o g) \o s
  <2>1. (b \o (g \o u)) \o v = (b \o g) \o (u \o v)
    <3>1. b \in Seq(S) /\ g \in Seq(S) /\ u \in Seq(S) /\ v \in Seq(S)
      BY <1>4, <1>5
    <3>2. \A x \in Seq(S), y \in Seq(S) : (b \o (g \o x)) \o y = (b \o g) \o (x \o y)
      OBVIOUS
    <3> QED
      BY ONLY <3>1, <3>2, Zenon
  <2> QED
    BY <1>6, <2>1
<1> QED
  BY <1>4, <1>5, <1>7, <1>8, <1>9 DEF u, v, Joint

LEMMA PlacesGrow ==
    ASSUME NEW z \in Seq(Nat), NEW n \in Nat
    PROVE  /\ Append(z, n) \in Seq(Nat) /\ Len(Append(z, n)) = Len(z) + 1
           /\ \A i \in 1 .. Len(z) : Append(z, n)[i] = z[i]
           /\ Append(z, n)[Len(z) + 1] = n
           /\ Places(z) \subseteq Places(Append(z, n))
BY AppendProperties DEF Places

LEMMA PlacesAreBytes ==
    ASSUME NEW z \in Seq(Nat), Len(z) <= MaxMessages, NEW s \in Seq(Places(z))
    PROVE  s \in Seq(Bytes)
<1>1. Places(z) \subseteq Bytes
  BY SizeAssumption DEF Places, Bytes
<1> QED
  BY <1>1, SeqMonotonic

-----------------------------------------------------------------------------
(* The invariants.  What is read stands before what is under way. *)

Typed ==
    /\ TypeOK
    /\ Len(sizes) <= MaxMessages
    /\ stream \in Seq(Places(sizes))
    /\ before \in Seq(Places(sizes))
    /\ got \in Seq(Places(sizes))
    /\ stage = "idle" => before = <<>> /\ got = <<>>
    /\ stage = "length" => before = <<>>
    /\ stage = "code" => Len(before) = LengthBytes

(* The call is where the bytes say it is. *)
AtItsPlace ==
    /\ stage = "body" =>
          /\ Len(before) = LengthBytes + CodeBytes
          /\ Len(returned) < Len(sizes)
          /\ msgLen = sizes[Len(returned) + 1]

FramesReturned == Len(returned) <= Len(sizes) /\ \A i \in 1 .. Len(returned) : returned[i] = Frame(i)

(* In step or not, the bytes still to be taken are a part of those that were sent. *)
Whole == Chain(Line, sizes) /\ (~closed => EndsWhole(Line, sizes))

InStep ==
    ~torn =>
        /\ StartsWith(Line, Len(returned) + 1)
        /\ ~closed /\ Line = <<>> => Len(returned) = Len(sizes)
        /\ AtItsPlace
        /\ FramesReturned

SafeInv == Typed /\ Whole /\ InStep

LEMMA SizesAreNat ==
    ASSUME sizes \in Seq(BodySizes)
    PROVE  sizes \in Seq(Nat)
BY SizeAssumption, SeqMonotonic

LEMMA LengthIsWord == ASSUME NEW length \in Int PROVE BodyLength(length) \in 0 .. Modulus - 1
BY SizeAssumption DEF BodyLength

LEMMA GoneIsTyped == ASSUME Typed, GoneIdle, UNCHANGED sizes
    PROVE /\ stage' = "idle" /\ before' = <<>> /\ got' = <<>> /\ msgLen' \in 0 .. Modulus - 1
          /\ before' \in Seq(Places(sizes)) /\ got' \in Seq(Places(sizes))
          /\ before' \in Seq(Bytes) /\ got' \in Seq(Bytes)
BY SizeAssumption, EmptySeq DEF GoneIdle

LEMMA ReadIsTyped ==
    ASSUME Typed
    PROVE  /\ ReadSoFar \in Seq(Places(sizes)) /\ ReadSoFar \in Seq(Bytes)
           /\ Len(ReadSoFar) = Len(before) + Len(got)
           /\ Len(before) \in Nat /\ Len(got) \in Nat /\ sizes \in Seq(Nat)
<1>1. sizes \in Seq(Nat) /\ Len(sizes) <= MaxMessages
  BY SizesAreNat DEF Typed, TypeOK
<1>2. ReadSoFar \in Seq(Places(sizes)) /\ Len(ReadSoFar) = Len(before) + Len(got)
  BY ConcatProperties DEF Typed, ReadSoFar
<1>3. Len(before) \in Nat /\ Len(got) \in Nat
  BY LenProperties DEF Typed
<1> QED
  BY <1>1, <1>2, <1>3, PlacesAreBytes

LEMMA TypedInit == Init => Typed
<1> SUFFICES ASSUME Init PROVE Typed
  OBVIOUS
<1>1. \A S : <<>> \in Seq(S)
  BY EmptySeq
<1>2. TypeOK
  <2>1. 0 \in 0 .. Modulus - 1
    BY SizeAssumption
  <2>2. sizes \in Seq(BodySizes) /\ stream \in Seq(Bytes) /\ before \in Seq(Bytes)
        /\ got \in Seq(Bytes) /\ returned \in Seq(Seq(Bytes))
    <3> HIDE DEF Bytes
    <3> QED
      BY <1>1 DEF Init
  <2> QED
    BY <2>1, <2>2 DEF Init, TypeOK
<1>3. Len(sizes) <= MaxMessages
  BY SizeAssumption DEF Init
<1> QED
  BY <1>1, <1>2, <1>3 DEF Init, Typed

LEMMA TypedPost == ASSUME Typed, Post PROVE Typed'
<1>1. PICK size \in BodySizes : sizes' = Append(sizes, size)
  BY DEF Post
<1>2. sizes \in Seq(Nat) /\ size \in Nat /\ sizes \in Seq(BodySizes) /\ Len(sizes) \in Nat
  BY <1>1, SizeAssumption, SizesAreNat DEF Typed, TypeOK
<1>3. sizes' \in Seq(BodySizes) /\ sizes' \in Seq(Nat) /\ Len(sizes') = Len(sizes) + 1
  BY <1>1, <1>2, AppendProperties
<1>4. Len(sizes') <= MaxMessages
  BY <1>2, <1>3, SizeAssumption DEF Post
<1>5. Places(sizes) \subseteq Places(sizes')
  BY <1>1, <1>2, PlacesGrow
<1>6. stream \in Seq(Places(sizes')) /\ before \in Seq(Places(sizes')) /\ got \in Seq(Places(sizes'))
  BY <1>5, SeqMonotonic DEF Typed
<1>7. Frame(Len(sizes))' \in Seq(Places(sizes'))
  <2>1. FrameSize(Len(sizes))' \in Nat
    <3>1. sizes'[Len(sizes')] \in Nat
      BY <1>2, <1>3
    <3> QED
      BY <3>1 DEF FrameSize, LengthBytes, CodeBytes
  <2>2. \A p \in 1 .. FrameSize(Len(sizes))' : <<Len(sizes'), p>> \in Places(sizes')
    BY <1>2, <1>3, <2>1 DEF Places
  <2> QED
    BY <2>1, <2>2 DEF Frame
<1>8. stream' \in Seq(Places(sizes'))
  BY <1>6, <1>7, ConcatProperties DEF Post
<1>9. UNCHANGED <<closed, stage, before, got, msgLen, returned, failed, torn>>
  BY DEF Post, callVars
<1>10. stream' \in Seq(Bytes)
  BY <1>3, <1>4, <1>8, PlacesAreBytes
<1>11. TypeOK'
  BY <1>3, <1>9, <1>10 DEF Typed, TypeOK
<1> QED
  BY <1>4, <1>6, <1>8, <1>9, <1>11 DEF Typed

LEMMA TypedClose == ASSUME Typed, Close PROVE Typed'
<1>1. PICK k \in 0 .. Len(stream) : stream' = SubSeq(stream, 1, k)
  BY DEF Close
<1>2. stream' \in Seq(Places(sizes))
  BY <1>1, Moved DEF Typed
<1>3. sizes \in Seq(Nat) /\ Len(sizes) <= MaxMessages
  BY SizesAreNat DEF Typed, TypeOK
<1>4. stream' \in Seq(Bytes)
  BY <1>2, <1>3, PlacesAreBytes
<1>5. UNCHANGED <<sizes, stage, before, got, msgLen, returned, failed, torn>> /\ closed' = TRUE
  BY DEF Close, callVars
<1>6. TypeOK'
  BY <1>4, <1>5 DEF Typed, TypeOK
<1> QED
  BY <1>2, <1>5, <1>6 DEF Typed

LEMMA TypedRecv == ASSUME Typed, Recv PROVE Typed'
<1>1. PICK k \in 1 .. Wanted - Len(got) :
          /\ k <= Len(stream)
          /\ got' = got \o SubSeq(stream, 1, k)
          /\ stream' = SubSeq(stream, k + 1, Len(stream))
  BY DEF Recv
<1>2. k \in 0 .. Len(stream)
  BY <1>1 DEF Typed
<1>3. got' \in Seq(Places(sizes)) /\ stream' \in Seq(Places(sizes))
  BY <1>1, <1>2, Moved DEF Typed
<1>4. sizes \in Seq(Nat) /\ Len(sizes) <= MaxMessages
  BY SizesAreNat DEF Typed, TypeOK
<1>5. got' \in Seq(Bytes) /\ stream' \in Seq(Bytes)
  BY <1>3, <1>4, PlacesAreBytes
<1>6. UNCHANGED <<sizes, closed, stage, before, msgLen, returned, failed, torn>> /\ stage # "idle"
  BY DEF Recv, nodeVars
<1>7. TypeOK'
  BY <1>5, <1>6 DEF Typed, TypeOK
<1> QED
  BY <1>3, <1>6, <1>7 DEF Typed

LEMMA TypedDeliver ==
    ASSUME Typed, NEW bodyLength, Deliver(bodyLength), UNCHANGED <<nodeVars, stream>>
    PROVE  Typed'
<1>1. UNCHANGED <<sizes, closed, stream, torn>> /\ GoneIdle
  BY DEF Deliver, nodeVars
<1>2. /\ stage' = "idle" /\ before' = <<>> /\ got' = <<>> /\ msgLen' \in 0 .. Modulus - 1
      /\ before' \in Seq(Places(sizes)) /\ got' \in Seq(Places(sizes))
      /\ before' \in Seq(Bytes) /\ got' \in Seq(Bytes)
  BY <1>1, GoneIsTyped
<1>3. returned' \in Seq(Seq(Bytes))
  <2>1. Append(returned, ReadSoFar) \in Seq(Seq(Bytes))
    BY ReadIsTyped, AppendProperties DEF Typed, TypeOK
  <2> QED
    BY <2>1 DEF Deliver, Typed, TypeOK
<1>4. failed' \in BOOLEAN
  BY DEF Deliver, Typed, TypeOK
<1>5. TypeOK'
  BY <1>1, <1>2, <1>3, <1>4 DEF Typed, TypeOK
<1> QED
  BY <1>1, <1>2, <1>5 DEF Typed

LEMMA TypedFail ==
    ASSUME Typed, Fail, UNCHANGED <<nodeVars, stream>>
    PROVE  Typed'
<1>1. UNCHANGED <<sizes, closed, stream, returned>> /\ GoneIdle /\ failed' = TRUE
  BY DEF Fail, nodeVars
<1>2. /\ stage' = "idle" /\ before' = <<>> /\ got' = <<>> /\ msgLen' \in 0 .. Modulus - 1
      /\ before' \in Seq(Places(sizes)) /\ got' \in Seq(Places(sizes))
      /\ before' \in Seq(Bytes) /\ got' \in Seq(Bytes)
  BY <1>1, GoneIsTyped
<1>3. torn' \in BOOLEAN
  BY DEF Fail, Typed, TypeOK
<1>4. TypeOK'
  BY <1>1, <1>2, <1>3 DEF Typed, TypeOK
<1> QED
  BY <1>1, <1>2, <1>4 DEF Typed

LEMMA LengthsAreInt == ASSUME Typed, stage = "code", NEW length \in Lengths(before) PROVE length \in Int
<1>1. CASE length \in GarbageLengths
  BY <1>1, SizeAssumption
<1>2. CASE length = FrameSize(before[1][1]) - LengthBytes
  <2>1. sizes \in Seq(Nat) /\ before \in Seq(Places(sizes)) /\ 1 \in 1 .. Len(before)
    <3>1. sizes \in Seq(Nat) /\ before \in Seq(Places(sizes))
      BY SizesAreNat DEF Typed, TypeOK
    <3>2. Len(before) = 4
      BY DEF Typed, LengthBytes
    <3> QED
      BY <3>1, <3>2
  <2>2. sizes[before[1][1]] \in Nat
    BY <2>1, WhatIsThere DEF Places
  <2> QED
    BY <1>2, <2>2 DEF FrameSize, LengthBytes, CodeBytes
<1> QED
  BY <1>1, <1>2 DEF Lengths

LEMMA TypedNext == ASSUME Typed, [Next]_vars PROVE Typed'
<1>1. CASE Post
  BY <1>1, TypedPost
<1>2. CASE Close
  BY <1>2, TypedClose
<1>3. CASE Begin
  <2>1. /\ UNCHANGED <<sizes, closed, stream, returned, failed, torn>>
        /\ stage' = "length" /\ before' = <<>> /\ got' = <<>> /\ msgLen' = 0
    BY <1>3 DEF Begin, nodeVars
  <2>2. <<>> \in Seq(Places(sizes)) /\ <<>> \in Seq(Bytes)
    BY EmptySeq
  <2>3. TypeOK'
    BY <2>1, <2>2, SizeAssumption DEF Typed, TypeOK
  <2> QED
    BY <2>1, <2>2, <2>3 DEF Typed
<1>4. CASE Recv
  BY <1>4, TypedRecv
<1>5. CASE LengthRead
  <2>1. /\ UNCHANGED <<sizes, closed, stream, returned, failed, torn, msgLen>>
        /\ stage' = "code" /\ before' = ReadSoFar /\ got' = <<>>
        /\ stage = "length" /\ Len(got) = LengthBytes
    BY <1>5 DEF LengthRead, NextStage, nodeVars
  <2>2. <<>> \in Seq(Places(sizes)) /\ <<>> \in Seq(Bytes)
    BY EmptySeq
  <2>3. before' \in Seq(Places(sizes)) /\ before' \in Seq(Bytes)
    BY <2>1, ReadIsTyped
  <2>4. Len(before') = LengthBytes
    <3>1. before = <<>>
      BY <2>1 DEF Typed
    <3>2. Len(before') = 0 + Len(got)
      BY <2>1, <3>1, ReadIsTyped
    <3> QED
      BY <2>1, <3>2 DEF LengthBytes
  <2>5. TypeOK'
    BY <2>1, <2>2, <2>3 DEF Typed, TypeOK
  <2> QED
    BY <2>1, <2>2, <2>3, <2>4, <2>5 DEF Typed
<1>6. CASE CodeRead
  <2>1. PICK length \in Lengths(before) :
          IF BodyLength(length) > 0
          THEN /\ msgLen' = BodyLength(length)
               /\ NextStage("body")
               /\ UNCHANGED <<returned, failed, torn>>
          ELSE Deliver(0)
    BY <1>6 DEF CodeRead
  <2>2. UNCHANGED <<nodeVars, stream>>
    BY <1>6 DEF CodeRead
  <2>3. CASE ~(BodyLength(length) > 0)
    BY <2>1, <2>2, <2>3, TypedDeliver
  <2>4. CASE BodyLength(length) > 0
    <3>1. /\ UNCHANGED <<sizes, closed, stream, returned, failed, torn>>
          /\ stage' = "body" /\ before' = ReadSoFar /\ got' = <<>> /\ msgLen' = BodyLength(length)
      BY <2>1, <2>2, <2>4 DEF NextStage, nodeVars
    <3>2. <<>> \in Seq(Places(sizes)) /\ <<>> \in Seq(Bytes)
      BY EmptySeq
    <3>3. before' \in Seq(Places(sizes)) /\ before' \in Seq(Bytes)
      BY <3>1, ReadIsTyped
    <3>4. msgLen' \in 0 .. Modulus - 1
      <4>1. length \in Int
        BY <1>6, LengthsAreInt DEF CodeRead
      <4> QED
        BY <3>1, <4>1, LengthIsWord
    <3>5. TypeOK'
      BY <3>1, <3>2, <3>3, <3>4 DEF Typed, TypeOK
    <3> QED
      BY <3>1, <3>2, <3>3, <3>5 DEF Typed
  <2> QED
    BY <2>3, <2>4
<1>7. CASE BodyRead
  BY <1>7, TypedDeliver, TypedFail DEF BodyRead
<1>8. CASE TimesOut
  BY <1>8, TypedFail DEF TimesOut
<1>9. CASE Ends
  BY <1>9, TypedFail DEF Ends
<1>10. CASE UNCHANGED vars
  BY <1>10 DEF vars, nodeVars, callVars, Typed, TypeOK
<1> QED
  BY <1>1, <1>2, <1>3, <1>4, <1>5, <1>6, <1>7, <1>8, <1>9, <1>10 DEF Next

(* The invariant of the types, with the places the bytes come from. *)
THEOREM ReadsTyped == Spec => []Typed
BY TypedInit, TypedNext, PTL DEF Spec

(* What is received has its type: lengths fit their word, whatever four bytes
   are taken for one (riack_msg.c:73-77). *)
THEOREM TypeCorrect == Spec => []TypeOK
<1>1. Typed => TypeOK
  BY DEF Typed
<1> QED
  BY <1>1, ReadsTyped, PTL

-----------------------------------------------------------------------------
(* In step. *)

LEMMA LineIsTyped ==
    ASSUME Typed
    PROVE  Line \in Seq(Places(sizes)) /\ Len(Line) = Len(ReadSoFar) + Len(stream) /\ sizes \in Seq(Nat)
           /\ Len(sizes) \in Nat /\ Len(returned) \in Nat
<1>1. ReadSoFar \in Seq(Places(sizes)) /\ stream \in Seq(Places(sizes)) /\ sizes \in Seq(Nat)
  BY ReadIsTyped DEF Typed
<1>2. Len(returned) \in Nat
  <2>1. returned \in Seq(Seq(Bytes))
    BY DEF Typed, TypeOK
  <2> QED
    BY <2>1, LenProperties
<1> QED
  BY <1>1, <1>2, ConcatProperties DEF Line

(* A step that takes nothing away and adds nothing. *)
LEMMA SameLine ==
    ASSUME SafeInv, Line' = Line, UNCHANGED <<sizes, closed, returned, torn>>, ~torn => AtItsPlace'
    PROVE  Whole' /\ InStep'
<1>1. FramesReturned => FramesReturned'
  BY DEF FramesReturned, Frame, FrameSize
<1>2. Whole'
  BY DEF SafeInv, Whole
<1> QED
  BY <1>1, <1>2 DEF SafeInv, InStep

(* A call ends: what it has read is gone from the line. *)
LEMMA ReadIsDropped ==
    ASSUME SafeInv, GoneIdle, UNCHANGED <<nodeVars, stream>>
    PROVE  Line' = stream /\ Whole'
<1>1. ReadSoFar \in Seq(Places(sizes)) /\ stream \in Seq(Places(sizes)) /\ sizes \in Seq(Nat)
  BY ReadIsTyped DEF SafeInv, Typed
<1>2. UNCHANGED <<sizes, closed, stream>> /\ before' = <<>> /\ got' = <<>>
  BY DEF GoneIdle, nodeVars
<1>3. Line' = stream
  <2>1. ReadSoFar' = <<>>
    BY <1>2 DEF ReadSoFar
  <2> QED
    BY <1>1, <1>2, <2>1 DEF Line
<1>4. Chain(ReadSoFar \o stream, sizes) /\ (~closed => EndsWhole(ReadSoFar \o stream, sizes))
  BY DEF SafeInv, Whole, Line
<1>5. Chain(stream, sizes) /\ (~closed => EndsWhole(stream, sizes))
  <2> HIDE DEF ReadSoFar
  <2> QED
    BY <1>1, <1>4, RestChain
<1> QED
  BY <1>2, <1>3, <1>5 DEF Whole

(* A failure before the first byte leaves the call in step; after it, no more is said. *)
LEMMA FailInStep ==
    ASSUME SafeInv, Fail, UNCHANGED <<nodeVars, stream>>
    PROVE  InStep'
<1> SUFFICES ASSUME ~torn' PROVE InStep'
  BY DEF InStep
<1>1. ~torn /\ ReadSoFar = <<>> /\ torn' = torn
  BY DEF Fail, SafeInv, Typed, TypeOK
<1>2. UNCHANGED <<sizes, closed, stream, returned>> /\ stage' = "idle" /\ before' = <<>> /\ got' = <<>>
  BY DEF Fail, GoneIdle, nodeVars
<1>3. ReadSoFar' = <<>>
  BY <1>2 DEF ReadSoFar
<1>4. Line' = Line
  BY <1>1, <1>2, <1>3 DEF Line
<1>5. AtItsPlace'
  BY <1>2 DEF AtItsPlace
<1> QED
  BY <1>1, <1>2, <1>4, <1>5, SameLine

(* A whole frame is handed up: it was the next, and the one after it is first now. *)
LEMMA DeliverInStep ==
    ASSUME SafeInv, NEW n, n = Len(returned) + 1, ~torn, ReadSoFar # <<>>, n \in 1 .. Len(sizes),
           Len(ReadSoFar) = sizes[n] + 5, Deliver(sizes[n]), UNCHANGED <<nodeVars, stream>>
    PROVE  InStep'
<1> DEFINE z == sizes
           r == ReadSoFar
<1>1. z \in Seq(Nat) /\ r \in Seq(Places(z)) /\ stream \in Seq(Places(z)) /\ Len(returned) \in Nat
  BY ReadIsTyped, LineIsTyped DEF SafeInv, Typed
<1>2. Chain(r \o stream, z) /\ StartsWith(r \o stream, n) /\ AtItsPlace /\ FramesReturned
      /\ (~closed => EndsWhole(r \o stream, z))
  BY DEF SafeInv, Whole, InStep, Line
<1>3. /\ Chain(stream, z) /\ StartsWith(stream, n + 1)
      /\ EndsWhole(r \o stream, z) => EndsWhole(stream, z) /\ (stream = <<>> => n = Len(z))
      /\ r = [position \in 1 .. z[n] + 5 |-> <<n, position>>]
  <2> HIDE DEF z, r
  <2>1. r # <<>> /\ Len(r) = z[n] + 5
    BY DEF z, r
  <2> QED
    BY <1>1, <1>2, <2>1, FrameTaken
<1>4. UNCHANGED <<sizes, closed, stream, torn>> /\ stage' = "idle" /\ before' = <<>> /\ got' = <<>>
  BY DEF Deliver, GoneIdle, nodeVars
<1>5. Line' = stream
  <2>1. ReadSoFar' = <<>>
    BY <1>4 DEF ReadSoFar
  <2> QED
    BY <1>1, <1>4, <2>1 DEF Line
<1>6. returned' = Append(returned, r)
  <2>1. sizes[n] \in BodySizes
    BY DEF SafeInv, Typed, TypeOK
  <2>2. ReturnValue(sizes[n]) > 0
    BY <2>1, SizeAssumption
  <2> QED
    BY <2>2 DEF Deliver
<1>7. Len(returned') = n /\ returned'[n] = r /\ \A i \in 1 .. n - 1 : returned'[i] = returned[i]
  <2>1. returned \in Seq(Seq(Bytes)) /\ r \in Seq(Bytes)
    BY ReadIsTyped DEF SafeInv, Typed, TypeOK
  <2> HIDE DEF r
  <2> QED
    BY <1>1, <1>6, <2>1, AppendProperties
<1>8. r = Frame(n)
  BY <1>1, <1>3 DEF Frame, FrameSize, LengthBytes, CodeBytes
<1>9. FramesReturned'
  <2>1. \A i \in 1 .. n : Frame(i)' = Frame(i)
    BY <1>4 DEF Frame, FrameSize
  <2>2. \A i \in 1 .. n : returned'[i] = Frame(i)
    <3> SUFFICES ASSUME NEW i \in 1 .. n PROVE returned'[i] = Frame(i)
      OBVIOUS
    <3>1. CASE i = n
      BY <1>7, <1>8, <3>1
    <3>2. CASE i # n
      <4>1. i \in 1 .. n - 1 /\ i \in 1 .. Len(returned)
        BY <1>1, <3>2
      <4>2. returned[i] = Frame(i)
        BY <1>2, <4>1 DEF FramesReturned
      <4> QED
        BY <1>7, <4>1, <4>2
    <3> QED
      BY <3>1, <3>2
  <2>3. Len(returned') <= Len(sizes')
    BY <1>1, <1>4, <1>7
  <2> QED
    BY <1>7, <2>1, <2>2, <2>3 DEF FramesReturned
<1>10. AtItsPlace'
  BY <1>4 DEF AtItsPlace
<1>11. StartsWith(Line', Len(returned') + 1)
       /\ (~closed' /\ Line' = <<>> => Len(returned') = Len(sizes'))
  BY <1>2, <1>3, <1>4, <1>5, <1>7
<1> QED
  BY <1>9, <1>10, <1>11 DEF InStep

(* Closing cuts the line off. *)
LEMMA CloseLine ==
    ASSUME Typed, Close, Chain(Line, sizes)
    PROVE  /\ Line' \in Seq(Places(sizes)) /\ Len(Line') <= Len(Line) /\ Chain(Line', sizes)
           /\ \A j \in 1 .. Len(Line') : Line'[j] = Line[j]
<1>1. PICK k \in 0 .. Len(stream) : stream' = SubSeq(stream, 1, k)
  BY DEF Close
<1>2. UNCHANGED <<sizes, stage, before, got, msgLen, returned, torn>> /\ closed' = TRUE
  BY DEF Close, callVars
<1>3. ReadSoFar \in Seq(Places(sizes)) /\ stream \in Seq(Places(sizes)) /\ sizes \in Seq(Nat)
  BY ReadIsTyped DEF Typed
<1>4. /\ stream' \in Seq(Places(sizes)) /\ Len(stream') = k
      /\ \A j \in 1 .. k : stream'[j] = stream[j]
  BY <1>1, <1>3, Moved
<1> DEFINE t == ReadSoFar \o stream'
<1>5. Line' = t
  BY <1>2 DEF Line, ReadSoFar
<1>6. t \in Seq(Places(sizes)) /\ Len(t) = Len(ReadSoFar) + k /\ Len(t) <= Len(Line)
  <2>1. t \in Seq(Places(sizes)) /\ Len(t) = Len(ReadSoFar) + Len(stream')
    BY <1>3, <1>4, ConcatProperties
  <2>2. Len(Line) = Len(ReadSoFar) + Len(stream)
    BY LineIsTyped
  <2>3. Len(ReadSoFar) \in Nat /\ Len(stream) \in Nat /\ k \in Nat /\ k <= Len(stream)
    BY <1>3
  <2> HIDE DEF t
  <2> QED
    BY <1>4, <2>1, <2>2, <2>3
<1>7. \A j \in 1 .. Len(t) : t[j] = Line[j]
  <2>1. \A j \in 1 .. Len(ReadSoFar) + k : t[j] = IF j <= Len(ReadSoFar) THEN ReadSoFar[j] ELSE stream'[j - Len(ReadSoFar)]
    BY <1>3, <1>4, ConcatProperties
  <2>2. \A j \in 1 .. Len(ReadSoFar) + Len(stream) :
           Line[j] = IF j <= Len(ReadSoFar) THEN ReadSoFar[j] ELSE stream[j - Len(ReadSoFar)]
    BY <1>3, ConcatProperties DEF Line
  <2>3. Len(ReadSoFar) \in Nat /\ Len(stream) \in Nat
    BY <1>3
  <2> HIDE DEF t
  <2> SUFFICES ASSUME NEW j \in 1 .. Len(ReadSoFar) + k PROVE t[j] = Line[j]
    BY <1>6
  <2>4. CASE j <= Len(ReadSoFar)
    BY <2>1, <2>2, <2>3, <2>4
  <2>5. CASE j > Len(ReadSoFar)
    <3>1. j - Len(ReadSoFar) \in 1 .. k
      BY <2>3, <2>5
    <3>2. stream'[j - Len(ReadSoFar)] = stream[j - Len(ReadSoFar)]
      BY <1>4, <3>1
    <3> QED
      BY <2>1, <2>2, <2>3, <2>5, <3>2
  <2> QED
    BY <2>3, <2>4, <2>5
<1> HIDE DEF t
<1>8. Line \in Seq(Places(sizes))
  BY LineIsTyped
<1>9. Chain(t, sizes)
  <2>1. Len(t) + 0 <= Len(Line) /\ \A j \in 1 .. Len(t) : t[j] = Line[j + 0]
    BY <1>6, <1>7, <1>8
  <2> QED
    BY <1>3, <1>6, <1>8, <2>1, PartChain
<1> QED
  BY <1>5, <1>6, <1>7, <1>9

LEMMA CloseInStep == ASSUME SafeInv, Close PROVE Whole' /\ InStep'
<1>1. UNCHANGED <<sizes, stage, before, got, msgLen, returned, torn>> /\ closed' = TRUE
  BY DEF Close, callVars
<1>2. /\ Line' \in Seq(Places(sizes)) /\ Len(Line') <= Len(Line) /\ Chain(Line', sizes)
      /\ \A j \in 1 .. Len(Line') : Line'[j] = Line[j]
  BY CloseLine DEF SafeInv, Whole
<1>3. Whole'
  BY <1>1, <1>2 DEF Whole
<1>4. ASSUME ~torn' PROVE StartsWith(Line', Len(returned) + 1)
  <2> SUFFICES ASSUME Line' # <<>> PROVE Line'[1][1] = Len(returned) + 1 /\ Line'[1][2] = 1
    BY DEF StartsWith
  <2>1. 1 \in 1 .. Len(Line') /\ Line \in Seq(Places(sizes))
    BY <1>2, LineIsTyped DEF SafeInv
  <2>2. Line'[1] = Line[1] /\ Line # <<>>
    <3>1. Line # <<>>
      BY <1>2, <2>1
    <3> QED
      BY <1>2, <2>1, <3>1
  <2>3. StartsWith(Line, Len(returned) + 1)
    BY <1>1, <1>4 DEF SafeInv, InStep
  <2> QED
    BY <2>2, <2>3 DEF StartsWith
<1>5. ASSUME ~torn' PROVE AtItsPlace' /\ FramesReturned'
  BY <1>1, <1>5 DEF SafeInv, InStep, AtItsPlace, FramesReturned, Frame, FrameSize
<1> QED
  BY <1>1, <1>3, <1>4, <1>5 DEF InStep

(* A message is sent: one more frame stands at the end of the line. *)
LEMMA PostLine ==
    ASSUME Typed, Post, Chain(Line, sizes), EndsWhole(Line, sizes)
    PROVE  \E size \in Nat :
              /\ sizes' = Append(sizes, size)
              /\ Line' \in Seq(Places(sizes')) /\ Len(Line') = Len(Line) + size + 5
              /\ \A j \in 1 .. Len(Line) : Line'[j] = Line[j]
              /\ \A p \in 1 .. size + 5 : Line'[Len(Line) + p] = <<Len(sizes) + 1, p>>
              /\ Chain(Line', sizes') /\ EndsWhole(Line', sizes')
<1>1. PICK size \in BodySizes : sizes' = Append(sizes, size)
  BY DEF Post
<1>2. UNCHANGED <<stage, before, got>>
  BY DEF Post, callVars
<1>3. /\ sizes \in Seq(Nat) /\ Len(sizes) \in Nat /\ Len(returned) \in Nat /\ size \in Nat
      /\ Line \in Seq(Places(sizes))
      /\ ReadSoFar \in Seq(Places(sizes)) /\ stream \in Seq(Places(sizes))
  BY LineIsTyped, ReadIsTyped, SizeAssumption DEF Typed
<1>4. /\ sizes' \in Seq(Nat) /\ Len(sizes') = Len(sizes) + 1
      /\ \A i \in 1 .. Len(sizes) : sizes'[i] = sizes[i]
      /\ sizes'[Len(sizes) + 1] = size
      /\ Places(sizes) \subseteq Places(sizes')
  BY <1>1, <1>3, PlacesGrow
<1> DEFINE F == [p \in 1 .. size + 5 |-> <<Len(sizes) + 1, p>>]
<1>5. Frame(Len(sizes))' = F
  BY <1>3, <1>4 DEF Frame, FrameSize, LengthBytes, CodeBytes
<1>6. stream' = stream \o F
  BY <1>5 DEF Post
<1>7. F \in Seq(Places(sizes')) /\ Len(F) = size + 5
  <2>1. \A p \in 1 .. size + 5 : <<Len(sizes) + 1, p>> \in Places(sizes')
    BY <1>3, <1>4 DEF Places
  <2> QED
    BY <1>3, <2>1
<1> HIDE DEF F
<1>8. ReadSoFar \in Seq(Places(sizes')) /\ stream \in Seq(Places(sizes')) /\ Line \in Seq(Places(sizes'))
  BY <1>3, <1>4, SeqMonotonic
<1>9. Line' = Line \o F
  <2>1. Line' = ReadSoFar \o (stream \o F)
    BY <1>2, <1>6 DEF Line, ReadSoFar
  <2>2. ReadSoFar \o (stream \o F) = (ReadSoFar \o stream) \o F
    <3> HIDE DEF ReadSoFar
    <3> QED
      BY <1>7, <1>8
  <2> QED
    BY <2>1, <2>2 DEF Line
<1> DEFINE t == Line \o F
<1>10. /\ t \in Seq(Places(sizes')) /\ Len(t) = Len(Line) + size + 5 /\ Len(Line) \in Nat
       /\ \A j \in 1 .. Len(Line) : t[j] = Line[j]
       /\ \A p \in 1 .. size + 5 : t[Len(Line) + p] = F[p]
  <2>1. t \in Seq(Places(sizes')) /\ Len(t) = Len(Line) + Len(F)
        /\ \A j \in 1 .. Len(Line) + Len(F) : t[j] = IF j <= Len(Line) THEN Line[j] ELSE F[j - Len(Line)]
    BY <1>7, <1>8, ConcatProperties
  <2>2. Len(Line) \in Nat
    BY <1>3
  <2> HIDE DEF t
  <2>3. Len(t) = Len(Line) + size + 5
    BY <1>3, <1>7, <2>1, <2>2
  <2>4. \A j \in 1 .. Len(Line) : t[j] = Line[j]
    BY <1>3, <1>7, <2>1, <2>2
  <2>5. ASSUME NEW p \in 1 .. size + 5 PROVE t[Len(Line) + p] = F[p]
    <3>1. /\ Len(Line) + p \in 1 .. Len(Line) + Len(F) /\ ~(Len(Line) + p <= Len(Line))
          /\ (Len(Line) + p) - Len(Line) = p
      BY <1>3, <1>7, <2>2
    <3> QED
      BY <2>1, <3>1
  <2> QED
    BY <2>1, <2>2, <2>3, <2>4, <2>5
<1> HIDE DEF t
<1>11. \A p \in 1 .. size + 5 : t[Len(Line) + p] = <<Len(sizes) + 1, p>>
  BY <1>10 DEF F
<1>12. Chain(t, sizes') /\ EndsWhole(t, sizes')
  BY <1>1, <1>3, <1>4, <1>10, <1>11, OneMoreFrame
<1>13. Line' = t
  BY <1>9 DEF t
<1> QED
  BY <1>1, <1>3, <1>10, <1>11, <1>12, <1>13

LEMMA PostInStep == ASSUME SafeInv, Post PROVE Whole' /\ InStep'
<1>1. Chain(Line, sizes) /\ EndsWhole(Line, sizes)
  BY DEF SafeInv, Whole, Post
<1>2. UNCHANGED <<closed, stage, before, got, msgLen, returned, torn>> /\ ~closed
  BY DEF Post, callVars
<1>3. PICK size \in Nat :
              /\ sizes' = Append(sizes, size)
              /\ Line' \in Seq(Places(sizes')) /\ Len(Line') = Len(Line) + size + 5
              /\ \A j \in 1 .. Len(Line) : Line'[j] = Line[j]
              /\ \A p \in 1 .. size + 5 : Line'[Len(Line) + p] = <<Len(sizes) + 1, p>>
              /\ Chain(Line', sizes') /\ EndsWhole(Line', sizes')
  BY <1>1, PostLine DEF SafeInv
<1>4. /\ sizes \in Seq(Nat) /\ Len(sizes) \in Nat /\ Len(returned) \in Nat
      /\ Line \in Seq(Places(sizes)) /\ Len(Line) \in Nat
  BY LineIsTyped DEF SafeInv
<1>5. /\ Len(sizes') = Len(sizes) + 1
      /\ \A i \in 1 .. Len(sizes) : sizes'[i] = sizes[i]
  BY <1>3, <1>4, PlacesGrow
<1>6. Whole'
  BY <1>2, <1>3 DEF Whole
<1> SUFFICES ASSUME ~torn' PROVE InStep'
  BY <1>6 DEF InStep
<1>7. /\ StartsWith(Line, Len(returned) + 1)
      /\ (Line = <<>> => Len(returned) = Len(sizes))
      /\ AtItsPlace /\ FramesReturned
  BY <1>2 DEF SafeInv, InStep
<1>8. Line' # <<>> /\ StartsWith(Line', Len(returned) + 1)
  <2>1. Line' # <<>>
    BY <1>3, <1>4
  <2>2. CASE Line = <<>>
    <3>1. Len(Line) = 0 /\ 1 \in 1 .. size + 5
      BY <1>3, <2>2
    <3>2. Line'[0 + 1] = <<Len(sizes) + 1, 1>>
      BY <1>3, <3>1
    <3> QED
      BY <1>7, <2>1, <2>2, <3>2 DEF StartsWith
  <2>3. CASE Line # <<>>
    <3>1. 1 \in 1 .. Len(Line)
      BY <1>4, <2>3
    <3>2. Line'[1] = Line[1]
      BY <1>3, <3>1
    <3> QED
      BY <1>7, <2>1, <2>3, <3>2 DEF StartsWith
  <2> QED
    BY <2>1, <2>2, <2>3
<1>9. AtItsPlace'
  <2>1. Len(returned) < Len(sizes) => sizes'[Len(returned) + 1] = sizes[Len(returned) + 1]
                                      /\ Len(returned) < Len(sizes')
    <3> SUFFICES ASSUME Len(returned) < Len(sizes)
                 PROVE  /\ sizes'[Len(returned) + 1] = sizes[Len(returned) + 1]
                        /\ Len(returned) < Len(sizes')
      OBVIOUS
    <3>1. Len(returned) + 1 \in 1 .. Len(sizes) /\ Len(returned) < Len(sizes')
      BY <1>4, <1>5
    <3> QED
      BY <1>5, <3>1
  <2> QED
    BY <1>2, <1>7, <2>1 DEF AtItsPlace
<1>10. FramesReturned'
  <2>1. \A i \in 1 .. Len(sizes) : Frame(i)' = Frame(i)
    BY <1>5 DEF Frame, FrameSize
  <2>2. \A i \in 1 .. Len(returned) : i \in 1 .. Len(sizes)
    BY <1>4, <1>7 DEF FramesReturned
  <2>3. \A i \in 1 .. Len(returned') : returned'[i] = Frame(i)'
    BY <1>2, <1>7, <2>1, <2>2 DEF FramesReturned
  <2>4. Len(returned') <= Len(sizes')
    BY <1>2, <1>4, <1>5, <1>7 DEF FramesReturned
  <2> QED
    BY <2>3, <2>4 DEF FramesReturned
<1> QED
  BY <1>2, <1>7, <1>8, <1>9, <1>10 DEF InStep

(* Some bytes are moved from the connection to the call: the line is the same. *)
LEMMA RecvLine == ASSUME SafeInv, Recv PROVE Line' = Line
<1>1. PICK k \in 1 .. Wanted - Len(got) :
          /\ k <= Len(stream)
          /\ got' = got \o SubSeq(stream, 1, k)
          /\ stream' = SubSeq(stream, k + 1, Len(stream))
  BY DEF Recv
<1>2. UNCHANGED before
  BY DEF Recv
<1>3. /\ before \in Seq(Places(sizes)) /\ got \in Seq(Places(sizes)) /\ stream \in Seq(Places(sizes))
      /\ k \in 0 .. Len(stream)
  BY <1>1 DEF SafeInv, Typed
<1>4. Line = Joint(before, got, stream) /\ Line' = Joint(before, got', stream')
  BY <1>2 DEF Line, ReadSoFar, Joint
<1>5. Joint(before, got', stream') = Joint(before, got, stream)
  BY <1>1, <1>3, Moved
<1> QED
  BY <1>4, <1>5

LEMMA RecvInStep == ASSUME SafeInv, Recv PROVE Whole' /\ InStep'
<1>1. UNCHANGED <<sizes, closed, stage, before, msgLen, returned, failed, torn>>
  BY DEF Recv, nodeVars
<1>2. Line' = Line
  BY RecvLine
<1>3. ~torn => AtItsPlace'
  BY <1>1 DEF SafeInv, InStep, AtItsPlace
<1> QED
  BY <1>1, <1>2, <1>3, SameLine

(* What has been read goes before the next part: the line is the same. *)
LEMMA NextStageLine ==
    ASSUME SafeInv, NEW s, NextStage(s), UNCHANGED stream
    PROVE  Line' = Line /\ before' = ReadSoFar /\ stage' = s
<1>1. before' = ReadSoFar /\ got' = <<>> /\ stage' = s
  BY DEF NextStage
<1>2. ReadSoFar \in Seq(Places(sizes))
  BY ReadIsTyped DEF SafeInv
<1>3. ReadSoFar' = ReadSoFar
  <2>1. ReadSoFar' = ReadSoFar \o <<>>
    BY <1>1 DEF ReadSoFar
  <2> QED
    BY <1>2, <2>1, ConcatEmptySeq
<1> QED
  BY <1>1, <1>3 DEF Line

LEMMA LengthReadInStep == ASSUME SafeInv, LengthRead PROVE Whole' /\ InStep'
<1>1. NextStage("code") /\ UNCHANGED <<sizes, closed, stream, msgLen, returned, failed, torn>>
  BY DEF LengthRead, nodeVars
<1>2. Line' = Line /\ stage' = "code"
  BY <1>1, NextStageLine
<1>3. AtItsPlace'
  BY <1>2 DEF AtItsPlace
<1> QED
  BY <1>1, <1>2, <1>3, SameLine

(* The first bytes of the line are those of the next frame. *)
LEMMA NextFrame ==
    ASSUME SafeInv, ~torn, NEW n, n = Len(returned) + 1, ReadSoFar # <<>>
    PROVE  /\ n \in 1 .. Len(sizes) /\ sizes[n] \in Nat /\ Len(returned) < Len(sizes)
           /\ \A j \in 1 .. Len(ReadSoFar) : j <= sizes[n] + 5 => ReadSoFar[j] = <<n, j>>
<1>1. /\ Line \in Seq(Places(sizes)) /\ sizes \in Seq(Nat) /\ Len(Line) = Len(ReadSoFar) + Len(stream)
      /\ ReadSoFar \in Seq(Places(sizes)) /\ stream \in Seq(Places(sizes)) /\ Len(returned) \in Nat
  BY LineIsTyped, ReadIsTyped DEF SafeInv, Typed
<1>2. Len(ReadSoFar) \in Nat /\ Len(ReadSoFar) >= 1 /\ Len(stream) \in Nat
  BY <1>1
<1>3. Line # <<>>
  BY <1>1, <1>2
<1>4. /\ n \in 1 .. Len(sizes) /\ sizes[n] \in Nat
      /\ \A j \in 1 .. Len(Line) : j <= sizes[n] + 5 => Line[j] = <<n, j>>
  <2>1. Chain(Line, sizes) /\ StartsWith(Line, n)
    BY DEF SafeInv, Whole, InStep
  <2> QED
    BY <1>1, <1>3, <2>1, FirstFrame
<1>5. \A j \in 1 .. Len(ReadSoFar) : Line[j] = ReadSoFar[j]
  <2>1. \A j \in 1 .. Len(ReadSoFar) + Len(stream) :
           Line[j] = IF j <= Len(ReadSoFar) THEN ReadSoFar[j] ELSE stream[j - Len(ReadSoFar)]
    BY <1>1, ConcatProperties DEF Line
  <2> QED
    BY <1>2, <2>1
<1>6. \A j \in 1 .. Len(ReadSoFar) : j \in 1 .. Len(Line)
  BY <1>1, <1>2
<1> QED
  BY <1>1, <1>4, <1>5, <1>6

(* In step, the four bytes that have been read are the length of the next frame. *)
LEMMA LengthIsNext ==
    ASSUME SafeInv, ~torn, stage = "code", Len(got) = CodeBytes, NEW length \in Lengths(before),
           NEW n, n = Len(returned) + 1
    PROVE  /\ n \in 1 .. Len(sizes) /\ sizes[n] \in Nat /\ Len(returned) < Len(sizes)
           /\ Len(ReadSoFar) = 5 /\ ReadSoFar # <<>>
           /\ BodyLength(length) = sizes[n]
<1>1. Len(before) = 4 /\ Len(ReadSoFar) = 5 /\ ReadSoFar # <<>>
  <2>1. Len(before) = 4
    BY DEF SafeInv, Typed, LengthBytes
  <2>2. Len(ReadSoFar) = 5
    BY <2>1, ReadIsTyped DEF SafeInv, CodeBytes
  <2>3. ReadSoFar # <<>>
    <3>1. Len(ReadSoFar) # Len(<<>>)
      BY <2>2
    <3> QED
      BY <3>1
  <2> QED
    BY <2>1, <2>2, <2>3
<1>2. /\ n \in 1 .. Len(sizes) /\ sizes[n] \in Nat /\ Len(returned) < Len(sizes)
      /\ \A j \in 1 .. 5 : ReadSoFar[j] = <<n, j>>
  <2>1. /\ n \in 1 .. Len(sizes) /\ sizes[n] \in Nat /\ Len(returned) < Len(sizes)
        /\ \A j \in 1 .. Len(ReadSoFar) : j <= sizes[n] + 5 => ReadSoFar[j] = <<n, j>>
    BY <1>1, NextFrame
  <2> QED
    BY <1>1, <2>1
<1>3. sizes[n] \in BodySizes
  <2>1. sizes \in Seq(BodySizes)
    BY DEF SafeInv, Typed, TypeOK
  <2> QED
    BY <1>2, <2>1
<1>4. before \in Seq(Places(sizes)) /\ \A j \in 1 .. 4 : before[j] = <<n, j>>
  <2>1. before \in Seq(Places(sizes)) /\ got \in Seq(Places(sizes))
    BY DEF SafeInv, Typed
  <2>2. \A j \in 1 .. Len(before) + Len(got) :
           ReadSoFar[j] = IF j <= Len(before) THEN before[j] ELSE got[j - Len(before)]
    BY <2>1, ConcatProperties DEF ReadSoFar
  <2>3. \A j \in 1 .. 4 : ReadSoFar[j] = before[j]
    BY <1>1, <2>2 DEF CodeBytes
  <2> QED
    BY <1>2, <2>1, <2>3
<1>5. before = SubSeq(Frame(n), 1, LengthBytes) /\ before[1][1] = n
  <2>1. before = [j \in 1 .. 4 |-> <<n, j>>]
    <3>1. DOMAIN before = 1 .. 4 /\ before = [j \in DOMAIN before |-> before[j]]
      BY <1>1, <1>4
    <3> QED
      BY <1>4, <3>1
  <2>2. FrameSize(n) = sizes[n] + 5
    BY <1>2 DEF FrameSize, LengthBytes, CodeBytes
  <2>3. SubSeq(Frame(n), 1, 4) = [j \in 1 .. 4 |-> <<n, j>>]
    BY <1>2, <2>2 DEF Frame
  <2> QED
    BY <1>4, <2>1, <2>3 DEF LengthBytes
<1>6. BodyLength(length) = sizes[n]
  <2>1. length = sizes[n] + 1
    BY <1>2, <1>5 DEF Lengths, FrameSize, LengthBytes, CodeBytes
  <2>2. sizes[n] < Modulus /\ Modulus \in Nat \ {0}
    BY <1>2, <1>3, SizeAssumption
  <2> QED
    <3>1. length - 1 = sizes[n]
      BY <1>2, <2>1
    <3>2. sizes[n] \in Nat /\ sizes[n] < Modulus
      BY <1>2, <2>2
    <3>3. sizes[n] % Modulus = sizes[n]
      BY ONLY <2>2, <3>2
    <3> QED
      BY <3>1, <3>3 DEF BodyLength
<1> QED
  BY <1>1, <1>2, <1>6

LEMMA CodeReadInStep == ASSUME SafeInv, CodeRead PROVE InStep'
<1> SUFFICES ASSUME ~torn' PROVE InStep'
  BY DEF InStep
<1>1. PICK length \in Lengths(before) :
        IF BodyLength(length) > 0
        THEN /\ msgLen' = BodyLength(length)
             /\ NextStage("body")
             /\ UNCHANGED <<returned, failed, torn>>
        ELSE Deliver(0)
  BY DEF CodeRead
<1>2. UNCHANGED <<sizes, closed, stream>> /\ UNCHANGED <<nodeVars, stream>>
      /\ stage = "code" /\ Len(got) = CodeBytes
  BY DEF CodeRead, nodeVars
<1>3. torn' = torn /\ ~torn
  BY <1>1 DEF Deliver
<1> DEFINE n == Len(returned) + 1
<1>4. /\ n \in 1 .. Len(sizes) /\ sizes[n] \in Nat /\ Len(returned) < Len(sizes)
      /\ Len(ReadSoFar) = 5 /\ ReadSoFar # <<>>
      /\ BodyLength(length) = sizes[n]
  <2> HIDE DEF n
  <2> QED
    BY <1>2, <1>3, LengthIsNext DEF n
<1> HIDE DEF n
<1>5. CASE sizes[n] > 0
  <2>1. /\ msgLen' = sizes[n] /\ NextStage("body") /\ UNCHANGED <<returned, failed, torn>>
    BY <1>1, <1>4, <1>5
  <2>2. Line' = Line /\ before' = ReadSoFar /\ stage' = "body"
    BY <1>2, <2>1, NextStageLine
  <2>3. AtItsPlace'
    BY <1>2, <1>4, <2>1, <2>2 DEF AtItsPlace, n, LengthBytes, CodeBytes
  <2> QED
    BY <1>2, <2>1, <2>2, <2>3, SameLine
<1>6. CASE ~(sizes[n] > 0)
  <2>1. sizes[n] = 0 /\ Deliver(sizes[n])
    BY <1>1, <1>4, <1>6
  <2>2. Len(ReadSoFar) = sizes[n] + 5
    BY <1>4, <2>1
  <2> QED
    BY <1>2, <1>3, <1>4, <2>1, <2>2, DeliverInStep DEF n
<1> QED
  BY <1>5, <1>6

LEMMA CodeReadWhole == ASSUME SafeInv, CodeRead PROVE Whole'
<1>1. CASE GoneIdle
  BY <1>1, ReadIsDropped DEF CodeRead
<1>2. CASE NextStage("body")
  <2>1. UNCHANGED <<sizes, closed, stream>>
    BY DEF CodeRead, nodeVars
  <2>2. Line' = Line
    BY <1>2, <2>1, NextStageLine
  <2> QED
    BY <2>1, <2>2 DEF SafeInv, Whole
<1> QED
  BY <1>1, <1>2 DEF CodeRead, Deliver

LEMMA BodyReadInStep == ASSUME SafeInv, BodyRead PROVE InStep'
<1>1. UNCHANGED <<nodeVars, stream>> /\ stage = "body"
  BY DEF BodyRead
<1>2. CASE Len(got) # msgLen
  BY <1>1, <1>2, FailInStep DEF BodyRead
<1>3. CASE Len(got) = msgLen /\ ~torn
  <2> DEFINE n == Len(returned) + 1
  <2>1. Len(before) = 5 /\ Len(returned) < Len(sizes) /\ msgLen = sizes[n]
    BY <1>1, <1>3 DEF SafeInv, InStep, AtItsPlace, LengthBytes, CodeBytes
  <2>2. Len(ReadSoFar) = 5 + Len(got) /\ Len(got) \in Nat
    BY <2>1, ReadIsTyped DEF SafeInv
  <2>3. ReadSoFar # <<>> /\ Len(ReadSoFar) = sizes[n] + 5
    <3>1. Len(ReadSoFar) # 0
      BY <2>2
    <3>2. ReadSoFar # <<>>
      BY <3>1
    <3> HIDE DEF n
    <3> QED
      BY <1>3, <2>1, <2>2, <3>2
  <2>4. n \in 1 .. Len(sizes)
    BY <1>3, <2>3, NextFrame
  <2>5. Deliver(sizes[n])
    BY <1>3, <2>1 DEF BodyRead
  <2> QED
    BY <1>1, <1>3, <2>3, <2>4, <2>5, DeliverInStep
<1>4. CASE Len(got) = msgLen /\ torn
  <2>1. torn'
    BY <1>4 DEF BodyRead, Deliver
  <2> QED
    BY <2>1 DEF InStep
<1> QED
  BY <1>2, <1>3, <1>4

LEMMA InStepInit == Init => Whole /\ InStep
<1> SUFFICES ASSUME Init PROVE Whole /\ InStep
  OBVIOUS
<1>1. ReadSoFar = <<>> /\ Len(returned) = 0 /\ Len(sizes) = 0
  BY DEF Init, ReadSoFar
<1>2. Line = <<>> /\ Len(Line) = 0
  BY <1>1 DEF Line, Init
<1>3. Chain(Line, sizes)
  BY <1>2 DEF Chain
<1>4. AtItsPlace /\ FramesReturned
  BY <1>1 DEF Init, AtItsPlace, FramesReturned
<1> QED
  BY <1>1, <1>2, <1>3, <1>4 DEF Whole, InStep, StartsWith, EndsWhole

LEMMA InStepNext == ASSUME SafeInv, [Next]_vars PROVE Whole' /\ InStep'
<1>1. CASE Post
  BY <1>1, PostInStep
<1>2. CASE Close
  BY <1>2, CloseInStep
<1>3. CASE Begin
  <2>1. /\ UNCHANGED <<sizes, closed, stream, returned, torn>>
        /\ stage = "idle" /\ stage' = "length" /\ before' = <<>> /\ got' = <<>>
    BY <1>3 DEF Begin, nodeVars
  <2>2. before = <<>> /\ got = <<>>
    BY <2>1 DEF SafeInv, Typed
  <2>3. Line' = Line
    BY <2>1, <2>2 DEF Line, ReadSoFar
  <2>4. AtItsPlace'
    BY <2>1 DEF AtItsPlace
  <2> QED
    BY <2>1, <2>3, <2>4, SameLine
<1>4. CASE Recv
  BY <1>4, RecvInStep
<1>5. CASE LengthRead
  BY <1>5, LengthReadInStep
<1>6. CASE CodeRead
  BY <1>6, CodeReadInStep, CodeReadWhole
<1>7. CASE BodyRead
  BY <1>7, BodyReadInStep, ReadIsDropped DEF BodyRead, Deliver, Fail
<1>8. CASE TimesOut
  BY <1>8, FailInStep, ReadIsDropped DEF TimesOut, Fail
<1>9. CASE Ends
  BY <1>9, FailInStep, ReadIsDropped DEF Ends, Fail
<1>10. CASE UNCHANGED vars
  <2>1. UNCHANGED <<sizes, closed, stream, stage, before, got, msgLen, returned, torn>>
    BY <1>10 DEF vars, nodeVars, callVars
  <2>2. Line' = Line
    BY <2>1 DEF Line, ReadSoFar
  <2>3. ~torn => AtItsPlace'
    BY <2>1 DEF AtItsPlace, SafeInv, InStep
  <2> QED
    BY <2>1, <2>2, <2>3, SameLine
<1> QED
  BY <1>1, <1>2, <1>3, <1>4, <1>5, <1>6, <1>7, <1>8, <1>9, <1>10 DEF Next

(* The inductive invariant. *)
THEOREM InductiveInvariant == Spec => []SafeInv
<1>1. Init => SafeInv
  BY TypedInit, InStepInit DEF SafeInv
<1>2. SafeInv /\ [Next]_vars => SafeInv'
  BY TypedNext, InStepNext DEF SafeInv
<1> QED
  BY <1>1, <1>2, PTL DEF Spec

(* Between two calls, unless one failed half way, the connection stands at the
   start of a frame: sizes, number and portions of the messages do not matter
   (riack_receive_message, riack_msg.c:58-90). *)
THEOREM StaysInStep == Spec => []StartsAtFrame
<1>1. SafeInv => StartsAtFrame
  <2> SUFFICES ASSUME SafeInv, stage = "idle", ~torn, stream # <<>> PROVE Head(stream)[2] = 1
    BY DEF StartsAtFrame
  <2>1. stream \in Seq(Places(sizes)) /\ before = <<>> /\ got = <<>>
    BY DEF SafeInv, Typed
  <2>2. Line = stream
    <3>1. ReadSoFar = <<>>
      BY <2>1 DEF ReadSoFar
    <3> QED
      BY <2>1, <3>1 DEF Line
  <2>3. StartsWith(stream, Len(returned) + 1)
    BY <2>2 DEF SafeInv, InStep
  <2> QED
    BY <2>1, <2>3 DEF StartsWith
<1> QED
  BY <1>1, InductiveInvariant, PTL

(* Until a call fails half way, what the calls have handed up are the frames the
   node sent, whole, in order and without a gap (riack_msg.c:69-88). *)
THEOREM FramesInOrder == Spec => [](~torn => FramesReturned)
<1>1. SafeInv => (~torn => FramesReturned)
  BY DEF SafeInv, InStep
<1> QED
  BY <1>1, InductiveInvariant, PTL

-----------------------------------------------------------------------------
(* The messages that end among bytes in step. *)
WholeUpTo(s, z) ==
    IF s[Len(s)][2] = Size(z, s[Len(s)]) THEN s[Len(s)][1] ELSE s[Len(s)][1] - 1

UpTo(f, l) == Run(f, l + 1 - f)

Ending(s, z) == IF s = <<>> THEN <<>> ELSE UpTo(s[1][1], WholeUpTo(s, z))

(* Messages come in the order of their numbers. *)
LEMMA NoneBefore ==
    ASSUME NEW z \in Seq(Nat), NEW s \in Seq(Places(z)), Chain(s, z),
           NEW j \in 1 .. Len(s), NEW k \in 1 .. Len(s), j <= k
    PROVE  s[j][1] <= s[k][1]
<1> DEFINE T == {d \in Nat : j + d <= Len(s) => s[j][1] <= s[j + d][1]}
<1>1. \A i \in 1 .. Len(s) : s[i][1] \in Nat /\ s[i][2] \in Nat /\ Size(z, s[i]) \in Nat
                             /\ 1 <= s[i][2] /\ s[i][2] <= Size(z, s[i])
  <2> SUFFICES ASSUME NEW i \in 1 .. Len(s)
               PROVE  s[i][1] \in Nat /\ s[i][2] \in Nat /\ Size(z, s[i]) \in Nat
                      /\ 1 <= s[i][2] /\ s[i][2] <= Size(z, s[i])
    OBVIOUS
  <2>1. s[i][1] \in 1 .. Len(z) /\ s[i][2] \in Nat /\ Size(z, s[i]) \in Nat
    BY WhatIsThere
  <2> QED
    BY <2>1 DEF Chain
<1>2. 0 \in T
  BY <1>1
<1>3. ASSUME NEW d \in Nat, d \in T PROVE d + 1 \in T
  <2> SUFFICES ASSUME j + (d + 1) <= Len(s) PROVE s[j][1] <= s[j + (d + 1)][1]
    OBVIOUS
  <2> DEFINE a == j + d
             b == j + (d + 1)
  <2>1. a \in 1 .. Len(s) /\ b \in 1 .. Len(s) /\ b - a = 1 /\ a <= b /\ Len(s) \in Nat
    OBVIOUS
  <2>2. s[j][1] <= s[a][1]
    BY <1>3, <2>1
  <2> HIDE DEF a, b
  <2>3. /\ 1 <= Size(z, s[a]) - s[a][2] => s[b][1] = s[a][1]
        /\ 1 = Size(z, s[a]) - s[a][2] + 1 => s[b][1] = s[a][1] + 1
    BY <2>1 DEF Chain
  <2>4. s[b][1] = s[a][1] \/ s[b][1] = s[a][1] + 1
    BY <1>1, <2>1, <2>3
  <2>5. s[j][1] <= s[b][1]
    BY <1>1, <2>1, <2>2, <2>4
  <2> QED
    BY <2>5 DEF b
<1>4. k - j \in Nat /\ j + (k - j) = k /\ k <= Len(s)
  OBVIOUS
<1>5. Nat \subseteq T
  <2> HIDE DEF T
  <2> QED
    BY <1>2, <1>3, SetInduction
<1> QED
  BY <1>4, <1>5

(* What the ends of a chain say about each other. *)
LEMMA WholeBounds ==
    ASSUME NEW z \in Seq(Nat), NEW s \in Seq(Places(z)), Chain(s, z), s # <<>>
    PROVE  /\ 1 \in 1 .. Len(s) /\ Len(s) \in 1 .. Len(s)
           /\ s[1][1] \in Nat /\ WholeUpTo(s, z) \in Nat /\ WholeUpTo(s, z) + 1 - s[1][1] \in Nat
           /\ \A j \in 1 .. Len(s) : /\ s[j][1] <= WholeUpTo(s, z) + 1
                                     /\ s[j][2] = Size(z, s[j]) => s[j][1] <= WholeUpTo(s, z)
<1>1. 1 \in 1 .. Len(s) /\ Len(s) \in 1 .. Len(s) /\ Len(s) \in Nat
  OBVIOUS
<1>2. \A i \in 1 .. Len(s) : s[i][1] \in Nat /\ s[i][1] >= 1 /\ s[i][2] \in Nat /\ Size(z, s[i]) \in Nat
                             /\ s[i][1] <= s[Len(s)][1]
  <2> SUFFICES ASSUME NEW i \in 1 .. Len(s)
               PROVE  s[i][1] \in Nat /\ s[i][1] >= 1 /\ s[i][2] \in Nat /\ Size(z, s[i]) \in Nat
                      /\ s[i][1] <= s[Len(s)][1]
    OBVIOUS
  <2>1. s[i][1] \in 1 .. Len(z) /\ s[i][2] \in Nat /\ Size(z, s[i]) \in Nat
    BY WhatIsThere
  <2>2. i <= Len(s)
    OBVIOUS
  <2>3. s[i][1] <= s[Len(s)][1]
    BY <1>1, <2>2, NoneBefore
  <2> QED
    BY <2>1, <2>3
<1>3. WholeUpTo(s, z) \in Nat /\ s[Len(s)][1] <= WholeUpTo(s, z) + 1
      /\ WholeUpTo(s, z) <= s[Len(s)][1]
  BY <1>1, <1>2 DEF WholeUpTo
<1>4. \A j \in 1 .. Len(s) : s[j][1] <= WholeUpTo(s, z) + 1
  BY <1>1, <1>2, <1>3
<1>5. ASSUME NEW j \in 1 .. Len(s), s[j][2] = Size(z, s[j]) PROVE s[j][1] <= WholeUpTo(s, z)
  <2>1. CASE j = Len(s)
    BY <1>2, <1>5, <2>1 DEF WholeUpTo
  <2>2. CASE j # Len(s)
    <3>1. j + 1 \in 1 .. Len(s) /\ (j + 1) - j = 1
      BY <1>1, <2>2
    <3>2. (j + 1) - j = Size(z, s[j]) - s[j][2] + 1
      BY <1>2, <1>5, <3>1
    <3>3. s[j + 1][1] = s[j][1] + 1
      BY <3>1, <3>2 DEF Chain
    <3> QED
      BY <1>2, <1>4, <1>3, <3>1, <3>3
  <2> QED
    BY <2>1, <2>2
<1>6. WholeUpTo(s, z) + 1 - s[1][1] \in Nat
  BY <1>1, <1>2, <1>3, <1>4
<1> QED
  BY <1>1, <1>2, <1>3, <1>4, <1>5, <1>6

(* Closing cuts the bytes off somewhere: the messages that still end are the first ones. *)
LEMMA EndingOfPrefix ==
    ASSUME NEW z \in Seq(Nat), NEW s \in Seq(Places(z)), Chain(s, z),
           NEW t \in Seq(Places(z)), Chain(t, z), Len(t) <= Len(s),
           \A j \in 1 .. Len(t) : t[j] = s[j]
    PROVE  \E k \in 0 .. Len(Ending(s, z)) : Ending(t, z) = SubSeq(Ending(s, z), 1, k)
<1>1. CASE t = <<>>
  <2>1. Ending(t, z) = <<>>
    BY <1>1 DEF Ending, UpTo
  <2>2. Len(Ending(s, z)) \in Nat
    <3>1. CASE s = <<>>
      BY <3>1 DEF Ending, UpTo
    <3>2. CASE s # <<>>
      BY <3>2, WholeBounds, RunIsSeq DEF Ending, UpTo
    <3> QED
      BY <3>1, <3>2
  <2>3. SubSeq(Ending(s, z), 1, 0) = <<>>
    BY SubSeqEmpty
  <2> QED
    BY <2>1, <2>2, <2>3
<1>2. CASE t # <<>>
  <2>1. Len(t) \in 1 .. Len(t) /\ Len(t) \in 1 .. Len(s) /\ 1 \in 1 .. Len(t) /\ s # <<>>
    BY <1>2
  <2> DEFINE f == s[1][1]
             n == WholeUpTo(s, z) + 1 - f
             k == WholeUpTo(t, z) + 1 - f
  <2>2. /\ s[1][1] \in Nat /\ WholeUpTo(s, z) \in Nat /\ n \in Nat
        /\ \A j \in 1 .. Len(s) : /\ s[j][1] <= WholeUpTo(s, z) + 1
                                  /\ s[j][2] = Size(z, s[j]) => s[j][1] <= WholeUpTo(s, z)
    BY <2>1, WholeBounds
  <2>3. /\ t[1][1] \in Nat /\ WholeUpTo(t, z) \in Nat /\ WholeUpTo(t, z) + 1 - t[1][1] \in Nat
    BY <1>2, WholeBounds
  <2>4. t[1][1] = f
    BY <2>1
  <2>5. WholeUpTo(t, z) <= WholeUpTo(s, z)
    <3>1. t[Len(t)] = s[Len(t)] /\ s[Len(t)][1] \in Nat
      BY <2>1, WhatIsThere
    <3>2. /\ s[Len(t)][1] <= WholeUpTo(s, z) + 1
          /\ s[Len(t)][2] = Size(z, s[Len(t)]) => s[Len(t)][1] <= WholeUpTo(s, z)
      BY <2>1, <2>2
    <3>3. WholeUpTo(t, z) = IF s[Len(t)][2] = Size(z, s[Len(t)]) THEN s[Len(t)][1] ELSE s[Len(t)][1] - 1
      BY <3>1 DEF WholeUpTo
    <3> QED
      BY <2>2, <3>1, <3>2, <3>3
  <2>6. k \in 0 .. n
    BY <2>2, <2>3, <2>4, <2>5
  <2>7. Ending(s, z) = Run(f, n) /\ Ending(t, z) = Run(f, k)
    BY <1>2, <2>1, <2>4 DEF Ending, UpTo
  <2>8. f \in Int
    BY <2>2
  <2> HIDE DEF f, n, k
  <2>9. SubSeq(Run(f, n), 1, k) = Run(f, k) /\ Len(Run(f, n)) = n
    BY <2>2, <2>6, <2>8, RunPart, RunIsSeq
  <2> QED
    BY <2>6, <2>7, <2>9
<1> QED
  BY <1>1, <1>2

(* The messages that end in the bytes behind the first m are the last ones; f of them
   are gone. *)
LEMMA EndingOfSuffix ==
    ASSUME NEW z \in Seq(Nat), NEW s \in Seq(Places(z)), Chain(s, z), s # <<>>,
           NEW t \in Seq(Places(z)), Chain(t, z), t # <<>>, NEW m \in Nat, Len(s) = Len(t) + m,
           \A j \in 1 .. Len(t) : t[j] = s[j + m]
    PROVE  /\ t[1][1] - s[1][1] \in Nat
           /\ Ending(s, z) = UpTo(s[1][1], WholeUpTo(s, z))
           /\ Ending(t, z) = UpTo(t[1][1], WholeUpTo(s, z))
           /\ s[1][1] \in Nat /\ t[1][1] \in Nat /\ WholeUpTo(s, z) \in Nat
           /\ WholeUpTo(s, z) + 1 - t[1][1] \in Nat
<1>1. /\ Len(t) \in 1 .. Len(t) /\ 1 \in 1 .. Len(t) /\ 1 \in 1 .. Len(s) /\ 1 + m \in 1 .. Len(s)
      /\ t[1] = s[1 + m] /\ t[Len(t)] = s[Len(s)] /\ 1 <= 1 + m
  OBVIOUS
<1>2. s[1][1] \in Nat /\ t[1][1] \in Nat /\ s[1][1] <= t[1][1]
  <2>1. s[1][1] \in Nat /\ t[1][1] \in Nat
    <3>1. s[1][1] \in 1 .. Len(z)
      BY <1>1, WhatIsThere
    <3>2. t[1][1] \in 1 .. Len(z)
      BY <1>1, WhatIsThere
    <3> QED
      BY <3>1, <3>2
  <2>2. s[1][1] <= s[1 + m][1]
    BY <1>1, NoneBefore
  <2> QED
    BY <1>1, <2>1, <2>2
<1>3. WholeUpTo(t, z) = WholeUpTo(s, z)
  BY <1>1 DEF WholeUpTo
<1>4. WholeUpTo(t, z) \in Nat /\ WholeUpTo(t, z) + 1 - t[1][1] \in Nat
  BY WholeBounds
<1>5. t[1][1] - s[1][1] \in Nat
  BY <1>2
<1> QED
  BY <1>2, <1>3, <1>4, <1>5 DEF Ending, UpTo

(* A message is sent: one more ends. *)
LEMMA EndingGrows ==
    ASSUME NEW z \in Seq(Nat), NEW s \in Seq(Places(z)), Chain(s, z), EndsWhole(s, z),
           NEW n \in Nat, NEW z1 \in Seq(Nat), z1 = Append(z, n),
           NEW t \in Seq(Places(z1)), EndsWhole(t, z1), Len(t) = Len(s) + n + 5,
           \A j \in 1 .. Len(s) : t[j] = s[j],
           \A p \in 1 .. n + 5 : t[Len(s) + p] = <<Len(z) + 1, p>>
    PROVE  Ending(t, z1) = Append(Ending(s, z), Len(z) + 1)
<1>1. Len(z1) = Len(z) + 1 /\ Len(z) \in Nat /\ Len(s) \in Nat
  BY PlacesGrow
<1>2. t # <<>>
  BY <1>1
<1>3. WholeUpTo(t, z1) = Len(z) + 1
  BY <1>1, <1>2 DEF WholeUpTo, EndsWhole
<1>4. CASE s = <<>>
  <2>1. Len(s) = 0 /\ 1 \in 1 .. n + 5
    BY <1>4
  <2>2. t[0 + 1] = <<Len(z) + 1, 1>>
    BY <2>1
  <2>3. t[1][1] = Len(z) + 1
    BY <2>2
  <2>4. Ending(t, z1) = Run(Len(z) + 1, Len(z) + 1 + 1 - (Len(z) + 1))
    BY <1>2, <1>3, <2>3 DEF Ending, UpTo
  <2>5. Len(z) + 1 + 1 - (Len(z) + 1) = 1 /\ Len(z) + 1 \in Int /\ Len(z) + 1 = (Len(z) + 1) + 0 /\ 0 + 1 = 1
    BY <1>1
  <2>6. Append(Run(Len(z) + 1, 0), Len(z) + 1) = Run(Len(z) + 1, 0 + 1)
    BY <2>5, RunAppend
  <2>7. Run(Len(z) + 1, 0) = <<>> /\ Ending(s, z) = <<>>
    BY <1>4, <2>5, RunIsSeq DEF Ending, UpTo
  <2> QED
    BY <2>4, <2>5, <2>6, <2>7
<1>5. CASE s # <<>>
  <2> DEFINE f == s[1][1]
             m == Len(z) + 1 - f
  <2>1. WholeUpTo(s, z) = Len(z)
    BY <1>5 DEF WholeUpTo, EndsWhole
  <2>2. 1 \in 1 .. Len(s) /\ f \in Nat /\ m \in Nat
    BY <1>5, <2>1, WholeBounds
  <2>3. t[1][1] = f
    BY <2>2
  <2>4. Ending(s, z) = Run(f, m)
    BY <1>5, <2>1 DEF Ending, UpTo
  <2>5. Ending(t, z1) = Run(f, Len(z) + 1 + 1 - f)
    BY <1>2, <1>3, <2>3 DEF Ending, UpTo
  <2>8. f \in Nat /\ m \in Nat /\ m = Len(z) + 1 - f
    BY <2>2
  <2> HIDE DEF f, m
  <2>6. Len(z) + 1 + 1 - f = m + 1 /\ Len(z) + 1 = f + m /\ f \in Int /\ Len(z) + 1 \in Int
    BY <1>1, <2>8
  <2>7. Append(Run(f, m), Len(z) + 1) = Run(f, m + 1)
    BY <2>2, <2>6, RunAppend
  <2> QED
    BY <2>4, <2>5, <2>6, <2>7
<1> QED
  BY <1>4, <1>5

(* The first frame is taken: its message was the first, and the others still end. *)
LEMMA EndingTaken ==
    ASSUME NEW z \in Seq(Nat), NEW a \in Seq(Places(z)), NEW b \in Seq(Places(z)),
           Chain(a \o b, z), NEW n, StartsWith(a \o b, n), a # <<>>, Len(a) = z[n] + 5
    PROVE  /\ Ending(a \o b, z) # <<>> /\ Head(Ending(a \o b, z)) = n
           /\ Tail(Ending(a \o b, z)) = Ending(b, z)
<1> DEFINE s == a \o b
           P == Places(z)
<1>0. a \in Seq(P) /\ b \in Seq(P)
  OBVIOUS
<1>1. Chain(b, z) /\ StartsWith(b, n + 1)
  BY FrameTaken
<1> HIDE DEF P
<1>2. /\ s \in Seq(P) /\ Len(s) = Len(b) + Len(a) /\ Len(a) \in Nat /\ Len(b) \in Nat
      /\ \A j \in 1 .. Len(b) : b[j] = s[j + Len(a)]
  <2>1. /\ s \in Seq(P) /\ Len(s) = Len(a) + Len(b) /\ Len(a) \in Nat /\ Len(b) \in Nat
        /\ \A j \in 1 .. Len(b) : s[j + Len(a)] = b[j]
    BY <1>0, Joined
  <2> HIDE DEF s
  <2> QED
    BY <2>1
<1>3. s \in Seq(Places(z)) /\ Chain(s, z) /\ StartsWith(s, n)
  BY <1>2 DEF P
<1> HIDE DEF s
<1>4. s # <<>>
  BY <1>0, <1>2
<1>5. /\ n \in 1 .. Len(z) /\ z[n] \in Nat
      /\ \A j \in 1 .. Len(s) : j <= z[n] + 5 => s[j] = <<n, j>>
  BY <1>3, <1>4, FirstFrame
<1>6. s[1][1] = n /\ n \in Nat
  BY <1>3, <1>4, <1>5 DEF StartsWith
<1>7. CASE b = <<>>
  <2>1. Len(s) = z[n] + 5 /\ Len(s) \in 1 .. Len(s)
    BY <1>2, <1>5, <1>7
  <2>2. s[Len(s)] = <<n, z[n] + 5>>
    BY <1>5, <2>1
  <2>3. WholeUpTo(s, z) = n
    BY <2>2 DEF WholeUpTo, Size
  <2>4. Ending(s, z) = Run(n, n + 1 - n) /\ n + 1 - n = 1
    BY <1>4, <1>6, <2>3 DEF Ending, UpTo
  <2>5. Run(n, 1) # <<>> /\ Head(Run(n, 1)) = n /\ Tail(Run(n, 1)) = Run(n + 1, 1 - 1)
    BY <1>6, RunHead
  <2>6. Run(n + 1, 0) = <<>> /\ Ending(b, z) = <<>> /\ 1 - 1 = 0
    BY <1>6, <1>7, RunIsSeq DEF Ending, UpTo
  <2> QED
    BY <2>4, <2>5, <2>6 DEF s
<1>8. CASE b # <<>>
  <2>8. PICK W \in Nat : W = WholeUpTo(s, z)
    BY <1>3, <1>4, WholeBounds
  <2>1. /\ Ending(s, z) = UpTo(s[1][1], W)
        /\ Ending(b, z) = UpTo(b[1][1], W)
        /\ W + 1 - b[1][1] \in Nat
    <3>1. PICK m \in Nat : m = Len(a)
      BY <1>2
    <3>2. Len(s) = Len(b) + m /\ \A j \in 1 .. Len(b) : b[j] = s[j + m]
      BY <1>2, <3>1
    <3>3. /\ Chain(s, z) /\ s # <<>> /\ Chain(b, z) /\ b # <<>>
          /\ s \in Seq(Places(z)) /\ b \in Seq(Places(z))
      BY <1>1, <1>3, <1>4, <1>8
    <3>4. /\ Ending(s, z) = UpTo(s[1][1], WholeUpTo(s, z))
          /\ Ending(b, z) = UpTo(b[1][1], WholeUpTo(s, z))
          /\ WholeUpTo(s, z) + 1 - b[1][1] \in Nat
      BY ONLY z \in Seq(Nat), <3>2, <3>3, EndingOfSuffix
    <3> QED
      BY <2>8, <3>4
  <2>2. s[1][1] = n /\ b[1][1] = n + 1
    BY <1>1, <1>6, <1>8 DEF StartsWith
  <2>3. PICK m \in Nat : m = W + 1 - n
    BY <1>6, <2>1, <2>2
  <2>4. m > 0 /\ n \in Int /\ W + 1 - (n + 1) = m - 1
    BY <1>6, <2>1, <2>2, <2>3
  <2>5. Run(n, m) # <<>> /\ Head(Run(n, m)) = n /\ Tail(Run(n, m)) = Run(n + 1, m - 1)
    BY <2>4, RunHead
  <2>6. Ending(s, z) = UpTo(n, W) /\ Ending(b, z) = UpTo(n + 1, W)
    BY <2>1, <2>2
  <2>7. Ending(s, z) = Run(n, m) /\ Ending(b, z) = Run(n + 1, m - 1)
    BY <2>3, <2>4, <2>6 DEF UpTo
  <2> QED
    BY <2>5, <2>7 DEF s
<1> QED
  BY <1>7, <1>8

(* A part of the first frame is lost: the messages that end are the same. *)
LEMMA EndingTorn ==
    ASSUME NEW z \in Seq(Nat), NEW a \in Seq(Places(z)), NEW b \in Seq(Places(z)),
           Chain(a \o b, z), NEW n, StartsWith(a \o b, n), a # <<>>, Len(a) < z[n] + 5
    PROVE  Ending(b, z) = Ending(a \o b, z)
<1> DEFINE s == a \o b
           P == Places(z)
<1>0. a \in Seq(P) /\ b \in Seq(P)
  OBVIOUS
<1>1. Chain(b, z)
  BY RestChain
<1> HIDE DEF P
<1>2. /\ s \in Seq(P) /\ Len(s) = Len(b) + Len(a) /\ Len(a) \in Nat /\ Len(b) \in Nat
      /\ \A j \in 1 .. Len(b) : b[j] = s[j + Len(a)]
  <2>1. /\ s \in Seq(P) /\ Len(s) = Len(a) + Len(b) /\ Len(a) \in Nat /\ Len(b) \in Nat
        /\ \A j \in 1 .. Len(b) : s[j + Len(a)] = b[j]
    BY <1>0, Joined
  <2> HIDE DEF s
  <2> QED
    BY <2>1
<1>3. s \in Seq(Places(z)) /\ Chain(s, z) /\ StartsWith(s, n)
  BY <1>2 DEF P
<1> HIDE DEF s
<1>4. s # <<>>
  BY <1>0, <1>2
<1>5. /\ n \in 1 .. Len(z) /\ z[n] \in Nat
      /\ \A j \in 1 .. Len(s) : j <= z[n] + 5 => s[j] = <<n, j>>
  BY <1>3, <1>4, FirstFrame
<1>6. s[1][1] = n /\ n \in Nat
  BY <1>3, <1>4, <1>5 DEF StartsWith
<1>7. CASE b = <<>>
  <2>1. Len(s) = Len(a) /\ Len(s) \in 1 .. Len(s) /\ Len(s) < z[n] + 5
    BY <1>2, <1>4, <1>7
  <2>2. s[Len(s)] = <<n, Len(s)>> /\ Len(s) # z[n] + 5
    BY <1>5, <2>1
  <2>3. WholeUpTo(s, z) = n - 1
    BY <2>2 DEF WholeUpTo, Size
  <2>4. Ending(s, z) = Run(n, n - 1 + 1 - n) /\ n - 1 + 1 - n = 0
    BY <1>4, <1>6, <2>3 DEF Ending, UpTo
  <2>5. Run(n, 0) = <<>> /\ Ending(b, z) = <<>>
    BY <1>6, <1>7, RunIsSeq DEF Ending, UpTo
  <2> QED
    BY <2>4, <2>5 DEF s
<1>8. CASE b # <<>>
  <2>8. PICK W \in Nat : W = WholeUpTo(s, z)
    BY <1>3, <1>4, WholeBounds
  <2>1. /\ Ending(s, z) = UpTo(s[1][1], W)
        /\ Ending(b, z) = UpTo(b[1][1], W)
    <3>1. PICK m \in Nat : m = Len(a)
      BY <1>2
    <3>2. Len(s) = Len(b) + m /\ \A j \in 1 .. Len(b) : b[j] = s[j + m]
      BY <1>2, <3>1
    <3>3. /\ Chain(s, z) /\ s # <<>> /\ Chain(b, z) /\ b # <<>>
          /\ s \in Seq(Places(z)) /\ b \in Seq(Places(z))
      BY <1>1, <1>3, <1>4, <1>8
    <3>4. /\ Ending(s, z) = UpTo(s[1][1], WholeUpTo(s, z))
          /\ Ending(b, z) = UpTo(b[1][1], WholeUpTo(s, z))
          /\ WholeUpTo(s, z) + 1 - b[1][1] \in Nat
      BY ONLY z \in Seq(Nat), <3>2, <3>3, EndingOfSuffix
    <3> QED
      BY <2>8, <3>4
  <2>2. Len(b) >= 1
    BY <1>0, <1>8
  <2>3. 1 \in 1 .. Len(b) /\ 1 + Len(a) \in 1 .. Len(s) /\ 1 + Len(a) <= z[n] + 5
    BY <1>2, <1>5, <2>2
  <2>4. b[1][1] = n
    BY <1>2, <1>5, <2>3
  <2> QED
    BY <1>6, <2>1, <2>4 DEF s
<1> QED
  BY <1>7, <1>8

-----------------------------------------------------------------------------
(* How far a call has got, and what it can hand up: some bytes of the node's. *)
Held ==
    /\ stage = "body" => Len(before) = LengthBytes + CodeBytes /\ Len(got) <= msgLen
    /\ \A i \in 1 .. Len(returned) : returned[i] \in Seq(Places(sizes)) /\ returned[i] # <<>>

LEMMA IntIsNoMore == ASSUME NEW u \in 0 .. Modulus - 1 PROVE AsInt(u) \in Int /\ AsInt(u) <= u
BY SizeAssumption DEF AsInt

LEMMA HeldDeliver ==
    ASSUME Typed, Held, NEW bodyLength, Deliver(bodyLength), UNCHANGED <<nodeVars, stream>>,
           ReadSoFar # <<>>
    PROVE  Held'
<1>1. UNCHANGED sizes /\ stage' = "idle"
  BY DEF Deliver, GoneIdle, nodeVars
<1>2. ReadSoFar \in Seq(Places(sizes)) /\ ReadSoFar \in Seq(Bytes)
  BY ReadIsTyped
<1>3. CASE UNCHANGED returned
  BY <1>1, <1>3 DEF Held
<1>4. CASE returned' = Append(returned, ReadSoFar)
  <2>1. returned \in Seq(Seq(Bytes)) /\ Len(returned) \in Nat
    BY DEF Typed, TypeOK
  <2>2. /\ Len(returned') = Len(returned) + 1 /\ returned'[Len(returned) + 1] = ReadSoFar
        /\ \A i \in 1 .. Len(returned) : returned'[i] = returned[i]
    <3> HIDE DEF ReadSoFar
    <3> QED
      BY <1>2, <1>4, <2>1, AppendProperties
  <2>3. ASSUME NEW i \in 1 .. Len(returned')
        PROVE  returned'[i] \in Seq(Places(sizes)) /\ returned'[i] # <<>>
    <3>1. CASE i = Len(returned) + 1
      BY <1>2, <2>2, <3>1
    <3>2. CASE i # Len(returned) + 1
      <4>1. i \in 1 .. Len(returned)
        BY <2>1, <2>2, <3>2
      <4> QED
        BY <2>2, <4>1 DEF Held
    <3> QED
      BY <3>1, <3>2
  <2> QED
    BY <1>1, <2>3 DEF Held
<1> QED
  BY <1>3, <1>4 DEF Deliver

(* A call that has come to the code or the body has read something. *)
LEMMA SomeRead ==
    ASSUME Typed, Held, stage = "code" \/ stage = "body"
    PROVE  ReadSoFar # <<>> /\ Len(before) \in {4, 5}
<1>1. Len(ReadSoFar) = Len(before) + Len(got) /\ Len(before) \in Nat /\ Len(got) \in Nat
  BY ReadIsTyped
<1>2. Len(before) \in {4, 5}
  BY DEF Typed, Held, LengthBytes, CodeBytes
<1>3. Len(ReadSoFar) # Len(<<>>)
  BY <1>1, <1>2
<1> QED
  BY <1>2, <1>3

LEMMA HeldNext == ASSUME Typed, Held, [Next]_vars PROVE Held'
<1>1. CASE Post
  <2>1. PICK size \in BodySizes : sizes' = Append(sizes, size)
    BY <1>1 DEF Post
  <2>2. sizes \in Seq(Nat) /\ size \in Nat
    BY <2>1, SizeAssumption, SizesAreNat DEF Typed, TypeOK
  <2>3. Places(sizes) \subseteq Places(sizes')
    BY <2>1, <2>2, PlacesGrow
  <2>4. UNCHANGED <<stage, before, got, msgLen, returned>>
    BY <1>1 DEF Post, callVars
  <2>5. \A i \in 1 .. Len(returned) : returned[i] \in Seq(Places(sizes')) /\ returned[i] # <<>>
    BY <2>3, SeqMonotonic DEF Held
  <2> QED
    BY <2>4, <2>5 DEF Held
<1>2. CASE Close
  BY <1>2 DEF Close, callVars, Held
<1>3. CASE Begin
  BY <1>3 DEF Begin, nodeVars, Held
<1>4. CASE Recv
  <2>1. UNCHANGED <<sizes, stage, before, msgLen, returned>>
    BY <1>4 DEF Recv, nodeVars
  <2>2. PICK k \in 1 .. Wanted - Len(got) :
          k <= Len(stream) /\ got' = got \o SubSeq(stream, 1, k)
    BY <1>4 DEF Recv
  <2>3. k \in 0 .. Len(stream) /\ got \in Seq(Places(sizes)) /\ stream \in Seq(Places(sizes))
    BY <2>2 DEF Typed
  <2>4. Len(got') = Len(got) + k /\ Len(got) \in Nat
    BY <2>2, <2>3, Moved
  <2>5. stage = "body" => Len(got') <= msgLen
    <3> SUFFICES ASSUME stage = "body" PROVE Len(got') <= msgLen
      OBVIOUS
    <3>1. msgLen \in 0 .. Modulus - 1 /\ Wanted = AsInt(msgLen)
      BY DEF Typed, TypeOK, Wanted
    <3>2. Wanted \in Int /\ Wanted <= msgLen
      BY <3>1, IntIsNoMore
    <3> HIDE DEF Wanted
    <3>3. k \in Int /\ k <= Wanted - Len(got) /\ msgLen \in Int
      BY <2>2, <2>4, <3>1, <3>2, SizeAssumption
    <3> QED
      BY <2>4, <3>2, <3>3
  <2> QED
    BY <2>1, <2>5 DEF Held
<1>5. CASE LengthRead
  BY <1>5 DEF LengthRead, NextStage, nodeVars, Held
<1>6. CASE CodeRead
  <2>1. UNCHANGED <<nodeVars, stream>> /\ stage = "code" /\ Len(got) = CodeBytes
    BY <1>6 DEF CodeRead
  <2>2. PICK length \in Lengths(before) :
          IF BodyLength(length) > 0
          THEN /\ msgLen' = BodyLength(length)
               /\ NextStage("body")
               /\ UNCHANGED <<returned, failed, torn>>
          ELSE Deliver(0)
    BY <1>6 DEF CodeRead
  <2>3. CASE Deliver(0)
    BY <2>1, <2>3, SomeRead, HeldDeliver
  <2>4. CASE msgLen' = BodyLength(length) /\ NextStage("body") /\ UNCHANGED returned
    <3>1. stage' = "body" /\ before' = ReadSoFar /\ got' = <<>> /\ UNCHANGED <<sizes, returned>>
      BY <2>1, <2>4 DEF NextStage, nodeVars
    <3>2. Len(ReadSoFar) = Len(before) + Len(got) /\ Len(before) = LengthBytes
      BY <2>1, ReadIsTyped DEF Typed
    <3>3. msgLen' \in Nat
      <4>1. length \in Int
        BY <2>1, LengthsAreInt
      <4>2. BodyLength(length) \in 0 .. Modulus - 1
        BY <4>1, LengthIsWord
      <4> QED
        BY <2>4, <4>2
    <3>4. Len(got') = 0
      BY <3>1
    <3> QED
      BY <2>1, <3>1, <3>2, <3>3, <3>4 DEF Held
  <2> QED
    BY <2>2, <2>3, <2>4
<1>7. CASE BodyRead
  <2>1. UNCHANGED <<nodeVars, stream>> /\ stage = "body"
    BY <1>7 DEF BodyRead
  <2>2. CASE Deliver(msgLen)
    BY <2>1, <2>2, SomeRead, HeldDeliver
  <2>3. CASE Fail
    BY <2>1, <2>3 DEF Fail, GoneIdle, nodeVars, Held
  <2> QED
    BY <1>7, <2>2, <2>3 DEF BodyRead
<1>8. CASE TimesOut
  BY <1>8 DEF TimesOut, Fail, GoneIdle, nodeVars, Held
<1>9. CASE Ends
  BY <1>9 DEF Ends, Fail, GoneIdle, nodeVars, Held
<1>10. CASE UNCHANGED vars
  BY <1>10 DEF vars, nodeVars, callVars, Held
<1> QED
  BY <1>1, <1>2, <1>3, <1>4, <1>5, <1>6, <1>7, <1>8, <1>9, <1>10 DEF Next

LEMMA HeldInit == Init => Held
BY DEF Init, Held

-----------------------------------------------------------------------------
(* The channel. *)

ChannelInv == SafeInv /\ Held

Taken == [i \in DOMAIN returned |-> Message(returned[i])]

LEMMA QueueIs == Typed => Queue = Ending(Line, sizes)
<1> SUFFICES ASSUME Typed PROVE Queue = Ending(Line, sizes)
  OBVIOUS
<1>1. CASE Line = <<>>
  BY <1>1 DEF Queue, Ending
<1>2. CASE Line # <<>>
  <2>1. Line \in Seq(Places(sizes)) /\ sizes \in Seq(Nat)
    BY LineIsTyped
  <2>2. Len(Line) \in 1 .. Len(Line)
    BY <1>2, <2>1
  <2>3. Size(sizes, Line[Len(Line)]) = FrameSize(Line[Len(Line)][1])
    <3>1. sizes[Line[Len(Line)][1]] \in Nat
      BY <2>1, <2>2, WhatIsThere
    <3> QED
      BY <3>1 DEF Size, FrameSize, LengthBytes, CodeBytes
  <2>4. LastWhole(Line) = WholeUpTo(Line, sizes)
    BY <2>3 DEF LastWhole, WholeUpTo
  <2> QED
    BY <1>2, <2>4 DEF Queue, Ending, UpTo, Run
<1> QED
  BY <1>1, <1>2

LEMMA QueueIsSeq == ASSUME SafeInv PROVE Queue \in Seq(Int) /\ Len(Queue) \in Nat
<1>1. Line \in Seq(Places(sizes)) /\ sizes \in Seq(Nat) /\ Chain(Line, sizes)
      /\ Queue = Ending(Line, sizes)
  BY LineIsTyped, QueueIs DEF SafeInv, Whole
<1>2. CASE Line = <<>>
  BY <1>1, <1>2 DEF Ending
<1>3. CASE Line # <<>>
  <2>1. PICK n \in Nat : n = WholeUpTo(Line, sizes) + 1 - Line[1][1]
    BY <1>1, <1>3, WholeBounds
  <2>2. Line[1][1] \in Int
    BY <1>1, <1>3, WholeBounds
  <2>3. Queue = Run(Line[1][1], n)
    BY <1>1, <1>3, <2>1 DEF Ending, UpTo
  <2> QED
    BY <2>2, <2>3, RunIsSeq
<1> QED
  BY <1>2, <1>3

(* A call ends in any way: the messages that do no longer end are the first ones. *)
LEMMA SomeDropped ==
    ASSUME SafeInv, SafeInv', Line' = stream, UNCHANGED sizes
    PROVE  \E k \in 0 .. Len(Queue) : Queue' = SubSeq(Queue, k + 1, Len(Queue))
<1>1. /\ Line \in Seq(Places(sizes)) /\ sizes \in Seq(Nat) /\ Chain(Line, sizes)
      /\ ReadSoFar \in Seq(Places(sizes)) /\ stream \in Seq(Places(sizes))
      /\ Queue = Ending(Line, sizes)
  BY LineIsTyped, ReadIsTyped, QueueIs DEF SafeInv, Whole, Typed
<1>2. Queue' = Ending(stream, sizes)
  <2>0. (Typed => Queue = Ending(Line, sizes))'
    BY QueueIs, PTL
  <2>1. Queue' = Ending(Line', sizes')
    BY <2>0 DEF SafeInv
  <2> QED
    BY <2>1
<1>3. Chain(stream, sizes)
  BY DEF SafeInv, Whole
<1>4. CASE stream = <<>>
  <2>1. Queue' = <<>>
    BY <1>2, <1>4 DEF Ending
  <2>2. PICK l \in Nat : l = Len(Queue)
    BY QueueIsSeq
  <2>3. SubSeq(Queue, l + 1, l) = <<>>
    BY SubSeqEmpty
  <2> QED
    BY <2>1, <2>2, <2>3
<1>5. CASE stream # <<>>
  <2>1. PICK m \in Nat : m = Len(ReadSoFar)
    BY <1>1
  <2>2. Len(Line) = Len(stream) + m /\ \A j \in 1 .. Len(stream) : stream[j] = Line[j + m]
    <3> HIDE DEF ReadSoFar
    <3>1. Len(Line) = m + Len(stream) /\ \A j \in 1 .. Len(stream) : Line[j + m] = stream[j]
      BY <1>1, <2>1, Joined DEF Line
    <3> QED
      BY <1>1, <3>1
  <2>3. Line # <<>>
    BY <1>1, <1>5, <2>2
  <2>4. /\ stream[1][1] - Line[1][1] \in Nat
        /\ Ending(Line, sizes) = UpTo(Line[1][1], WholeUpTo(Line, sizes))
        /\ Ending(stream, sizes) = UpTo(stream[1][1], WholeUpTo(Line, sizes))
        /\ Line[1][1] \in Nat /\ stream[1][1] \in Nat /\ WholeUpTo(Line, sizes) \in Nat
        /\ WholeUpTo(Line, sizes) + 1 - stream[1][1] \in Nat
    BY <1>1, <1>3, <1>5, <2>2, <2>3, EndingOfSuffix
  <2>5. PICK f \in Nat : f = Line[1][1]
    BY <2>4
  <2>6. PICK g \in Nat : g = stream[1][1]
    BY <2>4
  <2>7. PICK W \in Nat : W = WholeUpTo(Line, sizes)
    BY <2>4
  <2>8. PICK n \in Nat : n = W + 1 - f
    BY <2>4, <2>5, <2>6, <2>7
  <2>9. PICK k \in 0 .. n : k = g - f
    BY <2>4, <2>5, <2>6, <2>7, <2>8
  <2>10. f \in Int /\ f + k = g /\ n - k = W + 1 - g
    BY <2>8, <2>9
  <2>11. Queue = Run(f, n) /\ Queue' = Run(f + k, n - k)
    BY <1>1, <1>2, <2>4, <2>5, <2>6, <2>7, <2>8, <2>10 DEF UpTo
  <2>12. SubSeq(Run(f, n), k + 1, n) = Run(f + k, n - k) /\ Len(Run(f, n)) = n
    BY <2>10, RunPart, RunIsSeq
  <2> QED
    BY <2>11, <2>12
<1> QED
  BY <1>4, <1>5

LEMMA TakenSame == ASSUME UNCHANGED <<sizes, returned>> PROVE Taken' = Taken
BY DEF Taken, Message, Frame, FrameSize

LEMMA TakenPost == ASSUME ChannelInv, Post PROVE Taken' = Taken
<1>1. PICK size \in BodySizes : sizes' = Append(sizes, size)
  BY DEF Post
<1>2. sizes \in Seq(Nat) /\ size \in Nat /\ UNCHANGED returned
  BY <1>1, SizeAssumption, SizesAreNat DEF ChannelInv, SafeInv, Typed, TypeOK, Post
<1>3. \A i \in 1 .. Len(sizes) : sizes'[i] = sizes[i]
  BY <1>1, <1>2, PlacesGrow
<1>4. \A i \in 1 .. Len(sizes) : Frame(i)' = Frame(i)
  BY <1>3 DEF Frame, FrameSize
<1>5. DOMAIN returned = 1 .. Len(returned)
  BY DEF ChannelInv, SafeInv, Typed, TypeOK
<1>6. \A i \in DOMAIN returned : Message(returned[i])' = Message(returned[i])
  <2> SUFFICES ASSUME NEW i \in DOMAIN returned
               PROVE  Message(returned[i])' = Message(returned[i])
    OBVIOUS
  <2>1. returned[i] \in Seq(Places(sizes)) /\ returned[i] # <<>>
    BY <1>5 DEF ChannelInv, Held
  <2>2. 1 \in 1 .. Len(returned[i])
    BY <2>1
  <2>3. returned[i][1][1] \in 1 .. Len(sizes)
    BY <1>2, <2>1, <2>2, WhatIsThere
  <2> QED
    BY <1>2, <1>4, <2>3 DEF Message
<1> QED
  BY <1>2, <1>6 DEF Taken

LEMMA TakenAppend ==
    ASSUME ChannelInv, UNCHANGED sizes, returned' = Append(returned, ReadSoFar)
    PROVE  Taken' = Append(Taken, Message(ReadSoFar))
<1> DEFINE r == ReadSoFar
           n == Len(returned)
<1>1. returned \in Seq(Seq(Bytes)) /\ r \in Seq(Bytes) /\ n \in Nat
  BY ReadIsTyped DEF ChannelInv, SafeInv, Typed, TypeOK
<1> HIDE DEF r
<1>2. returned' = Append(returned, r)
  BY DEF r
<1>3. /\ Len(returned') = n + 1 /\ DOMAIN returned' = 1 .. n + 1
      /\ returned'[n + 1] = r /\ \A i \in 1 .. n : returned'[i] = returned[i]
  <2>1. returned' \in Seq(Seq(Bytes)) /\ Len(returned') = n + 1
        /\ returned'[n + 1] = r /\ \A i \in 1 .. n : returned'[i] = returned[i]
    BY <1>1, <1>2, AppendProperties
  <2> QED
    BY <2>1
<1>4. \A x : Message(x)' = Message(x)
  BY DEF Message, Frame, FrameSize
<1> DEFINE t == Taken
<1>5. Taken' = [i \in 1 .. n + 1 |-> Message(returned'[i])]
  BY <1>3, <1>4 DEF Taken, Message, Frame, FrameSize
<1>6. t = [i \in 1 .. n |-> Message(returned[i])]
  BY <1>1 DEF Taken
<1> DEFINE S == {Message(returned[i]) : i \in 1 .. n}
<1>7. t \in Seq(S) /\ Len(t) = n
  <2>1. \A i \in 1 .. n : Message(returned[i]) \in S
    OBVIOUS
  <2> HIDE DEF S
  <2>2. DOMAIN t = 1 .. n /\ \A i \in 1 .. n : t[i] \in S
    BY <1>6, <2>1
  <2>3. t \in [1 .. n -> S]
    BY <1>6, <2>1
  <2>4. t \in Seq(S)
    BY <1>1, <2>3, SeqDef
  <2>5. Len(t) \in Nat /\ DOMAIN t = 1 .. Len(t)
    BY <2>4
  <2> QED
    BY <1>1, <2>2, <2>4, <2>5
<1> HIDE DEF S
<1>8. Append(t, Message(r)) = [i \in 1 .. n + 1 |-> Append(t, Message(r))[i]]
      /\ \A i \in 1 .. n + 1 : Append(t, Message(r))[i] = IF i = n + 1 THEN Message(r) ELSE t[i]
  <2>1. t \in Seq(S \cup {Message(r)}) /\ Message(r) \in S \cup {Message(r)}
    BY <1>7, SeqMonotonic
  <2>2. /\ Append(t, Message(r)) \in Seq(S \cup {Message(r)})
        /\ Len(Append(t, Message(r))) = n + 1
        /\ \A i \in 1 .. n : Append(t, Message(r))[i] = t[i]
        /\ Append(t, Message(r))[n + 1] = Message(r)
    BY <1>7, <2>1, AppendProperties
  <2>3. \A i \in 1 .. n + 1 : i # n + 1 => i \in 1 .. n
    BY <1>1
  <2>4. DOMAIN Append(t, Message(r)) = 1 .. n + 1
    BY <2>2
  <2>5. Append(t, Message(r)) = [i \in DOMAIN Append(t, Message(r)) |-> Append(t, Message(r))[i]]
    <3>1. \A T : \A v \in Seq(T) : v = [i \in DOMAIN v |-> v[i]]
      OBVIOUS
    <3> QED
      BY <2>2, <3>1
  <2>6. Append(t, Message(r)) = [i \in 1 .. n + 1 |-> Append(t, Message(r))[i]]
    BY <2>4, <2>5
  <2>7. \A i \in 1 .. n + 1 : Append(t, Message(r))[i] = IF i = n + 1 THEN Message(r) ELSE t[i]
    BY <2>2, <2>3
  <2> QED
    BY <2>6, <2>7
<1>9. \A i \in 1 .. n + 1 : Message(returned'[i]) = IF i = n + 1 THEN Message(r) ELSE t[i]
  <2> SUFFICES ASSUME NEW i \in 1 .. n + 1
               PROVE  Message(returned'[i]) = IF i = n + 1 THEN Message(r) ELSE t[i]
    OBVIOUS
  <2>1. CASE i = n + 1
    BY <1>3, <2>1
  <2>2. CASE i # n + 1
    <3>1. i \in 1 .. n
      BY <1>1, <2>2
    <3> QED
      BY <1>3, <1>6, <2>2, <3>1
  <2> QED
    BY <2>1, <2>2
<1> QED
  BY <1>5, <1>8, <1>9 DEF t, r

LEMMA MessageRange ==
    ASSUME ChannelInv, NEW r \in Seq(Places(sizes)), r # <<>>
    PROVE  Message(r) \in 1 .. Len(sizes) \cup {0}
<1>1. sizes \in Seq(Nat) /\ 1 \in 1 .. Len(r)
  BY SizesAreNat DEF ChannelInv, SafeInv, Typed, TypeOK
<1>2. r[1][1] \in 1 .. Len(sizes)
  BY <1>1, WhatIsThere
<1> QED
  BY <1>2 DEF Message

LEMMA MessageOfFrame ==
    ASSUME ChannelInv, NEW n \in 1 .. Len(sizes)
    PROVE  Message(Frame(n)) = n
<1>1. sizes[n] \in Nat
  BY SizesAreNat DEF ChannelInv, SafeInv, Typed, TypeOK
<1>2. FrameSize(n) \in Nat /\ 1 \in 1 .. FrameSize(n)
  BY <1>1 DEF FrameSize, LengthBytes, CodeBytes
<1>3. Frame(n)[1] = <<n, 1>>
  BY <1>2 DEF Frame
<1> QED
  BY <1>3 DEF Message

-----------------------------------------------------------------------------
(* Each step is one of the channel's. *)

LEMMA PostMaps == ASSUME ChannelInv, ChannelInv', Post PROVE Channel!Post
<1>1. Chain(Line, sizes) /\ EndsWhole(Line, sizes) /\ Typed /\ Typed'
  BY DEF ChannelInv, SafeInv, Whole, Post
<1>2. PICK size \in Nat :
              /\ sizes' = Append(sizes, size)
              /\ Line' \in Seq(Places(sizes')) /\ Len(Line') = Len(Line) + size + 5
              /\ \A j \in 1 .. Len(Line) : Line'[j] = Line[j]
              /\ \A p \in 1 .. size + 5 : Line'[Len(Line) + p] = <<Len(sizes) + 1, p>>
              /\ Chain(Line', sizes') /\ EndsWhole(Line', sizes')
  BY <1>1, PostLine
<1>3. sizes \in Seq(Nat) /\ Line \in Seq(Places(sizes))
  BY <1>1, LineIsTyped
<1>4. sizes' \in Seq(Nat) /\ Len(sizes') = Len(sizes) + 1
  BY <1>2, <1>3, PlacesGrow
<1>5. Queue = Ending(Line, sizes) /\ Queue' = Ending(Line', sizes')
  <2>1. (Typed => Queue = Ending(Line, sizes))'
    BY QueueIs, PTL
  <2> QED
    BY <1>1, <2>1, QueueIs
<1>6. Ending(Line', sizes') = Append(Ending(Line, sizes), Len(sizes) + 1)
  BY <1>1, <1>2, <1>3, <1>4, EndingGrows
<1>7. Taken' = Taken
  BY TakenPost
<1> QED
  BY <1>4, <1>5, <1>6, <1>7 DEF Channel!Post, Taken, Post

LEMMA CloseMaps == ASSUME ChannelInv, ChannelInv', Close PROVE Channel!Shut
<1>1. Chain(Line, sizes) /\ Typed /\ Typed'
  BY DEF ChannelInv, SafeInv, Whole
<1>2. UNCHANGED <<sizes, returned, torn>> /\ ~closed /\ closed' = TRUE
  BY DEF Close
<1>3. /\ Line' \in Seq(Places(sizes)) /\ Len(Line') <= Len(Line) /\ Chain(Line', sizes)
      /\ \A j \in 1 .. Len(Line') : Line'[j] = Line[j]
  BY <1>1, CloseLine
<1>4. sizes \in Seq(Nat) /\ Line \in Seq(Places(sizes))
  BY <1>1, LineIsTyped
<1>5. Queue = Ending(Line, sizes) /\ Queue' = Ending(Line', sizes)
  <2>1. (Typed => Queue = Ending(Line, sizes))'
    BY QueueIs, PTL
  <2> QED
    BY <1>1, <1>2, <2>1, QueueIs
<1>6. \E k \in 0 .. Len(Ending(Line, sizes)) : Ending(Line', sizes) = SubSeq(Ending(Line, sizes), 1, k)
  BY <1>1, <1>3, <1>4, EndingOfPrefix
<1>7. Taken' = Taken
  BY <1>2, TakenSame
<1> QED
  BY <1>2, <1>5, <1>6, <1>7 DEF Channel!Shut, Taken

(* Moving bytes from the connection to the call, and going on to the next stage. *)
LEMMA SameMaps ==
    ASSUME UNCHANGED <<sizes, closed, returned, torn>>, Line' = Line
    PROVE  UNCHANGED Channel!channelVars
<1>1. Taken' = Taken
  BY TakenSame
<1>2. Queue' = Queue
  BY DEF Queue, LastWhole, FrameSize
<1> QED
  BY <1>1, <1>2 DEF Channel!channelVars, Taken

(* A call that ends after another has failed half way. *)
LEMMA StrayMaps ==
    ASSUME ChannelInv, ChannelInv', torn, GoneIdle, UNCHANGED <<nodeVars, stream, torn>>,
           UNCHANGED returned \/ (returned' = Append(returned, ReadSoFar) /\ ReadSoFar # <<>>)
    PROVE  Channel!Stray
<1>1. Line' = stream /\ UNCHANGED <<sizes, closed, torn>>
  BY ReadIsDropped DEF ChannelInv, nodeVars
<1>2. PICK k \in 0 .. Len(Queue) : Queue' = SubSeq(Queue, k + 1, Len(Queue))
  BY <1>1, SomeDropped DEF ChannelInv
<1>3. Taken' = Taken \/ \E m \in 1 .. Len(sizes) \cup {0} : Taken' = Append(Taken, m)
  <2>1. CASE UNCHANGED returned
    BY <1>1, <2>1, TakenSame
  <2>2. CASE returned' = Append(returned, ReadSoFar) /\ ReadSoFar # <<>>
    <3>1. Taken' = Append(Taken, Message(ReadSoFar))
      BY <1>1, <2>2, TakenAppend
    <3>2. ReadSoFar \in Seq(Places(sizes))
      BY ReadIsTyped DEF ChannelInv, SafeInv
    <3>3. Message(ReadSoFar) \in 1 .. Len(sizes) \cup {0}
      BY <2>2, <3>2, MessageRange
    <3> QED
      BY <3>1, <3>3
  <2> QED
    BY <2>1, <2>2
<1> QED
  BY <1>1, <1>2, <1>3 DEF Channel!Stray, Taken

(* A whole frame is handed up: it is the first message under way. *)
LEMMA TakeMaps ==
    ASSUME ChannelInv, ChannelInv', NEW n, n = Len(returned) + 1, ~torn, ReadSoFar # <<>>,
           n \in 1 .. Len(sizes), Len(ReadSoFar) = sizes[n] + 5, Deliver(sizes[n]),
           UNCHANGED <<nodeVars, stream>>
    PROVE  Channel!Take
<1>1. /\ sizes \in Seq(Nat) /\ ReadSoFar \in Seq(Places(sizes)) /\ stream \in Seq(Places(sizes))
      /\ Chain(Line, sizes) /\ StartsWith(Line, n) /\ Typed /\ Typed'
  BY ReadIsTyped DEF ChannelInv, SafeInv, Typed, Whole, InStep
<1>2. UNCHANGED <<sizes, closed, stream, torn>> /\ GoneIdle
  BY DEF Deliver, nodeVars
<1>3. returned' = Append(returned, ReadSoFar)
  <2>1. sizes[n] \in BodySizes
    BY DEF ChannelInv, SafeInv, Typed, TypeOK
  <2>2. ReturnValue(sizes[n]) > 0
    BY <2>1, SizeAssumption
  <2> QED
    BY <2>2 DEF Deliver
<1>4. ReadSoFar = Frame(n)
  <2>1. returned \in Seq(Seq(Bytes)) /\ ReadSoFar \in Seq(Bytes)
    BY <1>1, ReadIsTyped DEF Typed, TypeOK
  <2>2. Len(returned') = n /\ returned'[n] = ReadSoFar
    <3> HIDE DEF ReadSoFar
    <3> QED
      BY <1>3, <2>1, AppendProperties
  <2>3. FramesReturned'
    BY <1>2 DEF ChannelInv, SafeInv, InStep
  <2>4. \A i \in 1 .. Len(returned') : returned'[i] = Frame(i)'
    BY <2>3 DEF FramesReturned
  <2>5. \A i : Frame(i)' = Frame(i)
    BY <1>2 DEF Frame, FrameSize
  <2>6. n \in 1 .. Len(returned')
    BY <2>1, <2>2
  <2>7. returned'[n] = Frame(n)
    BY <2>4, <2>5, <2>6
  <2> QED
    BY <2>2, <2>7
<1>5. Taken' = Append(Taken, n)
  BY <1>2, <1>3, <1>4, TakenAppend, MessageOfFrame
<1>6. Queue = Ending(Line, sizes) /\ Queue' = Ending(stream, sizes)
  <2>1. (Typed => Queue = Ending(Line, sizes))'
    BY QueueIs, PTL
  <2>2. Line' = stream
    BY <1>2, ReadIsDropped DEF ChannelInv
  <2> QED
    BY <1>1, <1>2, <2>1, <2>2, QueueIs
<1>7. Queue # <<>> /\ Head(Queue) = n /\ Tail(Queue) = Queue'
  <2> HIDE DEF ReadSoFar
  <2>1. /\ Ending(ReadSoFar \o stream, sizes) # <<>>
        /\ Head(Ending(ReadSoFar \o stream, sizes)) = n
        /\ Tail(Ending(ReadSoFar \o stream, sizes)) = Ending(stream, sizes)
    BY <1>1, EndingTaken DEF Line
  <2> QED
    BY <1>6, <2>1 DEF Line
<1> QED
  BY <1>2, <1>5, <1>7 DEF Channel!Take, Taken

(* A recv that fails leaves the frame it was reading unfinished. *)
LEMMA PartRead ==
    ASSUME ChannelInv, ~torn, Len(got) < Wanted, ReadSoFar # <<>>, NEW n, n = Len(returned) + 1
    PROVE  n \in 1 .. Len(sizes) /\ sizes[n] \in Nat /\ Len(ReadSoFar) < sizes[n] + 5
<1>1. n \in 1 .. Len(sizes) /\ sizes[n] \in Nat
  BY NextFrame DEF ChannelInv
<1>2. Len(ReadSoFar) = Len(before) + Len(got) /\ Len(before) \in Nat /\ Len(got) \in Nat
  BY ReadIsTyped DEF ChannelInv, SafeInv
<1>3. stage \in {"idle", "length", "code", "body"} /\ msgLen \in 0 .. Modulus - 1
  BY DEF ChannelInv, SafeInv, Typed, TypeOK
<1>4. CASE stage = "idle"
  BY <1>2, <1>4 DEF Wanted
<1>5. CASE stage = "length"
  <2>1. Len(before) = 0 /\ Len(got) < 4
    BY <1>5 DEF ChannelInv, SafeInv, Typed, Wanted, LengthBytes
  <2> QED
    BY <1>1, <1>2, <2>1
<1>6. CASE stage = "code"
  <2>1. Len(before) = 4 /\ Len(got) < 1
    BY <1>6 DEF ChannelInv, SafeInv, Typed, Wanted, LengthBytes, CodeBytes
  <2> QED
    BY <1>1, <1>2, <2>1
<1>7. CASE stage = "body"
  <2>1. Len(before) = 5 /\ msgLen = sizes[n]
    BY <1>7 DEF ChannelInv, SafeInv, InStep, AtItsPlace, LengthBytes, CodeBytes
  <2>2. AsInt(msgLen) \in Int /\ AsInt(msgLen) <= msgLen
    BY <1>3, IntIsNoMore
  <2>3. Len(got) < AsInt(msgLen)
    BY <1>7 DEF Wanted
  <2> QED
    BY <1>1, <1>2, <2>1, <2>2, <2>3
<1> QED
  BY <1>3, <1>4, <1>5, <1>6, <1>7

LEMMA FailMaps ==
    ASSUME ChannelInv, ChannelInv', Fail, UNCHANGED <<nodeVars, stream>>, torn \/ Len(got) < Wanted
    PROVE  Channel!Tear \/ Channel!Stray \/ UNCHANGED Channel!channelVars
<1>1. /\ sizes \in Seq(Nat) /\ ReadSoFar \in Seq(Places(sizes)) /\ stream \in Seq(Places(sizes))
      /\ Chain(Line, sizes) /\ Typed /\ Typed' /\ torn \in BOOLEAN
  BY ReadIsTyped DEF ChannelInv, SafeInv, Typed, Whole, TypeOK
<1>2. UNCHANGED <<sizes, closed, stream, returned>> /\ GoneIdle /\ torn' = (torn \/ ReadSoFar # <<>>)
  BY DEF Fail, nodeVars
<1>3. Line' = stream
  BY <1>2, ReadIsDropped DEF ChannelInv
<1>4. CASE torn
  <2>1. torn' = torn
    BY <1>1, <1>2, <1>4
  <2>2. UNCHANGED <<nodeVars, stream, torn>>
    BY <2>1
  <2>3. UNCHANGED returned \/ (returned' = Append(returned, ReadSoFar) /\ ReadSoFar # <<>>)
    BY <1>2
  <2> QED
    BY <1>2, <1>4, <2>2, <2>3, StrayMaps
<1>5. CASE ~torn /\ ReadSoFar = <<>>
  <2>1. torn' = torn
    BY <1>1, <1>2, <1>5
  <2>2. Line' = Line
    BY <1>1, <1>3, <1>5 DEF Line
  <2> QED
    BY <1>2, <2>1, <2>2, SameMaps
<1>6. CASE ~torn /\ ReadSoFar # <<>>
  <2>1. PICK n \in 1 .. Len(sizes) : /\ n = Len(returned) + 1 /\ sizes[n] \in Nat
                                     /\ Len(ReadSoFar) < sizes[n] + 5
    BY <1>6, PartRead
  <2>2. StartsWith(Line, n)
    BY <1>6, <2>1 DEF ChannelInv, SafeInv, InStep
  <2>3. Queue = Ending(Line, sizes) /\ Queue' = Ending(stream, sizes)
    <3>1. (Typed => Queue = Ending(Line, sizes))'
      BY QueueIs, PTL
    <3> QED
      BY <1>1, <1>2, <1>3, <3>1, QueueIs
  <2>4. Ending(stream, sizes) = Ending(ReadSoFar \o stream, sizes)
    <3> HIDE DEF ReadSoFar
    <3> QED
      BY <1>1, <1>6, <2>1, <2>2, EndingTorn DEF Line
  <2>5. Taken' = Taken
    BY <1>2, TakenSame
  <2>6. Queue' = Queue
    BY <2>3, <2>4 DEF Line
  <2> QED
    BY <1>2, <1>6, <2>5, <2>6 DEF Channel!Tear, Taken
<1> QED
  BY <1>1, <1>4, <1>5, <1>6

LEMMA DeliverMaps ==
    ASSUME ChannelInv, ChannelInv', torn, NEW bodyLength, Deliver(bodyLength),
           UNCHANGED <<nodeVars, stream>>, ReadSoFar # <<>>
    PROVE  Channel!Stray
<1>1. GoneIdle /\ UNCHANGED <<nodeVars, stream, torn>>
  BY DEF Deliver
<1>2. UNCHANGED returned \/ (returned' = Append(returned, ReadSoFar) /\ ReadSoFar # <<>>)
  BY DEF Deliver
<1> QED
  BY <1>1, <1>2, StrayMaps

LEMMA CodeReadMaps ==
    ASSUME ChannelInv, ChannelInv', CodeRead
    PROVE  Channel!Take \/ Channel!Stray \/ UNCHANGED Channel!channelVars
<1>1. /\ UNCHANGED <<nodeVars, stream>> /\ UNCHANGED <<sizes, closed, stream>>
      /\ stage = "code" /\ Len(got) = CodeBytes
  BY DEF CodeRead, nodeVars
<1>2. PICK length \in Lengths(before) :
          IF BodyLength(length) > 0
          THEN /\ msgLen' = BodyLength(length)
               /\ NextStage("body")
               /\ UNCHANGED <<returned, failed, torn>>
          ELSE Deliver(0)
  BY DEF CodeRead
<1>3. CASE BodyLength(length) > 0
  <2>1. NextStage("body") /\ UNCHANGED <<returned, torn>>
    BY <1>2, <1>3
  <2>2. Line' = Line
    BY <1>1, <2>1, NextStageLine DEF ChannelInv
  <2> QED
    BY <1>1, <2>1, <2>2, SameMaps
<1>4. CASE ~(BodyLength(length) > 0) /\ torn
  <2>1. Deliver(0) /\ ReadSoFar # <<>>
    BY <1>1, <1>2, <1>4, SomeRead DEF ChannelInv, SafeInv
  <2> QED
    BY <1>1, <1>4, <2>1, DeliverMaps
<1>5. CASE ~(BodyLength(length) > 0) /\ ~torn
  <2>1. PICK n : n = Len(returned) + 1
    OBVIOUS
  <2>2. /\ n \in 1 .. Len(sizes) /\ sizes[n] \in Nat /\ Len(ReadSoFar) = 5 /\ ReadSoFar # <<>>
        /\ BodyLength(length) = sizes[n]
    BY <1>1, <1>5, <2>1, LengthIsNext DEF ChannelInv
  <2>3. sizes[n] = 0 /\ Deliver(sizes[n]) /\ Len(ReadSoFar) = sizes[n] + 5
    BY <1>2, <1>5, <2>2
  <2> QED
    BY <1>1, <1>5, <2>1, <2>2, <2>3, TakeMaps
<1> QED
  BY <1>3, <1>4, <1>5

(* The size of a body of the node's is the same as an int. *)
LEMMA SizeIsInt == ASSUME NEW size \in BodySizes PROVE AsInt(size) = size
<1>1. /\ size \in Nat /\ size + 5 < Modulus /\ Modulus \in Nat \ {0}
      /\ ReturnValue(size) > 0
  BY SizeAssumption
<1>2. PICK h \in Int : h = Modulus \div 2
  BY <1>1
<1>3. (size + 5) % Modulus = size + 5
  BY <1>1
<1>4. (IF size + 5 >= h THEN size + 5 - Modulus ELSE size + 5) > 0
  <2>1. ReturnValue(size) = AsInt(size + 5)
    BY <1>1, <1>3 DEF ReturnValue, LengthBytes, CodeBytes
  <2> QED
    BY <1>1, <1>2, <2>1 DEF AsInt
<1>5. ~(size >= h)
  BY <1>1, <1>2, <1>4
<1> QED
  BY <1>2, <1>5 DEF AsInt

LEMMA BodyReadMaps ==
    ASSUME ChannelInv, ChannelInv', BodyRead
    PROVE  Channel!Take \/ Channel!Tear \/ Channel!Stray \/ UNCHANGED Channel!channelVars
<1>1. UNCHANGED <<nodeVars, stream>> /\ stage = "body" /\ Len(got) >= Wanted
  BY DEF BodyRead
<1>2. ReadSoFar # <<>>
  BY <1>1, SomeRead DEF ChannelInv, SafeInv
<1>3. CASE torn
  <2>1. CASE Deliver(msgLen)
    BY <1>1, <1>2, <1>3, <2>1, DeliverMaps
  <2>2. CASE Fail
    BY <1>1, <1>3, <2>2, FailMaps
  <2> QED
    BY <2>1, <2>2 DEF BodyRead
<1>4. CASE ~torn
  <2>1. PICK n : n = Len(returned) + 1
    OBVIOUS
  <2>2. Len(before) = 5 /\ msgLen = sizes[n]
    BY <1>1, <1>4, <2>1 DEF ChannelInv, SafeInv, InStep, AtItsPlace, LengthBytes, CodeBytes
  <2>3. Len(ReadSoFar) = 5 + Len(got) /\ Len(got) \in Nat
    BY <2>2, ReadIsTyped DEF ChannelInv, SafeInv
  <2>4. n \in 1 .. Len(sizes) /\ sizes[n] \in Nat
    BY <1>2, <1>4, <2>1, NextFrame DEF ChannelInv
  <2>5. sizes[n] \in BodySizes
    BY <2>4 DEF ChannelInv, SafeInv, Typed, TypeOK
  <2>6. Wanted = sizes[n]
    BY <1>1, <2>2, <2>5, SizeIsInt DEF Wanted
  <2>7. Len(got) <= msgLen
    BY <1>1 DEF ChannelInv, Held
  <2>8. Len(got) = sizes[n]
    BY <1>1, <2>2, <2>3, <2>4, <2>6, <2>7
  <2>9. Deliver(sizes[n]) /\ Len(ReadSoFar) = sizes[n] + 5
    BY <2>2, <2>3, <2>4, <2>8 DEF BodyRead
  <2> QED
    BY <1>1, <1>2, <1>4, <2>1, <2>4, <2>9, TakeMaps
<1> QED
  BY <1>3, <1>4

LEMMA StepMaps ==
    ASSUME ChannelInv, ChannelInv', [Next]_vars
    PROVE  [Channel!ChannelNext]_Channel!channelVars
<1>1. CASE Post
  BY <1>1, PostMaps DEF Channel!ChannelNext
<1>2. CASE Close
  BY <1>2, CloseMaps DEF Channel!ChannelNext
<1>3. CASE Begin
  <2>1. /\ UNCHANGED <<sizes, closed, stream, returned, torn>>
        /\ stage = "idle" /\ before' = <<>> /\ got' = <<>>
    BY <1>3 DEF Begin, nodeVars
  <2>2. before = <<>> /\ got = <<>>
    BY <2>1 DEF ChannelInv, SafeInv, Typed
  <2>3. Line' = Line
    BY <2>1, <2>2 DEF Line, ReadSoFar
  <2> QED
    BY <2>1, <2>3, SameMaps
<1>4. CASE Recv
  <2>1. Line' = Line
    BY <1>4, RecvLine DEF ChannelInv
  <2> QED
    BY <1>4, <2>1, SameMaps DEF Recv, nodeVars
<1>5. CASE LengthRead
  <2>1. NextStage("code") /\ UNCHANGED <<sizes, closed, stream, returned, torn>>
    BY <1>5 DEF LengthRead, nodeVars
  <2>2. Line' = Line
    BY <2>1, NextStageLine DEF ChannelInv
  <2> QED
    BY <2>1, <2>2, SameMaps
<1>6. CASE CodeRead
  BY <1>6, CodeReadMaps DEF Channel!ChannelNext
<1>7. CASE BodyRead
  BY <1>7, BodyReadMaps DEF Channel!ChannelNext
<1>8. CASE TimesOut
  BY <1>8, FailMaps DEF TimesOut, Channel!ChannelNext
<1>9. CASE Ends
  BY <1>9, FailMaps DEF Ends, Channel!ChannelNext
<1>10. CASE UNCHANGED vars
  <2>1. UNCHANGED <<sizes, closed, stream, before, got, returned, torn>>
    BY <1>10 DEF vars, nodeVars, callVars
  <2>2. Line' = Line
    BY <2>1 DEF Line, ReadSoFar
  <2> QED
    BY <2>1, <2>2, SameMaps
<1> QED
  BY <1>1, <1>2, <1>3, <1>4, <1>5, <1>6, <1>7, <1>8, <1>9, <1>10 DEF Next

LEMMA InitMaps == Init => Channel!ChannelInit
<1> SUFFICES ASSUME Init PROVE Channel!ChannelInit
  OBVIOUS
<1>1. Line = <<>>
  BY DEF Init, Line, ReadSoFar
<1>2. Queue = <<>>
  BY <1>1 DEF Queue
<1>3. [i \in DOMAIN returned |-> Message(returned[i])] = <<>>
  BY DEF Init
<1> QED
  BY <1>2, <1>3 DEF Init, Channel!ChannelInit

(* What riack_receive_message makes of the bytes of a connection is a FIFO of the
   node's messages until a call fails half way, whatever portions recv hands over:
   every step is a step of MessageChannel or none (riack_msg.c:58-90). *)
THEOREM ImplementsChannel == Spec => IsChannel
<1>1. Init => ChannelInv
  BY TypedInit, InStepInit, HeldInit DEF ChannelInv, SafeInv
<1>2. ChannelInv /\ [Next]_vars => ChannelInv'
  BY TypedNext, InStepNext, HeldNext DEF ChannelInv, SafeInv
<1>3. ChannelInv /\ ChannelInv' /\ [Next]_vars => [Channel!ChannelNext]_Channel!channelVars
  BY StepMaps
<1>4. Spec => []ChannelInv
  BY <1>1, <1>2, PTL DEF Spec
<1> QED
  BY <1>3, <1>4, InitMaps, PTL DEF Spec, IsChannel, Channel!ChannelSpec

=============================================================================
