------------------------- MODULE RiackMemoryProofs -------------------------
(***************************************************************************)
(* Proofs about RiackMemory: what the frees release is what the copies     *)
(* have allocated, each block once, for requests and results of any size,  *)
(* whatever the calls, failures and broken streams.                        *)
(*                                                                         *)
(* A copy gives a set of blocks, a free a sequence of pointers; Within     *)
(* says that the sequence lists exactly the set, each block once, and that *)
(* all of them are behind given members of the structure.  Two such frees  *)
(* behind different members can be put together (Join), and those of the   *)
(* elements of an array, by induction.                                     *)
(***************************************************************************)
EXTENDS RiackMemory, TLAPS, SequenceTheorems, WellFoundedInduction

(* Induction over the natural numbers: the library states it for an operator,
   here the hypothesis is the set of the numbers that have the property. *)
LEMMA SetInduction ==
    ASSUME NEW T, 0 \in T, \A n \in Nat : n \in T => n + 1 \in T
    PROVE  Nat \subseteq T
<1> DEFINE R == Nat \ T
           Less == {pair \in Nat \X Nat : pair[1] < pair[2]}
<1> SUFFICES ASSUME R # {} PROVE FALSE
  OBVIOUS
<1>1. IsWellFoundedOn(Less, Nat)
  BY NatLessThanWellFounded DEF OpToRel
<1>2. PICK x \in R : \A y \in R : <<y, x>> \notin Less
  <2> HIDE DEF Less
  <2> QED
    BY <1>1, WFMin
<1>3. x \in Nat /\ x # 0
  OBVIOUS
<1>4. x - 1 \in Nat /\ <<x - 1, x>> \in Less
  BY <1>3
<1> QED
  BY <1>2, <1>3, <1>4

-----------------------------------------------------------------------------
(* Paths *)

Names ==
    {"backend", "bucket", "buffer", "charset", "chash_keyfun", "content", "content_encoding",
     "content_type", "data", "datatype", "df", "documents", "fields", "filter", "fl",
     "function", "if_modified", "indexes", "key", "linkfun", "links", "modfun", "module",
     "name", "node", "op", "out", "postcommit", "precommit", "presort", "props", "put_req",
     "search_index", "search_req", "server_info", "server_version", "sort", "strings", "tag",
     "usermeta", "usermetas", "value", "vclock", "vtag"}

Members == Nat \cup Names
Paths == Seq(Members)

(* The paths that start with p. *)
From(p) == {b \in Paths : Len(p) <= Len(b) /\ \A i \in 1 .. Len(p) : b[i] = p[i]}

LEMMA OneBelow ==
    ASSUME NEW p \in Paths, NEW x \in Members
    PROVE  /\ Append(p, x) \in Paths /\ Len(Append(p, x)) = Len(p) + 1
           /\ Append(p, x)[Len(p) + 1] = x /\ Len(p) \in Nat
           /\ \A i \in 1 .. Len(p) : Append(p, x)[i] = p[i]
BY DEF Paths

LEMMA FromItself == \A p \in Paths : p \in From(p)
BY DEF From, Paths

LEMMA FromBelow ==
    ASSUME NEW p \in Paths, NEW x \in Members
    PROVE  /\ From(Append(p, x)) \subseteq From(p)
           /\ p \notin From(Append(p, x))
           /\ \A b \in From(Append(p, x)) : b[Len(p) + 1] = x
<1> DEFINE q == Append(p, x)
<1>1. PICK n \in Nat : n = Len(p)
  BY OneBelow
<1>2. q \in Paths /\ Len(q) = n + 1 /\ q[n + 1] = x /\ \A i \in 1 .. n : q[i] = p[i]
  BY <1>1, OneBelow
<1> HIDE DEF q
<1>3. n + 1 \in 1 .. n + 1 /\ \A i \in 1 .. n : i \in 1 .. n + 1
  OBVIOUS
<1>4. \A b \in Paths : Len(b) \in Nat
  BY DEF Paths
<1>5. ASSUME NEW b \in From(q) PROVE b \in From(p) /\ b[n + 1] = x
  <2>1. b \in Paths /\ n + 1 <= Len(b) /\ \A i \in 1 .. n + 1 : b[i] = q[i]
    BY <1>2, <1>5 DEF From
  <2>2. n <= Len(b) /\ b[n + 1] = x /\ \A i \in 1 .. n : b[i] = p[i]
    BY <1>2, <1>3, <1>4, <2>1
  <2> QED
    BY <1>1, <2>1, <2>2 DEF From
<1>6. p \notin From(q)
  BY <1>1, <1>2 DEF From
<1> QED
  BY <1>1, <1>5, <1>6 DEF q

-----------------------------------------------------------------------------
(* Frees that release a set of blocks, each of them once. *)

Exact(s, B) == s \in Seq(Paths) /\ IsInjective(s) /\ Range(s) = B

(* The blocks behind some members of the structure at p. *)
Behind(p, N) == UNION {From(Append(p, x)) : x \in N}

(* Exactly the blocks B are released, all of them behind members in N. *)
Within(s, B, p, N) == Exact(s, B) /\ B \subseteq Behind(p, N)

LEMMA InjectiveIs ==
    ASSUME NEW s \in Seq(Paths)
    PROVE  /\ IsInjective(s) <=> \A i, j \in 1 .. Len(s) : s[i] = s[j] => i = j
           /\ Range(s) = {s[i] : i \in 1 .. Len(s)}
BY DEF IsInjective, Range

LEMMA NothingExact == Exact(<<>>, {})
BY DEF Exact, IsInjective, Range

LEMMA OneExact == \A p \in Paths : Exact(<<p>>, {p})
<1> SUFFICES ASSUME NEW p \in Paths PROVE Exact(<<p>>, {p})
  OBVIOUS
<1>1. <<p>> \in Seq(Paths) /\ Len(<<p>>) = 1 /\ <<p>>[1] = p
  OBVIOUS
<1>2. \A i \in 1 .. Len(<<p>>) : i = 1 /\ <<p>>[i] = p
  BY <1>1
<1>3. IsInjective(<<p>>)
  BY <1>1, <1>2, InjectiveIs
<1>4. Range(<<p>>) = {p}
  <2> DEFINE s == <<p>>
  <2>1. s \in Seq(Paths) /\ 1 \in 1 .. Len(s)
    BY <1>1
  <2>2. \A i \in 1 .. Len(s) : s[i] = p
    BY <1>2
  <2> HIDE DEF s
  <2>3. Range(s) = {s[i] : i \in 1 .. Len(s)}
    BY <2>1, InjectiveIs
  <2>4. Range(s) = {p}
    BY <2>1, <2>2, <2>3
  <2> QED
    BY <2>4 DEF s
<1> QED
  BY <1>1, <1>3, <1>4 DEF Exact

LEMMA JoinExact ==
    ASSUME NEW s, NEW t, NEW B, NEW C, Exact(s, B), Exact(t, C), B \cap C = {}
    PROVE  Exact(s \o t, B \cup C)
<1>1. s \in Seq(Paths) /\ t \in Seq(Paths) /\ s \o t \in Seq(Paths)
  BY DEF Exact
<1>2. PICK m \in Nat, n \in Nat : m = Len(s) /\ n = Len(t)
  BY <1>1
<1> DEFINE u == s \o t
<1>3. /\ Len(u) = m + n
      /\ \A i \in 1 .. m : u[i] = s[i]
      /\ \A i \in 1 .. n : u[m + i] = t[i]
  BY <1>1, <1>2
<1> HIDE DEF u
<1>4. \A k \in 1 .. m + n : k \in 1 .. m \/ \E i \in 1 .. n : k = m + i
  <2> SUFFICES ASSUME NEW k \in 1 .. m + n, k \notin 1 .. m PROVE \E i \in 1 .. n : k = m + i
    OBVIOUS
  <2>1. k - m \in 1 .. n /\ k = m + (k - m)
    OBVIOUS
  <2> QED
    BY <2>1
<1>5. /\ \A i \in 1 .. m : s[i] \in B
      /\ \A i \in 1 .. n : t[i] \in C
      /\ \A i, j \in 1 .. m : s[i] = s[j] => i = j
      /\ \A i, j \in 1 .. n : t[i] = t[j] => i = j
      /\ \A b \in B : \E i \in 1 .. m : b = s[i]
      /\ \A c \in C : \E i \in 1 .. n : c = t[i]
  BY <1>1, <1>2, InjectiveIs DEF Exact
<1>6. ASSUME NEW k \in 1 .. m + n
      PROVE  \/ k \in 1 .. m /\ u[k] = s[k] /\ u[k] \in B /\ u[k] \notin C
             \/ \E i \in 1 .. n : k = m + i /\ u[k] = t[i] /\ u[k] \in C /\ u[k] \notin B
  <2>1. CASE k \in 1 .. m
    BY <1>3, <1>5, <2>1
  <2>2. CASE k \notin 1 .. m
    <3>1. PICK i \in 1 .. n : k = m + i
      BY <1>4, <2>2
    <3>2. u[k] = t[i]
      BY <1>3, <3>1
    <3> QED
      BY <1>5, <3>1, <3>2
  <2> QED
    BY <2>1, <2>2
<1>7. /\ \A i, j \in 1 .. m + n : u[i] = u[j] => i = j
      /\ \A i \in 1 .. m + n : u[i] \in B \cup C
  <2>1. ASSUME NEW i \in 1 .. m + n, NEW j \in 1 .. m + n, u[i] = u[j] PROVE i = j
    <3>1. CASE u[i] \in B
      BY <1>5, <1>6, <2>1, <3>1
    <3>2. CASE u[i] \notin B
      BY <1>5, <1>6, <2>1, <3>2
    <3> QED
      BY <3>1, <3>2
  <2> QED
    BY <1>6, <2>1
<1>8. ASSUME NEW b \in B \cup C PROVE \E i \in 1 .. m + n : b = u[i]
  <2>1. CASE b \in B
    <3>1. \A i \in 1 .. m : i \in 1 .. m + n
      OBVIOUS
    <3> QED
      BY <1>3, <1>5, <2>1, <3>1
  <2>2. CASE b \in C
    <3>1. \A i \in 1 .. n : m + i \in 1 .. m + n
      OBVIOUS
    <3> QED
      BY <1>3, <1>5, <2>2, <3>1
  <2> QED
    BY <1>8, <2>1, <2>2
<1>9. u \in Seq(Paths)
  BY <1>1 DEF u
<1>10. IsInjective(u)
  BY <1>3, <1>7, <1>9, InjectiveIs
<1>11. Range(u) = B \cup C
  BY <1>3, <1>7, <1>8, <1>9, InjectiveIs
<1> QED
  BY <1>9, <1>10, <1>11 DEF Exact, u

-----------------------------------------------------------------------------
(* Structures: members have blocks of their own. *)

LEMMA ApartBehind ==
    ASSUME NEW p \in Paths, NEW N \in SUBSET Members, NEW M \in SUBSET Members, N \cap M = {}
    PROVE  Behind(p, N) \cap Behind(p, M) = {}
<1>1. \A x \in Members : \A b \in From(Append(p, x)) : b[Len(p) + 1] = x
  BY FromBelow
<1> QED
  BY <1>1 DEF Behind

LEMMA BehindIsFrom ==
    ASSUME NEW p \in Paths, NEW N \in SUBSET Members
    PROVE  /\ Behind(p, N) \subseteq From(p) /\ p \notin Behind(p, N)
           /\ \A M \in SUBSET N : Behind(p, M) \subseteq Behind(p, N)
BY FromBelow DEF Behind

LEMMA NothingWithin == \A p, N : Within(<<>>, {}, p, N)
BY NothingExact DEF Within

LEMMA Join ==
    ASSUME NEW p \in Paths, NEW N \in SUBSET Members, NEW M \in SUBSET Members, N \cap M = {},
           NEW s, NEW t, NEW B, NEW C, Within(s, B, p, N), Within(t, C, p, M)
    PROVE  Within(s \o t, B \cup C, p, N \cup M)
<1>1. B \cap C = {}
  BY ApartBehind DEF Within
<1>2. Exact(s \o t, B \cup C)
  BY <1>1, JoinExact DEF Within
<1>3. B \cup C \subseteq Behind(p, N \cup M)
  BY DEF Within, Behind
<1> QED
  BY <1>2, <1>3 DEF Within

LEMMA Wider ==
    ASSUME NEW p \in Paths, NEW N, NEW M, M \subseteq Members, N \subseteq M,
           NEW s, NEW B, Within(s, B, p, N)
    PROVE  Within(s, B, p, M)
BY BehindIsFrom DEF Within

(* A block of one member. *)
LEMMA Leaf ==
    ASSUME NEW p \in Paths, NEW x \in Members
    PROVE  /\ Within(<<Append(p, x)>>, {Append(p, x)}, p, {x})
           /\ \A len : Within(Ptr(Append(p, x), len), Block(Append(p, x), len), p, {x})
           /\ \A opt : Within(OptPtr(Append(p, x), opt), OptBlock(Append(p, x), opt), p, {x})
<1>1. Append(p, x) \in Paths /\ Append(p, x) \in From(Append(p, x))
  BY OneBelow, FromItself
<1>2. {Append(p, x)} \subseteq Behind(p, {x})
  BY <1>1 DEF Behind
<1>3. Within(<<Append(p, x)>>, {Append(p, x)}, p, {x})
  BY <1>1, <1>2, OneExact DEF Within
<1>4. \A len : Within(Ptr(Append(p, x), len), Block(Append(p, x), len), p, {x})
  BY <1>3, NothingWithin DEF Ptr, Block
<1>5. \A opt : Within(OptPtr(Append(p, x), opt), OptBlock(Append(p, x), opt), p, {x})
  BY <1>4, NothingWithin DEF OptPtr, OptBlock
<1> QED
  BY <1>3, <1>4, <1>5

(* A structure within a structure, alone or with the block it is in. *)
LEMMA Lift ==
    ASSUME NEW p \in Paths, NEW x \in Members, NEW N \in SUBSET Members,
           NEW s, NEW B, Within(s, B, Append(p, x), N)
    PROVE  /\ Within(s, B, p, {x})
           /\ Within(s \o <<Append(p, x)>>, B \cup {Append(p, x)}, p, {x})
<1> DEFINE q == Append(p, x)
<1>1. q \in Paths
  BY OneBelow
<1>2. Behind(q, N) \subseteq From(q) /\ q \notin Behind(q, N)
  BY <1>1, BehindIsFrom
<1>3. From(q) = Behind(p, {x}) /\ q \in From(q)
  BY <1>1, FromItself DEF Behind
<1> HIDE DEF q
<1>4. Exact(s, B) /\ B \subseteq Behind(q, N)
  BY DEF Within, q
<1>5. B \cap {q} = {} /\ B \subseteq From(q)
  BY <1>2, <1>4
<1>6. Exact(s \o <<q>>, B \cup {q})
  BY <1>1, <1>4, <1>5, OneExact, JoinExact
<1>7. Within(s, B, p, {x})
  BY <1>3, <1>4, <1>5 DEF Within
<1>8. Within(s \o <<q>>, B \cup {q}, p, {x})
  BY <1>3, <1>5, <1>6 DEF Within
<1> QED
  BY <1>7, <1>8 DEF q

-----------------------------------------------------------------------------
(* Arrays: the frees of the elements one after the other. *)

FlatStep(seqs, f, i) == IF i = 1 THEN seqs[i] ELSE f[i - 1] \o seqs[i]

IsFlat(seqs, f) == f = [i \in 1 .. Len(seqs) |-> FlatStep(seqs, f, i)]

LEMMA FlattenIs ==
    ASSUME NEW seqs, Len(seqs) # 0
    PROVE  FlattenSeq(seqs) = (CHOOSE f : IsFlat(seqs, f))[Len(seqs)]
BY DEF FlattenSeq, IsFlat, FlatStep

LEMMA FlatExists ==
    ASSUME NEW seqs, Len(seqs) \in Nat
    PROVE  \E f : IsFlat(seqs, f)
<1> DEFINE T == {n \in Nat : \E f : f = [i \in 1 .. n |-> FlatStep(seqs, f, i)]}
<1>1. 0 \in T
  <2>1. 1 .. 0 = {}
    OBVIOUS
  <2> DEFINE f == [i \in 1 .. 0 |-> seqs[i]]
  <2>2. f = [i \in 1 .. 0 |-> FlatStep(seqs, f, i)]
    BY <2>1
  <2> HIDE DEF f
  <2> QED
    BY <2>2
<1>2. ASSUME NEW n \in Nat, n \in T PROVE n + 1 \in T
  <2>1. PICK f : f = [i \in 1 .. n |-> FlatStep(seqs, f, i)]
    BY <1>2
  <2> DEFINE g == [i \in 1 .. n + 1 |-> FlatStep(seqs, f, i)]
  <2>2. \A i \in 1 .. n : i \in 1 .. n + 1 /\ g[i] = f[i]
    <3>1. \A i \in 1 .. n : f[i] = FlatStep(seqs, f, i) /\ i \in 1 .. n + 1
      BY <2>1
    <3> QED
      BY <3>1
  <2>3. \A i \in 1 .. n + 1 : FlatStep(seqs, f, i) = FlatStep(seqs, g, i)
    <3>1. \A i \in 1 .. n + 1 : i # 1 => i - 1 \in 1 .. n
      OBVIOUS
    <3> HIDE DEF g
    <3> QED
      BY <2>2, <3>1 DEF FlatStep
  <2>4. g = [i \in 1 .. n + 1 |-> FlatStep(seqs, g, i)]
    BY <2>3
  <2> HIDE DEF g
  <2> QED
    BY <2>4
<1>3. Len(seqs) \in T
  <2> HIDE DEF T
  <2> QED
    BY <1>1, <1>2, SetInduction
<1> QED
  BY <1>3 DEF IsFlat

All(B, n) == UNION {B[i] : i \in 1 .. n}

(* n parts that are apart, released one after the other. *)
LEMMA Flatten ==
    ASSUME NEW p \in Paths, NEW n \in Nat, NEW seqs, NEW B, NEW M,
           DOMAIN seqs = 1 .. n, Len(seqs) = n, n = 0 => seqs = <<>>,
           \A i \in 1 .. n : M[i] \in SUBSET Members /\ Within(seqs[i], B[i], p, M[i]),
           \A i, j \in 1 .. n : i # j => M[i] \cap M[j] = {}
    PROVE  Within(FlattenSeq(seqs), All(B, n), p, All(M, n))
<1> DEFINE f == CHOOSE f : IsFlat(seqs, f)
           UB(k) == UNION {B[i] : i \in 1 .. k}
           UM(k) == UNION {M[i] : i \in 1 .. k}
           T == {k \in Nat : \A m \in 1 .. n : m = k + 1 => Within(f[m], UB(m), p, UM(m))}
<1>1. IsFlat(seqs, f)
  BY FlatExists
<1>2. \A i \in 1 .. n : f[i] = FlatStep(seqs, f, i)
  <2> HIDE DEF f
  <2> QED
    BY <1>1 DEF IsFlat
<1> HIDE DEF f
<1>3. 0 \in T
  <2> SUFFICES ASSUME NEW m \in 1 .. n, m = 0 + 1 PROVE Within(f[m], UB(m), p, UM(m))
    OBVIOUS
  <2>1. m = 1 /\ 1 .. 1 = {1}
    OBVIOUS
  <2>2. f[m] = seqs[m]
    BY <1>2, <2>1 DEF FlatStep
  <2>3. UB(m) = B[m] /\ UM(m) = M[m]
    BY <2>1
  <2> HIDE DEF UB, UM
  <2> QED
    BY <2>2, <2>3
<1>4. ASSUME NEW k \in Nat, k \in T PROVE k + 1 \in T
  <2> SUFFICES ASSUME NEW j \in 1 .. n, j = k + 1 + 1 PROVE Within(f[j], UB(j), p, UM(j))
    OBVIOUS
  <2>1. PICK m \in Nat : m = k + 1
    OBVIOUS
  <2>2. m \in 1 .. n /\ j # 1 /\ j - 1 = m /\ 1 .. j = (1 .. m) \cup {j}
        /\ \A i \in 1 .. m : i \in 1 .. n /\ i # j
    BY <2>1
  <2>3. f[j] = f[m] \o seqs[j]
    BY <1>2, <2>2 DEF FlatStep
  <2>4. Within(f[m], UB(m), p, UM(m))
    BY <1>4, <2>1, <2>2
  <2>5. UB(j) = UB(m) \cup B[j] /\ UM(j) = UM(m) \cup M[j]
    BY <2>2
  <2>6. UM(m) \cap M[j] = {} /\ UM(m) \in SUBSET Members /\ M[j] \in SUBSET Members
    BY <2>2
  <2>7. Within(seqs[j], B[j], p, M[j])
    BY <2>2
  <2> HIDE DEF UB, UM
  <2>8. Within(f[m] \o seqs[j], UB(m) \cup B[j], p, UM(m) \cup M[j])
    BY <2>4, <2>6, <2>7, Join
  <2> QED
    BY <2>3, <2>5, <2>8
<1>5. CASE n = 0
  <2>1. FlattenSeq(seqs) = <<>>
    BY <1>5 DEF FlattenSeq
  <2>2. 1 .. n = {}
    BY <1>5
  <2>3. UB(n) = {}
    BY <2>2
  <2> HIDE DEF UB, UM
  <2>4. Within(FlattenSeq(seqs), UB(n), p, UM(n))
    BY <2>1, <2>3, NothingWithin
  <2> QED
    BY <2>4 DEF UB, UM, All
<1>6. CASE n # 0
  <2>1. PICK k \in Nat : k + 1 = n
    <3>1. n - 1 \in Nat /\ (n - 1) + 1 = n
      BY <1>6
    <3> QED
      BY <3>1
  <2>2. k \in T
    <3> HIDE DEF T
    <3> QED
      BY <1>3, <1>4, SetInduction
  <2>3. Within(f[n], UB(n), p, UM(n))
    <3>1. n \in 1 .. n
      BY <1>6
    <3> HIDE DEF UB, UM
    <3> QED
      BY <2>1, <2>2, <3>1
  <2>4. FlattenSeq(seqs) = f[n]
    BY <1>6, FlattenIs DEF f
  <2> QED
    BY <2>3, <2>4 DEF All
<1> QED
  BY <1>5, <1>6

(* All of a structure's blocks, without its own. *)
Whole(s, B, p) == Within(s, B, p, Members)

LEMMA IntoMembers ==
    ASSUME NEW p \in Paths, NEW N \in SUBSET Members, NEW s, NEW B, Within(s, B, p, N)
    PROVE  Whole(s, B, p)
BY Wider DEF Whole

(* An array is released after its elements. *)
LEMMA ArrayFreed ==
    ASSUME NEW p \in Paths, NEW x \in Members, NEW n \in Nat, NEW seqs, NEW B,
           seqs = [i \in 1 .. n |-> seqs[i]],
           \A i \in 1 .. n : Within(seqs[i], B[i], Append(p, x), {i})
    PROVE  /\ Within(FlattenSeq(seqs), All(B, n), Append(p, x), 1 .. n)
           /\ Within(Append(FlattenSeq(seqs), Append(p, x)), {Append(p, x)} \cup All(B, n), p, {x})
<1> DEFINE q == Append(p, x)
           M == [i \in 1 .. n |-> {i}]
           U == All(B, n)
<1>1. DOMAIN seqs = 1 .. n /\ Len(seqs) = n /\ (n = 0 => seqs = <<>>)
  OBVIOUS
<1>2. q \in Paths
  BY OneBelow
<1>3. All(M, n) = 1 .. n /\ 1 .. n \in SUBSET Members
  BY DEF Members, All
<1>4. /\ \A i \in 1 .. n : M[i] = {i}
      /\ \A i \in 1 .. n : M[i] \in SUBSET Members
      /\ \A i, j \in 1 .. n : i # j => M[i] \cap M[j] = {}
  BY DEF Members
<1>5. \A i \in 1 .. n : Within(seqs[i], B[i], q, M[i])
  BY <1>4
<1> HIDE DEF M, q
<1>6. Within(FlattenSeq(seqs), U, q, 1 .. n)
  BY <1>1, <1>2, <1>3, <1>4, <1>5, Flatten
<1>7. Within(FlattenSeq(seqs) \o <<q>>, U \cup {q}, p, {x})
  BY <1>3, <1>6, Lift DEF q
<1>8. FlattenSeq(seqs) \in Seq(Paths)
  BY <1>6 DEF Within, Exact
<1>9. Append(FlattenSeq(seqs), q) = FlattenSeq(seqs) \o <<q>>
  BY <1>2, <1>8
<1>10. {q} \cup U = U \cup {q}
  OBVIOUS
<1> QED
  BY <1>6, <1>7, <1>9, <1>10 DEF q

LEMMA AppendIsJoin ==
    ASSUME NEW s, NEW B, NEW p, NEW N, NEW q \in Paths, Within(s, B, p, N)
    PROVE  Append(s, q) = s \o <<q>>
BY DEF Within, Exact

(* An array is released after its elements. *)
LEMMA ElementsFreed ==
    ASSUME NEW p \in Paths, NEW x \in Members, NEW s, IsList(s), NEW seqs, NEW B,
           seqs = [i \in 1 .. Len(s) |-> seqs[i]],
           \A i \in 1 .. Len(s) : Within(seqs[i], B[i], Append(p, x), {i})
    PROVE  Within(IF s = <<>> THEN <<>> ELSE Append(FlattenSeq(seqs), Append(p, x)),
                  IF s = <<>> THEN {} ELSE {Append(p, x)} \cup All(B, Len(s)), p, {x})
<1> DEFINE q == Append(p, x)
           n == Len(s)
<1>1. n \in Nat
  BY DEF IsList
<1>2. Within(Append(FlattenSeq(seqs), q), {q} \cup All(B, n), p, {x})
  BY <1>1, ArrayFreed
<1> QED
  BY <1>2, NothingWithin

(* An element that is a structure, or a pointer to one, released before its block. *)
LEMMA ElementFreed ==
    ASSUME NEW q \in Paths, NEW i \in Members, NEW s, NEW B, Whole(s, B, Append(q, i))
    PROVE  /\ Within(s, B, q, {i})
           /\ Within(Append(s, Append(q, i)), {Append(q, i)} \cup B, q, {i})
<1>1. Within(s, B, Append(q, i), Members)
  BY DEF Whole
<1>2. Within(s, B, q, {i}) /\ Within(s \o <<Append(q, i)>>, B \cup {Append(q, i)}, q, {i})
  BY <1>1, Lift
<1>3. Append(q, i) \in Paths
  BY OneBelow
<1>4. Append(s, Append(q, i)) = s \o <<Append(q, i)>>
  BY <1>1, <1>3, AppendIsJoin
<1>5. B \cup {Append(q, i)} = {Append(q, i)} \cup B
  OBVIOUS
<1> QED
  BY <1>2, <1>4, <1>5

(* The texts of a structure. *)
LEMMA TextsFreed ==
    ASSUME NEW p \in Paths, NEW names \in Seq(Names), NEW s,
           \A i, j \in 1 .. Len(names) : names[i] = names[j] => i = j
    PROVE  Within(TextPtrs(names, s, p), TextBlocks(names, s, p), p, {names[i] : i \in 1 .. Len(names)})
<1> DEFINE n == Len(names)
           seqs == [i \in 1 .. n |-> OptPtr(Append(p, names[i]), s[names[i]])]
           B == [i \in 1 .. n |-> OptBlock(Append(p, names[i]), s[names[i]])]
           M == [i \in 1 .. n |-> {names[i]}]
<1>1. n \in Nat /\ \A i \in 1 .. n : names[i] \in Members
  BY DEF Members
<1>2. DOMAIN seqs = 1 .. n /\ Len(seqs) = n /\ (n = 0 => seqs = <<>>)
  BY <1>1
<1>3. \A i \in 1 .. n : M[i] \in SUBSET Members /\ Within(seqs[i], B[i], p, M[i])
  BY <1>1, Leaf
<1>4. \A i, j \in 1 .. n : i # j => M[i] \cap M[j] = {}
  OBVIOUS
<1>5. /\ All(B, n) = TextBlocks(names, s, p)
      /\ All(M, n) = {names[i] : i \in 1 .. n}
      /\ FlattenSeq(seqs) = TextPtrs(names, s, p)
  BY DEF TextBlocks, TextPtrs, All
<1> HIDE DEF seqs, B, M
<1>6. Within(FlattenSeq(seqs), All(B, n), p, All(M, n))
  BY <1>1, <1>2, <1>3, <1>4, Flatten
<1> QED
  BY <1>5, <1>6

-----------------------------------------------------------------------------
(* The structures: what each free function releases is what its copy allocated. *)

LEMMA NamesAreMembers == (\A name \in Names : name \in Members) /\ \A i \in Nat : i \in Members
BY DEF Members

LEMMA PairFreed ==
    ASSUME NEW p \in Paths, NEW pair
    PROVE  /\ Whole(riack_free_copied_rpb_pair(pair, p), riack_copy_pair_to_rpbpair(pair, p), p)
           /\ Whole(riack_free_copied_pair(pair, p), riack_copy_rpbpair_to_pair(pair, p), p)
<1>1. "key" \in Names /\ "value" \in Names
  BY DEF Names
<1>2. "key" \in Members /\ "value" \in Members /\ {"key"} \cap {"value"} = {}
  BY <1>1, NamesAreMembers
<1> DEFINE k == "key"
           v == "value"
<1>3. k \in Members /\ v \in Members /\ {k} \cap {v} = {}
  BY <1>2
<1> HIDE DEF k, v
<1>4. /\ Within(Ptr(Append(p, k), pair.key), Block(Append(p, k), pair.key), p, {k})
      /\ Within(OptPtr(Append(p, v), pair.value), OptBlock(Append(p, v), pair.value), p, {v})
  BY <1>3, Leaf
<1>5. Within(Ptr(Append(p, k), pair.key) \o OptPtr(Append(p, v), pair.value),
             Block(Append(p, k), pair.key) \cup OptBlock(Append(p, v), pair.value),
             p, {k} \cup {v})
  BY <1>3, <1>4, Join
<1>6. {k} \cup {v} \in SUBSET Members
  BY <1>3
<1>7. Whole(Ptr(Append(p, k), pair.key) \o OptPtr(Append(p, v), pair.value),
            Block(Append(p, k), pair.key) \cup OptBlock(Append(p, v), pair.value), p)
  BY <1>5, <1>6, IntoMembers
<1> QED
  BY <1>7 DEF riack_free_copied_rpb_pair, riack_copy_pair_to_rpbpair, riack_free_copied_pair,
     riack_copy_rpbpair_to_pair, k, v

LEMMA LinkTextsAre ==
    /\ LinkTexts \in Seq(Names) /\ Len(LinkTexts) = 3
    /\ \A i, j \in 1 .. 3 : LinkTexts[i] = LinkTexts[j] => i = j
<1>1. LinkTexts[1] = "bucket" /\ LinkTexts[2] = "key" /\ LinkTexts[3] = "tag"
  BY DEF LinkTexts
<1>2. 1 .. 3 = {1, 2, 3}
  OBVIOUS
<1>3. LinkTexts \in Seq(Names)
  BY DEF LinkTexts, Names
<1>4. Len(LinkTexts) = 3
  BY DEF LinkTexts
<1> QED
  BY <1>1, <1>2, <1>3, <1>4

LEMMA LinkFreed ==
    ASSUME NEW p \in Paths, NEW link
    PROVE  /\ Whole(riack_free_copied_rpb_link(link, p), riack_copy_link_to_rpblink(link, p), p)
           /\ Whole(riack_free_copied_link(link, p), riack_copy_rpblink_to_link(link, p), p)
<1> DEFINE N == {LinkTexts[i] : i \in 1 .. Len(LinkTexts)}
<1>1. Within(TextPtrs(LinkTexts, link, p), TextBlocks(LinkTexts, link, p), p, N)
  BY LinkTextsAre, TextsFreed
<1>2. N \in SUBSET Members
  <2>1. \A i \in 1 .. Len(LinkTexts) : LinkTexts[i] \in Names
    BY LinkTextsAre
  <2> QED
    BY <2>1, NamesAreMembers
<1> HIDE DEF N
<1>3. Whole(TextPtrs(LinkTexts, link, p), TextBlocks(LinkTexts, link, p), p)
  BY <1>1, <1>2, IntoMembers
<1> QED
  BY <1>3 DEF riack_free_copied_rpb_link, riack_copy_link_to_rpblink, riack_free_copied_link,
     riack_copy_rpblink_to_link

-----------------------------------------------------------------------------
(* Arrays of pairs and links. *)

LEMMA PairsFreed ==
    ASSUME NEW p \in Paths, NEW x \in Members, NEW s, IsList(s)
    PROVE  Within(FreeArray(Append(p, x), s, riack_free_copied_pair),
                  Array(Append(p, x), s, riack_copy_rpbpair_to_pair), p, {x})
<1> DEFINE q == Append(p, x)
           seqs == [i \in 1 .. Len(s) |-> riack_free_copied_pair(s[i], Append(q, i))]
           B == [i \in 1 .. Len(s) |-> riack_copy_rpbpair_to_pair(s[i], Append(q, i))]
<1>1. q \in Paths /\ \A i \in 1 .. Len(s) : i \in Members /\ Append(q, i) \in Paths
  BY OneBelow, NamesAreMembers DEF IsList
<1>2. /\ FreeArray(q, s, riack_free_copied_pair) =
           IF s = <<>> THEN <<>> ELSE Append(FlattenSeq(seqs), q)
      /\ Array(q, s, riack_copy_rpbpair_to_pair) = IF s = <<>> THEN {} ELSE {q} \cup All(B, Len(s))
  BY DEF FreeArray, Array, All
<1>3. ASSUME NEW i \in 1 .. Len(s) PROVE Within(seqs[i], B[i], q, {i})
  <2> HIDE DEF q
  <2>1. Whole(riack_free_copied_pair(s[i], Append(q, i)),
              riack_copy_rpbpair_to_pair(s[i], Append(q, i)), Append(q, i))
    BY <1>1, PairFreed
  <2> QED
    BY <1>1, <2>1, ElementFreed
<1>4. seqs = [i \in 1 .. Len(s) |-> seqs[i]]
  OBVIOUS
<1> HIDE DEF seqs, B
<1> QED
  BY <1>2, <1>3, <1>4, ElementsFreed

LEMMA LinksFreed ==
    ASSUME NEW p \in Paths, NEW x \in Members, NEW s, IsList(s)
    PROVE  Within(FreeArray(Append(p, x), s, riack_free_copied_link),
                  Array(Append(p, x), s, riack_copy_rpblink_to_link), p, {x})
<1> DEFINE q == Append(p, x)
           seqs == [i \in 1 .. Len(s) |-> riack_free_copied_link(s[i], Append(q, i))]
           B == [i \in 1 .. Len(s) |-> riack_copy_rpblink_to_link(s[i], Append(q, i))]
<1>1. q \in Paths /\ \A i \in 1 .. Len(s) : i \in Members /\ Append(q, i) \in Paths
  BY OneBelow, NamesAreMembers DEF IsList
<1>2. /\ FreeArray(q, s, riack_free_copied_link) =
           IF s = <<>> THEN <<>> ELSE Append(FlattenSeq(seqs), q)
      /\ Array(q, s, riack_copy_rpblink_to_link) = IF s = <<>> THEN {} ELSE {q} \cup All(B, Len(s))
  BY DEF FreeArray, Array, All
<1>3. ASSUME NEW i \in 1 .. Len(s) PROVE Within(seqs[i], B[i], q, {i})
  <2> HIDE DEF q
  <2>1. Whole(riack_free_copied_link(s[i], Append(q, i)),
              riack_copy_rpblink_to_link(s[i], Append(q, i)), Append(q, i))
    BY <1>1, LinkFreed
  <2> QED
    BY <1>1, <2>1, ElementFreed
<1>4. seqs = [i \in 1 .. Len(s) |-> seqs[i]]
  OBVIOUS
<1> HIDE DEF seqs, B
<1> QED
  BY <1>2, <1>3, <1>4, ElementsFreed

LEMMA RpbPairsFreed ==
    ASSUME NEW p \in Paths, NEW x \in Members, NEW s, IsList(s)
    PROVE  Within(FreePtrArray(Append(p, x), s, riack_free_copied_rpb_pair),
                  PtrArray(Append(p, x), s, riack_copy_pair_to_rpbpair), p, {x})
<1> DEFINE q == Append(p, x)
           seqs == [i \in 1 .. Len(s) |-> Append(riack_free_copied_rpb_pair(s[i], Append(q, i)), Append(q, i))]
           B == [i \in 1 .. Len(s) |-> {Append(q, i)} \cup riack_copy_pair_to_rpbpair(s[i], Append(q, i))]
<1>1. q \in Paths /\ \A i \in 1 .. Len(s) : i \in Members /\ Append(q, i) \in Paths
  BY OneBelow, NamesAreMembers DEF IsList
<1>2. /\ FreePtrArray(q, s, riack_free_copied_rpb_pair) =
           IF s = <<>> THEN <<>> ELSE Append(FlattenSeq(seqs), q)
      /\ PtrArray(q, s, riack_copy_pair_to_rpbpair) = IF s = <<>> THEN {} ELSE {q} \cup All(B, Len(s))
  BY DEF FreePtrArray, FreeArray, PtrArray, Array, All
<1>3. ASSUME NEW i \in 1 .. Len(s) PROVE Within(seqs[i], B[i], q, {i})
  <2> HIDE DEF q
  <2>1. Whole(riack_free_copied_rpb_pair(s[i], Append(q, i)),
              riack_copy_pair_to_rpbpair(s[i], Append(q, i)), Append(q, i))
    BY <1>1, PairFreed
  <2> QED
    BY <1>1, <2>1, ElementFreed
<1>4. seqs = [i \in 1 .. Len(s) |-> seqs[i]]
  OBVIOUS
<1> HIDE DEF seqs, B
<1> QED
  BY <1>2, <1>3, <1>4, ElementsFreed

LEMMA RpbLinksFreed ==
    ASSUME NEW p \in Paths, NEW x \in Members, NEW s, IsList(s)
    PROVE  Within(FreePtrArray(Append(p, x), s, riack_free_copied_rpb_link),
                  PtrArray(Append(p, x), s, riack_copy_link_to_rpblink), p, {x})
<1> DEFINE q == Append(p, x)
           seqs == [i \in 1 .. Len(s) |-> Append(riack_free_copied_rpb_link(s[i], Append(q, i)), Append(q, i))]
           B == [i \in 1 .. Len(s) |-> {Append(q, i)} \cup riack_copy_link_to_rpblink(s[i], Append(q, i))]
<1>1. q \in Paths /\ \A i \in 1 .. Len(s) : i \in Members /\ Append(q, i) \in Paths
  BY OneBelow, NamesAreMembers DEF IsList
<1>2. /\ FreePtrArray(q, s, riack_free_copied_rpb_link) =
           IF s = <<>> THEN <<>> ELSE Append(FlattenSeq(seqs), q)
      /\ PtrArray(q, s, riack_copy_link_to_rpblink) = IF s = <<>> THEN {} ELSE {q} \cup All(B, Len(s))
  BY DEF FreePtrArray, FreeArray, PtrArray, Array, All
<1>3. ASSUME NEW i \in 1 .. Len(s) PROVE Within(seqs[i], B[i], q, {i})
  <2> HIDE DEF q
  <2>1. Whole(riack_free_copied_rpb_link(s[i], Append(q, i)),
              riack_copy_link_to_rpblink(s[i], Append(q, i)), Append(q, i))
    BY <1>1, LinkFreed
  <2> QED
    BY <1>1, <2>1, ElementFreed
<1>4. seqs = [i \in 1 .. Len(s) |-> seqs[i]]
  OBVIOUS
<1> HIDE DEF seqs, B
<1> QED
  BY <1>2, <1>3, <1>4, ElementsFreed

-----------------------------------------------------------------------------
(* Contents: texts, data and three lists. *)

TextNames == {Texts[i] : i \in 1 .. Len(Texts)}

LEMMA TextNamesAre ==
    /\ TextNames \in SUBSET Members
    /\ TextNames \cap {"data", "indexes", "usermeta", "usermetas", "links"} = {}
    /\ \A p \in Paths : \A c : Within(TextPtrs(Texts, c, p), TextBlocks(Texts, c, p), p, TextNames)
<1>1. /\ Texts[1] = "charset" /\ Texts[2] = "content_encoding" /\ Texts[3] = "content_type"
      /\ Texts[4] = "vtag"
  BY DEF Texts
<1>2. 1 .. 4 = {1, 2, 3, 4}
  OBVIOUS
<1>3. Texts \in Seq(Names)
  BY DEF Texts, Names
<1>4. Len(Texts) = 4
  BY DEF Texts
<1>5. TextNames = {"charset", "content_encoding", "content_type", "vtag"}
  BY <1>1, <1>2, <1>4 DEF TextNames
<1>6. \A i, j \in 1 .. Len(Texts) : Texts[i] = Texts[j] => i = j
  BY <1>1, <1>2, <1>4
<1>7. TextNames \in SUBSET Names
  BY <1>5 DEF Names
<1>8. \A p \in Paths : \A c : Within(TextPtrs(Texts, c, p), TextBlocks(Texts, c, p), p, TextNames)
  BY <1>3, <1>6, TextsFreed DEF TextNames
<1>9. TextNames \cap {"data", "indexes", "usermeta", "usermetas", "links"} = {}
  BY <1>5
<1> QED
  BY <1>7, <1>8, <1>9, NamesAreMembers

LEMMA FiveFreed ==
    ASSUME NEW p \in Paths, NEW usermeta \in {"usermeta", "usermetas"},
           NEW t, NEW d, NEW i, NEW u, NEW l, NEW T, NEW D, NEW I, NEW U, NEW L,
           Within(t, T, p, TextNames), Within(d, D, p, {"data"}), Within(i, I, p, {"indexes"}),
           Within(u, U, p, {usermeta}), Within(l, L, p, {"links"})
    PROVE  /\ Whole(t \o d \o i \o u \o l, T \cup D \cup L \cup U \cup I, p)
           /\ Whole(t \o d \o i \o u \o l, T \cup D \cup I \cup U \cup L, p)
<1>1. /\ TextNames \in SUBSET Members
      /\ TextNames \cap {"data", "indexes", "usermeta", "usermetas", "links"} = {}
  BY TextNamesAre
<1>2. {"data", "indexes", "usermeta", "usermetas", "links"} \in SUBSET Names
  BY DEF Names
<1>3. {"data"} \in SUBSET Members /\ TextNames \cap {"data"} = {}
  BY <1>1, <1>2, NamesAreMembers
<1>4. {"indexes"} \in SUBSET Members /\ (TextNames \cup {"data"}) \cap {"indexes"} = {}
  BY <1>1, <1>2, NamesAreMembers
<1>5. /\ {usermeta} \in SUBSET Members
      /\ (TextNames \cup {"data"} \cup {"indexes"}) \cap {usermeta} = {}
  BY <1>1, <1>2, NamesAreMembers
<1>6. /\ {"links"} \in SUBSET Members
      /\ (TextNames \cup {"data"} \cup {"indexes"} \cup {usermeta}) \cap {"links"} = {}
  BY <1>1, <1>2, NamesAreMembers
<1>7. Within(t \o d, T \cup D, p, TextNames \cup {"data"})
  BY <1>1, <1>3, Join
<1>8. Within(t \o d \o i, T \cup D \cup I, p, TextNames \cup {"data"} \cup {"indexes"})
  BY <1>1, <1>3, <1>4, <1>7, Join
<1>9. Within(t \o d \o i \o u, T \cup D \cup I \cup U,
             p, TextNames \cup {"data"} \cup {"indexes"} \cup {usermeta})
  BY <1>1, <1>3, <1>4, <1>5, <1>8, Join
<1>10. Within(t \o d \o i \o u \o l, T \cup D \cup I \cup U \cup L,
              p, TextNames \cup {"data"} \cup {"indexes"} \cup {usermeta} \cup {"links"})
  BY <1>1, <1>3, <1>4, <1>5, <1>6, <1>9, Join
<1>11. Whole(t \o d \o i \o u \o l, T \cup D \cup I \cup U \cup L, p)
  BY <1>1, <1>3, <1>4, <1>5, <1>6, <1>10, IntoMembers
<1>12. T \cup D \cup I \cup U \cup L = T \cup D \cup L \cup U \cup I
  OBVIOUS
<1> QED
  BY <1>11, <1>12

LEMMA ContentFreed ==
    ASSUME NEW p \in Paths, NEW c, Content(c)
    PROVE  /\ Whole(riack_free_copied_rpb_content(c, p), riack_copy_content_to_rpbcontent(c, p), p)
           /\ Whole(riack_free_content(c, p), riack_copy_rpbcontent_to_content(c, p), p)
<1>1. {"data", "indexes", "usermeta", "usermetas", "links"} \subseteq Members
  BY NamesAreMembers DEF Names
<1>2. IsList(c.links) /\ IsList(c.usermeta) /\ IsList(c.indexes)
  BY DEF Content
<1>3. Within(TextPtrs(Texts, c, p), TextBlocks(Texts, c, p), p, TextNames)
  BY TextNamesAre
<1>4. Within(Ptr(Append(p, "data"), c.data), Block(Append(p, "data"), c.data), p, {"data"})
  BY <1>1, Leaf
<1>5. Whole(riack_free_copied_rpb_content(c, p), riack_copy_content_to_rpbcontent(c, p), p)
  <2>1. Within(FreePtrArray(Append(p, "indexes"), c.indexes, riack_free_copied_rpb_pair),
               PtrArray(Append(p, "indexes"), c.indexes, riack_copy_pair_to_rpbpair), p, {"indexes"})
    BY <1>1, <1>2, RpbPairsFreed
  <2>2. Within(FreePtrArray(Append(p, "usermeta"), c.usermeta, riack_free_copied_rpb_pair),
               PtrArray(Append(p, "usermeta"), c.usermeta, riack_copy_pair_to_rpbpair), p, {"usermeta"})
    BY <1>1, <1>2, RpbPairsFreed
  <2>3. Within(FreePtrArray(Append(p, "links"), c.links, riack_free_copied_rpb_link),
               PtrArray(Append(p, "links"), c.links, riack_copy_link_to_rpblink), p, {"links"})
    BY <1>1, <1>2, RpbLinksFreed
  <2> QED
    BY <1>3, <1>4, <2>1, <2>2, <2>3, FiveFreed
    DEF riack_free_copied_rpb_content, riack_copy_content_to_rpbcontent
<1>6. Whole(riack_free_content(c, p), riack_copy_rpbcontent_to_content(c, p), p)
  <2>1. Within(FreeArray(Append(p, "indexes"), c.indexes, riack_free_copied_pair),
               Array(Append(p, "indexes"), c.indexes, riack_copy_rpbpair_to_pair), p, {"indexes"})
    BY <1>1, <1>2, PairsFreed
  <2>2. Within(FreeArray(Append(p, "usermetas"), c.usermeta, riack_free_copied_pair),
               Array(Append(p, "usermetas"), c.usermeta, riack_copy_rpbpair_to_pair), p, {"usermetas"})
    BY <1>1, <1>2, PairsFreed
  <2>3. Within(FreeArray(Append(p, "links"), c.links, riack_free_copied_link),
               Array(Append(p, "links"), c.links, riack_copy_rpblink_to_link), p, {"links"})
    BY <1>1, <1>2, LinksFreed
  <2> QED
    BY <1>3, <1>4, <2>1, <2>2, <2>3, FiveFreed
    DEF riack_free_content, riack_copy_rpbcontent_to_content
<1> QED
  BY <1>5, <1>6

-----------------------------------------------------------------------------
(* Requests. *)

(* A structure and its block behind what is released first. *)
LEMMA JoinLast ==
    ASSUME NEW p \in Paths, NEW N \in SUBSET Members, NEW x \in Members, x \notin N,
           NEW s, NEW B, Within(s, B, p, N), NEW t, NEW C, Whole(t, C, Append(p, x))
    PROVE  Within(s \o t \o <<Append(p, x)>>, B \cup C \cup {Append(p, x)}, p, N \cup {x})
<1> DEFINE q == Append(p, x)
<1>1. q \in Paths
  BY OneBelow
<1>2. Within(t, C, q, Members)
  BY DEF Whole
<1>3. Within(t, C, p, {x})
  BY <1>2, Lift
<1>4. Within(s \o t, B \cup C, p, N \cup {x})
  BY <1>3, Join
<1>5. q \notin C /\ q \in From(q)
  BY <1>1, <1>2, BehindIsFrom, FromItself DEF Within
<1>6. q \in Behind(p, {x})
  BY <1>5 DEF Behind
<1>7. q \notin B
  <2>1. N \cap {x} = {}
    OBVIOUS
  <2>2. Behind(p, N) \cap Behind(p, {x}) = {}
    BY <2>1, ApartBehind
  <2> QED
    BY <1>6, <2>2 DEF Within
<1> HIDE DEF q
<1>8. Exact(s \o t \o <<q>>, B \cup C \cup {q})
  <2>1. Exact(s \o t, B \cup C) /\ Exact(<<q>>, {q}) /\ (B \cup C) \cap {q} = {}
    BY <1>1, <1>4, <1>5, <1>7, OneExact DEF Within
  <2> QED
    BY <2>1, JoinExact
<1>9. {q} \subseteq Behind(p, N \cup {x}) /\ B \cup C \subseteq Behind(p, N \cup {x})
  BY <1>4, <1>6 DEF Within, Behind
<1>10. B \cup C \cup {q} \subseteq Behind(p, N \cup {x})
  BY <1>9
<1> QED
  BY <1>8, <1>10 DEF Within, q

LEMMA PutReqFreed ==
    ASSUME NEW p \in Paths, NEW o, Content(o.content)
    PROVE  Whole(riack_free_copied_rpb_put_req(o, p), riack_copy_object_to_rpbputreq(o, p), p)
<1> DEFINE b == Block(Append(p, "bucket"), o.bucket)
           v == OptBlock(Append(p, "vclock"), o.vclock)
           k == OptBlock(Append(p, "key"), o.key)
           q == Append(p, "content")
           c == riack_copy_content_to_rpbcontent(o.content, q)
<1>1. {"bucket", "vclock", "key", "content"} \subseteq Members
  BY NamesAreMembers DEF Names
<1>2. /\ Within(Ptr(Append(p, "bucket"), o.bucket), b, p, {"bucket"})
      /\ Within(OptPtr(Append(p, "vclock"), o.vclock), v, p, {"vclock"})
      /\ Within(OptPtr(Append(p, "key"), o.key), k, p, {"key"})
  BY <1>1, Leaf
<1>3. Whole(riack_free_copied_rpb_content(o.content, q), c, q)
  BY <1>1, OneBelow, ContentFreed
<1> HIDE DEF b, v, k, c
<1>4. {"bucket"} \cap {"vclock"} = {} /\ ({"bucket"} \cup {"vclock"}) \cap {"key"} = {}
      /\ "content" \notin {"bucket"} \cup {"vclock"} \cup {"key"}
  OBVIOUS
<1>5. Within(Ptr(Append(p, "bucket"), o.bucket) \o OptPtr(Append(p, "vclock"), o.vclock), b \cup v,
             p, {"bucket"} \cup {"vclock"})
  BY <1>1, <1>2, <1>4, Join
<1>6. Within(Ptr(Append(p, "bucket"), o.bucket) \o OptPtr(Append(p, "vclock"), o.vclock)
                 \o OptPtr(Append(p, "key"), o.key), b \cup v \cup k,
             p, {"bucket"} \cup {"vclock"} \cup {"key"})
  BY <1>1, <1>2, <1>4, <1>5, Join
<1>7. Within(riack_free_copied_rpb_put_req(o, p), b \cup v \cup k \cup c \cup {q},
             p, {"bucket"} \cup {"vclock"} \cup {"key"} \cup {"content"})
  BY <1>1, <1>3, <1>4, <1>6, JoinLast DEF riack_free_copied_rpb_put_req
<1>8. riack_copy_object_to_rpbputreq(o, p) = b \cup v \cup k \cup c \cup {q}
  BY DEF riack_copy_object_to_rpbputreq, b, v, k, c
<1>9. {"bucket"} \cup {"vclock"} \cup {"key"} \cup {"content"} \in SUBSET Members
  BY <1>1
<1> QED
  BY <1>7, <1>8, <1>9, IntoMembers

(* The structures of call n. *)
LEMMA CallPaths ==
    ASSUME NEW n \in Nat
    PROVE  /\ <<n>> \in Paths /\ Len(<<n>>) = 1 /\ <<n>>[1] = n
           /\ \A x \in Names : <<n, x>> = Append(<<n>>, x) /\ <<n, x>> \in Paths
<1>1. <<n>> \in Seq(Members)
  BY NamesAreMembers
<1>2. \A x \in Names : <<n, x>> = Append(<<n>>, x)
  OBVIOUS
<1>3. \A x \in Names : <<n, x>> \in Paths
  BY <1>1, <1>2, OneBelow, NamesAreMembers DEF Paths
<1>4. Len(<<n>>) = 1 /\ <<n>>[1] = n
  OBVIOUS
<1> QED
  BY <1>1, <1>2, <1>3, <1>4 DEF Paths

LEMMA CallOf ==
    ASSUME NEW n \in Nat, NEW N \in SUBSET Members, NEW b \in Behind(<<n>>, N)
    PROVE  b[1] = n /\ b[2] \in N
<1> DEFINE p == <<n>>
<1>1. p \in Paths /\ Len(p) = 1 /\ p[1] = n
  BY CallPaths
<1> HIDE DEF p
<1>2. PICK x \in N : b \in From(Append(p, x))
  BY DEF Behind, p
<1>3. b \in From(p) /\ b[Len(p) + 1] = x
  BY <1>1, <1>2, FromBelow
<1> QED
  BY <1>1, <1>2, <1>3 DEF From

(* What is left of a request when the command has returned, and freed then. *)
RequestTemp(kind, args, n, answered) ==
    CASE kind = "put" -> riack_copy_object_to_rpbputreq(args, <<n, "put_req">>)
      [] kind = "put_simple" ->
             riack_copy_object_to_rpbputreq(args, <<n, "put_req">>) \cup {<<n, "content">>}
      [] kind = "delete" -> OptBlock(<<n, "vclock">>, args)
      [] kind = "server_info" /\ answered -> {<<n, "server_info">>}
      [] OTHER -> {}

LEMMA RequestFreed ==
    ASSUME NEW n \in Nat, NEW kind, NEW args, NEW wanted, RequestOK(kind, args, wanted), NEW answered
    PROVE  Within(RequestPtrs(kind, args, n, answered), RequestTemp(kind, args, n, answered),
                  <<n>>, {"put_req", "content", "vclock", "server_info"})
<1> DEFINE N == {"put_req", "content", "vclock", "server_info"}
           p == <<n>>
<1>1. p \in Paths /\ \A x \in Names : <<n, x>> = Append(p, x) /\ <<n, x>> \in Paths
  BY CallPaths
<1>2. N \subseteq Names /\ N \subseteq Members
  BY NamesAreMembers DEF Names
<1>3. /\ "put_req" \in N /\ "content" \in N /\ "vclock" \in N /\ "server_info" \in N
      /\ {"put_req"} \cap {"content"} = {} /\ {"put_req"} \cup {"content"} \subseteq N
  OBVIOUS
<1> HIDE DEF N, p
<1>4. ASSUME kind \in {"put", "put_simple"}
      PROVE  Within(riack_free_copied_rpb_put_req(args, <<n, "put_req">>),
                    riack_copy_object_to_rpbputreq(args, <<n, "put_req">>), p, {"put_req"})
  <2>1. Content(args.content)
    BY <1>4 DEF RequestOK
  <2>2. Whole(riack_free_copied_rpb_put_req(args, <<n, "put_req">>),
              riack_copy_object_to_rpbputreq(args, <<n, "put_req">>), <<n, "put_req">>)
    BY <1>1, <1>2, <1>3, <2>1, PutReqFreed
  <2>3. "put_req" \in Members /\ <<n, "put_req">> = Append(p, "put_req")
    BY <1>1, <1>2, <1>3
  <2>4. Whole(riack_free_copied_rpb_put_req(args, <<n, "put_req">>),
              riack_copy_object_to_rpbputreq(args, <<n, "put_req">>), Append(p, "put_req"))
    BY <2>2, <2>3
  <2> QED
    BY <1>1, <2>3, <2>4, ElementFreed
<1>5. CASE kind = "put"
  <2>1. /\ RequestPtrs(kind, args, n, answered) = riack_free_copied_rpb_put_req(args, <<n, "put_req">>)
        /\ RequestTemp(kind, args, n, answered) = riack_copy_object_to_rpbputreq(args, <<n, "put_req">>)
    BY <1>5 DEF RequestPtrs, RequestTemp
  <2>2. {"put_req"} \subseteq N
    BY <1>3
  <2> QED
    BY <1>1, <1>2, <1>4, <1>5, <2>1, <2>2, Wider DEF p, N
<1>6. CASE kind = "put_simple"
  <2> DEFINE s == riack_free_copied_rpb_put_req(args, <<n, "put_req">>)
             B == riack_copy_object_to_rpbputreq(args, <<n, "put_req">>)
  <2>1. /\ RequestPtrs(kind, args, n, answered) = Append(s, <<n, "content">>)
        /\ RequestTemp(kind, args, n, answered) = B \cup {<<n, "content">>}
    BY <1>6 DEF RequestPtrs, RequestTemp
  <2>2. Within(s, B, p, {"put_req"})
    BY <1>4, <1>6
  <2>3. Within(<<<<n, "content">>>>, {<<n, "content">>}, p, {"content"})
    BY <1>1, <1>2, <1>3, Leaf
  <2> HIDE DEF s, B
  <2>4. Within(s \o <<<<n, "content">>>>, B \cup {<<n, "content">>}, p, {"put_req"} \cup {"content"})
    BY <1>1, <1>2, <1>3, <2>2, <2>3, Join
  <2>5. <<n, "content">> \in Paths
    BY <1>1, <1>2, <1>3
  <2>6. Append(s, <<n, "content">>) = s \o <<<<n, "content">>>>
    BY <2>2, <2>5, AppendIsJoin
  <2>7. Within(Append(s, <<n, "content">>), B \cup {<<n, "content">>}, p, N)
    <3> DEFINE M == {"put_req"} \cup {"content"}
    <3>1. Within(Append(s, <<n, "content">>), B \cup {<<n, "content">>}, p, M)
      BY <2>4, <2>6
    <3>2. M \subseteq N
      BY <1>3
    <3> HIDE DEF M
    <3> QED
      BY <1>1, <1>2, <3>1, <3>2, Wider
  <2> QED
    BY <2>1, <2>7 DEF p, N
<1>7. CASE kind = "delete"
  <2>1. /\ RequestPtrs(kind, args, n, answered) = OptPtr(<<n, "vclock">>, args)
        /\ RequestTemp(kind, args, n, answered) = OptBlock(<<n, "vclock">>, args)
    BY <1>7 DEF RequestPtrs, RequestTemp
  <2>2. Within(OptPtr(<<n, "vclock">>, args), OptBlock(<<n, "vclock">>, args), p, {"vclock"})
    BY <1>1, <1>2, <1>3, Leaf
  <2>3. {"vclock"} \subseteq N
    BY <1>3
  <2> QED
    BY <1>1, <1>2, <2>1, <2>2, <2>3, Wider DEF p, N
<1>8. CASE kind = "server_info" /\ answered
  <2>1. /\ RequestPtrs(kind, args, n, answered) = <<<<n, "server_info">>>>
        /\ RequestTemp(kind, args, n, answered) = {<<n, "server_info">>}
    BY <1>8 DEF RequestPtrs, RequestTemp
  <2>2. Within(<<<<n, "server_info">>>>, {<<n, "server_info">>}, p, {"server_info"})
    BY <1>1, <1>2, <1>3, Leaf
  <2>3. {"server_info"} \subseteq N
    BY <1>3
  <2> QED
    BY <1>1, <1>2, <2>1, <2>2, <2>3, Wider DEF p, N
<1>9. CASE kind \notin {"put", "put_simple", "delete"} /\ ~(kind = "server_info" /\ answered)
  <2>1. /\ RequestPtrs(kind, args, n, answered) = <<>>
        /\ RequestTemp(kind, args, n, answered) = {}
    BY <1>9 DEF RequestPtrs, RequestTemp
  <2> QED
    BY <2>1, NothingWithin
<1> QED
  BY <1>5, <1>6, <1>7, <1>8, <1>9

(* With the buffer: all a call frees when its command has returned. *)
TempNames == {"put_req", "content", "vclock", "server_info", "buffer"}

Temp(kind, args, n, answered) == RequestTemp(kind, args, n, answered) \cup Range(Buffer(kind, n))

(* What a call frees before it returns are blocks it has allocated for its
   request, each once. *)
THEOREM TempFreed ==
    ASSUME NEW n \in Nat, NEW kind, NEW args, NEW wanted, RequestOK(kind, args, wanted), NEW answered
    PROVE  Within(RequestPtrs(kind, args, n, answered) \o Buffer(kind, n),
                  Temp(kind, args, n, answered), <<n>>, TempNames)
<1> DEFINE N == {"put_req", "content", "vclock", "server_info"}
<1>1. <<n>> \in Paths /\ \A x \in Names : <<n, x>> = Append(<<n>>, x)
  BY CallPaths
<1>2. N \subseteq Members /\ "buffer" \in Members /\ "buffer" \in Names
  BY NamesAreMembers DEF Names
<1>3. N \cap {"buffer"} = {} /\ N \cup {"buffer"} = TempNames
  BY DEF TempNames
<1>4. Within(Buffer(kind, n), Range(Buffer(kind, n)), <<n>>, {"buffer"})
  <2>1. Within(<<<<n, "buffer">>>>, {<<n, "buffer">>}, <<n>>, {"buffer"})
    BY <1>1, <1>2, Leaf
  <2>2. Range(<<<<n, "buffer">>>>) = {<<n, "buffer">>} /\ Range(<<>>) = {}
    BY <2>1, NothingExact DEF Within, Exact
  <2> QED
    BY <2>1, <2>2, NothingWithin DEF Buffer
<1>5. Within(RequestPtrs(kind, args, n, answered), RequestTemp(kind, args, n, answered), <<n>>, N)
  BY RequestFreed
<1> HIDE DEF N
<1>6. Within(RequestPtrs(kind, args, n, answered) \o Buffer(kind, n),
             RequestTemp(kind, args, n, answered) \cup Range(Buffer(kind, n)), <<n>>, N \cup {"buffer"})
  BY <1>1, <1>2, <1>3, <1>4, <1>5, Join
<1> QED
  BY <1>3, <1>6 DEF Temp

-----------------------------------------------------------------------------
(* Results. *)

LEMMA ContentsFreed ==
    ASSUME NEW p \in Paths, NEW x \in Members, NEW s, IsList(s), \A i \in 1 .. Len(s) : Content(s[i])
    PROVE  Within(FreeArray(Append(p, x), s, riack_free_content),
                  Array(Append(p, x), s, riack_copy_rpbcontent_to_content), p, {x})
<1> DEFINE q == Append(p, x)
           seqs == [i \in 1 .. Len(s) |-> riack_free_content(s[i], Append(q, i))]
           B == [i \in 1 .. Len(s) |-> riack_copy_rpbcontent_to_content(s[i], Append(q, i))]
<1>1. q \in Paths /\ \A i \in 1 .. Len(s) : i \in Members /\ Append(q, i) \in Paths
  BY OneBelow, NamesAreMembers DEF IsList
<1>2. /\ FreeArray(q, s, riack_free_content) =
           IF s = <<>> THEN <<>> ELSE Append(FlattenSeq(seqs), q)
      /\ Array(q, s, riack_copy_rpbcontent_to_content) = IF s = <<>> THEN {} ELSE {q} \cup All(B, Len(s))
  BY DEF FreeArray, Array, All
<1>3. ASSUME NEW i \in 1 .. Len(s) PROVE Within(seqs[i], B[i], q, {i})
  <2> HIDE DEF q
  <2>1. Whole(riack_free_content(s[i], Append(q, i)),
              riack_copy_rpbcontent_to_content(s[i], Append(q, i)), Append(q, i))
    BY <1>1, ContentFreed
  <2> QED
    BY <1>1, <2>1, ElementFreed
<1>4. seqs = [i \in 1 .. Len(s) |-> seqs[i]]
  OBVIOUS
<1> HIDE DEF seqs, B
<1> QED
  BY <1>2, <1>3, <1>4, ElementsFreed

LEMMA DocumentsFreed ==
    ASSUME NEW p \in Paths, NEW x \in Members, NEW s, IsList(s), \A i \in 1 .. Len(s) : IsList(s[i])
    PROVE  Within(FreeArray(Append(p, x), s, riack_free_search_document),
                  Array(Append(p, x), s, riack_copy_rpbsearchdoc_to_searchdoc), p, {x})
<1> DEFINE q == Append(p, x)
           seqs == [i \in 1 .. Len(s) |-> riack_free_search_document(s[i], Append(q, i))]
           B == [i \in 1 .. Len(s) |-> riack_copy_rpbsearchdoc_to_searchdoc(s[i], Append(q, i))]
<1>1. q \in Paths /\ \A i \in 1 .. Len(s) : i \in Members /\ Append(q, i) \in Paths
  BY OneBelow, NamesAreMembers DEF IsList
<1>2. /\ FreeArray(q, s, riack_free_search_document) =
           IF s = <<>> THEN <<>> ELSE Append(FlattenSeq(seqs), q)
      /\ Array(q, s, riack_copy_rpbsearchdoc_to_searchdoc) =
           IF s = <<>> THEN {} ELSE {q} \cup All(B, Len(s))
  BY DEF FreeArray, Array, All
<1>3. ASSUME NEW i \in 1 .. Len(s) PROVE Within(seqs[i], B[i], q, {i})
  <2> HIDE DEF q
  <2> DEFINE r == Append(q, i)
  <2>1. r \in Paths /\ "fields" \in Members
    BY <1>1, NamesAreMembers DEF Names
  <2>2. Within(FreeArray(Append(r, "fields"), s[i], riack_free_copied_pair),
               Array(Append(r, "fields"), s[i], riack_copy_rpbpair_to_pair), r, {"fields"})
    BY <2>1, PairsFreed
  <2>3. Whole(riack_free_search_document(s[i], r), riack_copy_rpbsearchdoc_to_searchdoc(s[i], r), r)
    BY <2>1, <2>2, IntoMembers
    DEF riack_free_search_document, riack_copy_rpbsearchdoc_to_searchdoc
  <2> QED
    BY <1>1, <2>3, ElementFreed
<1>4. seqs = [i \in 1 .. Len(s) |-> seqs[i]]
  OBVIOUS
<1> HIDE DEF seqs, B
<1> QED
  BY <1>2, <1>3, <1>4, ElementsFreed

LEMMA StringsFreed ==
    ASSUME NEW p \in Paths, NEW x \in Members, NEW s, IsList(s)
    PROVE  Within(FreeArray(Append(p, x), s, LAMBDA len, q : Ptr(q, len)),
                  Array(Append(p, x), s, LAMBDA len, q : Block(q, len)), p, {x})
<1> DEFINE q == Append(p, x)
           seqs == [i \in 1 .. Len(s) |-> Ptr(Append(q, i), s[i])]
           B == [i \in 1 .. Len(s) |-> Block(Append(q, i), s[i])]
<1>1. q \in Paths /\ \A i \in 1 .. Len(s) : i \in Members
  BY OneBelow, NamesAreMembers DEF IsList
<1>2. /\ FreeArray(q, s, LAMBDA len, r : Ptr(r, len)) =
           IF s = <<>> THEN <<>> ELSE Append(FlattenSeq(seqs), q)
      /\ Array(q, s, LAMBDA len, r : Block(r, len)) =
           IF s = <<>> THEN {} ELSE {q} \cup All(B, Len(s))
  BY DEF FreeArray, Array, All
<1>3. ASSUME NEW i \in 1 .. Len(s) PROVE Within(seqs[i], B[i], q, {i})
  <2> HIDE DEF q
  <2> QED
    BY <1>1, Leaf
<1>4. seqs = [i \in 1 .. Len(s) |-> seqs[i]]
  OBVIOUS
<1> HIDE DEF seqs, B
<1> QED
  BY <1>2, <1>3, <1>4, ElementsFreed

(* An allocated string, and the text behind an optional data. *)
LEMMA StringFreed ==
    ASSUME NEW p \in Paths, NEW x \in Members, NEW len
    PROVE  Within(riack_free_string_p(len, Append(p, x)), riack_string_alloc(len, Append(p, x)), p, {x})
<1> DEFINE q == Append(p, x)
<1>1. q \in Paths /\ "value" \in Members
  BY OneBelow, NamesAreMembers DEF Names
<1>2. Within(Ptr(Append(q, "value"), len), Block(Append(q, "value"), len), q, {"value"})
  BY <1>1, Leaf
<1>3. Whole(Ptr(Append(q, "value"), len), Block(Append(q, "value"), len), q)
  BY <1>1, <1>2, IntoMembers
<1> QED
  BY <1>3, ElementFreed DEF riack_free_string_p, riack_string_alloc

LEMMA DataFreed ==
    ASSUME NEW p \in Paths, NEW x \in Members, NEW data
    PROVE  Within(Append(OptPtr(Append(p, x) \o <<"data">>, data), Append(p, x)),
                  riack_copy_strmapred_to_mapred(data, Append(p, x)), p, {x})
<1> DEFINE q == Append(p, x)
<1>1. q \in Paths /\ "data" \in Members
  BY OneBelow, NamesAreMembers DEF Names
<1>2. Within(OptPtr(Append(q, "data"), data), OptBlock(Append(q, "data"), data), q, {"data"})
  BY <1>1, Leaf
<1>3. Whole(OptPtr(Append(q, "data"), data), OptBlock(Append(q, "data"), data), q)
  BY <1>1, <1>2, IntoMembers
<1>4. q \o <<"data">> = Append(q, "data")
  <2> HIDE DEF q
  <2> QED
    BY <1>1 DEF Paths
<1> QED
  BY <1>3, <1>4, ElementFreed DEF riack_copy_strmapred_to_mapred

LEMMA ObjectFreed ==
    ASSUME NEW p \in Paths, NEW o, Object(o)
    PROVE  Whole(riack_free_object(o, p), riak_set_object_response_values(o, p), p)
<1>1. {"key", "vclock", "content"} \subseteq Members
  BY NamesAreMembers DEF Names
<1>2. /\ Within(OptPtr(Append(p, "key"), o.key), OptBlock(Append(p, "key"), o.key), p, {"key"})
      /\ Within(OptPtr(Append(p, "vclock"), o.vclock), OptBlock(Append(p, "vclock"), o.vclock), p, {"vclock"})
  BY <1>1, Leaf
<1>3. Within(FreeArray(Append(p, "content"), o.content, riack_free_content),
             Array(Append(p, "content"), o.content, riack_copy_rpbcontent_to_content), p, {"content"})
  BY <1>1, ContentsFreed DEF Object
<1>4. {"key"} \cap {"vclock"} = {} /\ ({"key"} \cup {"vclock"}) \cap {"content"} = {}
  OBVIOUS
<1>5. Within(OptPtr(Append(p, "key"), o.key) \o OptPtr(Append(p, "vclock"), o.vclock),
             OptBlock(Append(p, "key"), o.key) \cup OptBlock(Append(p, "vclock"), o.vclock),
             p, {"key"} \cup {"vclock"})
  BY <1>1, <1>2, <1>4, Join
<1>6. Within(riack_free_object(o, p), riak_set_object_response_values(o, p),
             p, {"key"} \cup {"vclock"} \cup {"content"})
  BY <1>1, <1>3, <1>4, <1>5, Join DEF riack_free_object, riak_set_object_response_values
<1>7. {"key"} \cup {"vclock"} \cup {"content"} \in SUBSET Members
  BY <1>1
<1> QED
  BY <1>6, <1>7, IntoMembers

(* What the result of call n points to, and the values it can have. *)
ResultKinds ==
    {"get", "put", "search", "list_buckets", "list_keys", "map_reduce", "get_clientid", "server_info"}

ValOK(kind, val) ==
    /\ kind \in ResultKinds
    /\ IF kind = "map_reduce" THEN IsList(val) ELSE ReplyOK(kind, val)

Info == <<"node", "server_version">>

InfoBlocks(name, info, p) == IF info[name] = <<>> THEN {} ELSE riack_string_alloc(info[name][1], Append(p, name))
InfoPtrs(name, info, p) == IF info[name] = <<>> THEN <<>> ELSE riack_free_string_p(info[name][1], Append(p, name))

KeyBlocks(keys, p, i) == riack_string_linked_list_add(keys[i], Append(p, i))
DataBlocks(results, p, i) == riack_copy_strmapred_to_mapred(results[i], Append(p, i))

OutBlocks(kind, val, n) ==
    LET p == <<n, "out">>
    IN  CASE kind = "server_info" -> InfoBlocks("node", val, p) \cup InfoBlocks("server_version", val, p)
          [] kind = "list_keys" -> UNION {KeyBlocks(val, p, i) : i \in 1 .. Len(val)}
          [] kind = "map_reduce" -> UNION {DataBlocks(val, p, i) : i \in 1 .. Len(val)}
          [] kind = "list_buckets" -> {p} \cup ReplyBlocks(kind, val, 0, n)
          [] OTHER -> ReplyBlocks(kind, val, 0, n)

LEMMA InfoFreed ==
    ASSUME NEW p \in Paths, NEW info
    PROVE  Whole(ServerInfoPtrs(info, p), InfoBlocks("node", info, p) \cup InfoBlocks("server_version", info, p), p)
<1> DEFINE seqs == [i \in 1 .. 2 |-> InfoPtrs(Info[i], info, p)]
           B == [i \in 1 .. 2 |-> InfoBlocks(Info[i], info, p)]
           M == [i \in 1 .. 2 |-> {Info[i]}]
<1>1. Info[1] = "node" /\ Info[2] = "server_version" /\ 1 .. 2 = {1, 2}
  BY DEF Info
<1>2. {"node", "server_version"} \subseteq Members
  BY NamesAreMembers DEF Names
<1>3. ServerInfoPtrs(info, p) = FlattenSeq(seqs)
  BY DEF ServerInfoPtrs, InfoPtrs, Info
<1>4. \A i \in 1 .. 2 : M[i] \in SUBSET Members
  BY <1>1, <1>2
<1>5. \A i, j \in 1 .. 2 : i # j => M[i] \cap M[j] = {}
  BY <1>1
<1>6. ASSUME NEW i \in 1 .. 2 PROVE Within(seqs[i], B[i], p, M[i])
  <2> DEFINE name == Info[i]
  <2>1. name \in Members
    BY <1>1, <1>2
  <2> HIDE DEF name
  <2>2. Within(InfoPtrs(name, info, p), InfoBlocks(name, info, p), p, {name})
    BY <2>1, StringFreed, NothingWithin DEF InfoPtrs, InfoBlocks
  <2> QED
    BY <2>2 DEF name
<1>7. DOMAIN seqs = 1 .. 2 /\ Len(seqs) = 2
  OBVIOUS
<1>8. All(B, 2) = InfoBlocks("node", info, p) \cup InfoBlocks("server_version", info, p)
  <2>1. B[1] = InfoBlocks("node", info, p) /\ B[2] = InfoBlocks("server_version", info, p)
    BY <1>1
  <2> HIDE DEF B
  <2> QED
    BY <1>1, <2>1 DEF All
<1>9. All(M, 2) \in SUBSET Members
  <2> HIDE DEF M
  <2> QED
    BY <1>4 DEF All
<1> HIDE DEF seqs, B, M
<1>10. Within(FlattenSeq(seqs), All(B, 2), p, All(M, 2))
  <2>1. PICK n \in Nat : n = 2
    OBVIOUS
  <2>2. n # 0 /\ DOMAIN seqs = 1 .. n /\ Len(seqs) = n
    BY <1>7, <2>1
  <2>3. \A i \in 1 .. n : M[i] \in SUBSET Members /\ Within(seqs[i], B[i], p, M[i])
    BY <1>4, <1>6, <2>1
  <2>4. \A i, j \in 1 .. n : i # j => M[i] \cap M[j] = {}
    BY <1>5, <2>1
  <2>5. Within(FlattenSeq(seqs), All(B, n), p, All(M, n))
    BY <2>2, <2>3, <2>4, Flatten
  <2> QED
    BY <2>1, <2>5
<1> QED
  BY <1>3, <1>8, <1>9, <1>10, IntoMembers

(* A list of elements at p, behind member x of the structure at r. *)
LEMMA ListFreed ==
    ASSUME NEW r \in Paths, NEW x \in Members, NEW s, IsList(s), NEW seqs, NEW B,
           seqs = [i \in 1 .. Len(s) |-> seqs[i]],
           \A i \in 1 .. Len(s) : Within(seqs[i], B[i], Append(r, x), {i})
    PROVE  Within(FlattenSeq(seqs), All(B, Len(s)), r, {x})
<1> DEFINE n == Len(s)
<1>1. n \in Nat
  BY DEF IsList
<1>2. Within(FlattenSeq(seqs), All(B, n), Append(r, x), 1 .. n)
  BY <1>1, ArrayFreed
<1>3. 1 .. n \in SUBSET Members
  BY <1>1, NamesAreMembers
<1> QED
  BY <1>2, <1>3, Lift

LEMMA KeysFreed ==
    ASSUME NEW r \in Paths, NEW x \in Members, NEW s, IsList(s)
    PROVE  Within(riack_free_string_linked_list_p(s, Append(r, x)),
                  UNION {KeyBlocks(s, Append(r, x), i) : i \in 1 .. Len(s)}, r, {x})
<1> DEFINE p == Append(r, x)
           seqs == [i \in 1 .. Len(s) |-> riack_free_string_p(s[i], Append(p, i))]
           B == [i \in 1 .. Len(s) |-> KeyBlocks(s, p, i)]
<1>1. p \in Paths /\ \A i \in 1 .. Len(s) : i \in Members
  BY OneBelow, NamesAreMembers DEF IsList
<1>2. riack_free_string_linked_list_p(s, p) = FlattenSeq(seqs)
  BY DEF riack_free_string_linked_list_p
<1>3. UNION {KeyBlocks(s, p, i) : i \in 1 .. Len(s)} = All(B, Len(s))
  BY DEF All
<1>4. ASSUME NEW i \in 1 .. Len(s) PROVE Within(seqs[i], B[i], p, {i})
  <2> HIDE DEF p
  <2> QED
    BY <1>1, StringFreed DEF KeyBlocks, riack_string_alloc, riack_string_linked_list_add
<1>5. seqs = [i \in 1 .. Len(s) |-> seqs[i]]
  OBVIOUS
<1> HIDE DEF seqs, B
<1>6. Within(FlattenSeq(seqs), All(B, Len(s)), r, {x})
  BY <1>4, <1>5, ListFreed
<1> QED
  BY <1>2, <1>3, <1>6

LEMMA ResultsFreed ==
    ASSUME NEW r \in Paths, NEW x \in Members, NEW s, IsList(s)
    PROVE  Within(riack_free_mapred_result(s, Append(r, x)),
                  UNION {DataBlocks(s, Append(r, x), i) : i \in 1 .. Len(s)}, r, {x})
<1> DEFINE p == Append(r, x)
           seqs == [i \in 1 .. Len(s) |->
                       Append(OptPtr(Append(p, i) \o <<"data">>, s[i]), Append(p, i))]
           B == [i \in 1 .. Len(s) |-> DataBlocks(s, p, i)]
<1>1. p \in Paths /\ \A i \in 1 .. Len(s) : i \in Members
  BY OneBelow, NamesAreMembers DEF IsList
<1>2. riack_free_mapred_result(s, p) = FlattenSeq(seqs)
  BY DEF riack_free_mapred_result
<1>3. UNION {DataBlocks(s, p, i) : i \in 1 .. Len(s)} = All(B, Len(s))
  BY DEF All
<1>4. ASSUME NEW i \in 1 .. Len(s) PROVE Within(seqs[i], B[i], p, {i})
  <2> HIDE DEF p
  <2> QED
    BY <1>1, DataFreed DEF DataBlocks
<1>5. seqs = [i \in 1 .. Len(s) |-> seqs[i]]
  OBVIOUS
<1> HIDE DEF seqs, B
<1>6. Within(FlattenSeq(seqs), All(B, Len(s)), r, {x})
  BY <1>4, <1>5, ListFreed
<1> QED
  BY <1>2, <1>3, <1>6

(* The free function of a result releases exactly the blocks the callbacks
   have copied for it, each once: for every kind of result, of any size (the
   copies and frees of riack_helpers.c, riack_kv.c and riack_search.c). *)
THEOREM ResultFreed ==
    ASSUME NEW n \in Nat, NEW kind, NEW val, ValOK(kind, val)
    PROVE  Within(OutPtrs(kind, val, n), OutBlocks(kind, val, n), <<n>>, {"out"})
<1> DEFINE r == <<n>>
           p == <<n, "out">>
<1>1. {"out", "documents", "strings"} \subseteq Members
  BY NamesAreMembers DEF Names
<1>2. r \in Paths /\ p = Append(r, "out") /\ p \in Paths
  BY CallPaths DEF Names
<1> HIDE DEF r, p
<1>3. ASSUME NEW s, NEW B, Whole(s, B, p)
      PROVE  Within(s, B, r, {"out"}) /\ Within(Append(s, p), {p} \cup B, r, {"out"})
  BY <1>1, <1>2, <1>3, ElementFreed
<1>4. CASE kind \in {"get", "put"}
  <2>1. Object(val) /\ (kind = "get" => val.key = <<>>)
    BY <1>4 DEF ValOK, ReplyOK
  <2>2. OutPtrs(kind, val, n) = Append(riack_free_object(val, p), p)
    BY <1>4 DEF OutPtrs, p
  <2>3. OutBlocks(kind, val, n) = {p} \cup riak_set_object_response_values(val, p)
    <3>1. CASE kind = "put"
      BY <3>1 DEF OutBlocks, ReplyBlocks, p
    <3>2. CASE kind = "get"
      <4>1. OutBlocks(kind, val, n) = {p} \cup riak_set_object_response_values_get(val, p)
        BY <3>2 DEF OutBlocks, ReplyBlocks, p
      <4>2. riak_set_object_response_values_get(val, p) = riak_set_object_response_values(val, p)
        BY <2>1, <3>2 DEF riak_set_object_response_values_get, riak_set_object_response_values, OptBlock
      <4> QED
        BY <4>1, <4>2
    <3> QED
      BY <1>4, <3>1, <3>2
  <2>4. Whole(riack_free_object(val, p), riak_set_object_response_values(val, p), p)
    BY <1>2, <2>1, ObjectFreed
  <2> QED
    BY <1>3, <2>2, <2>3, <2>4 DEF r
<1>5. CASE kind = "search"
  <2>1. IsList(val) /\ \A i \in 1 .. Len(val) : IsList(val[i])
    BY <1>5 DEF ValOK, ReplyOK
  <2>2. Within(FreeArray(Append(p, "documents"), val, riack_free_search_document),
               Array(Append(p, "documents"), val, riack_copy_rpbsearchdoc_to_searchdoc),
               p, {"documents"})
    BY <1>1, <1>2, <2>1, DocumentsFreed
  <2>3. Whole(FreeArray(Append(p, "documents"), val, riack_free_search_document),
              Array(Append(p, "documents"), val, riack_copy_rpbsearchdoc_to_searchdoc), p)
    BY <1>1, <1>2, <2>2, IntoMembers
  <2>4. OutPtrs(kind, val, n) =
            Append(FreeArray(Append(p, "documents"), val, riack_free_search_document), p)
    BY <1>5 DEF OutPtrs, riack_free_search_result_p, p
  <2>5. OutBlocks(kind, val, n) =
            {p} \cup Array(Append(p, "documents"), val, riack_copy_rpbsearchdoc_to_searchdoc)
    BY <1>5 DEF OutBlocks, ReplyBlocks, riack_set_search_result_from_response, p
  <2> QED
    BY <1>3, <2>3, <2>4, <2>5 DEF r
<1>6. CASE kind = "list_buckets"
  <2>1. IsList(val)
    BY <1>6 DEF ValOK, ReplyOK
  <2>2. Within(FreeArray(Append(p, "strings"), val, LAMBDA len, q : Ptr(q, len)),
               Array(Append(p, "strings"), val, LAMBDA len, q : Block(q, len)), p, {"strings"})
    BY <1>1, <1>2, <2>1, StringsFreed
  <2>3. Whole(FreeArray(Append(p, "strings"), val, LAMBDA len, q : Ptr(q, len)),
              Array(Append(p, "strings"), val, LAMBDA len, q : Block(q, len)), p)
    BY <1>1, <1>2, <2>2, IntoMembers
  <2>4. OutPtrs(kind, val, n) =
            Append(FreeArray(Append(p, "strings"), val, LAMBDA len, q : Ptr(q, len)), p)
    BY <1>6 DEF OutPtrs, riack_free_string_list_p, p
  <2>5. OutBlocks(kind, val, n) =
            {p} \cup Array(Append(p, "strings"), val, LAMBDA len, q : Block(q, len))
    BY <1>6 DEF OutBlocks, ReplyBlocks, riack_list_buckets_ext_cb, p
  <2> QED
    BY <1>3, <2>3, <2>4, <2>5 DEF r
<1>7. CASE kind = "get_clientid"
  <2>1. OutPtrs(kind, val, n) = riack_free_string_p(val, p)
    BY <1>7 DEF OutPtrs, p
  <2>2. OutBlocks(kind, val, n) = riack_string_alloc(val, p)
    BY <1>7 DEF OutBlocks, ReplyBlocks, p
  <2> QED
    BY <1>1, <1>2, <2>1, <2>2, StringFreed DEF r
<1>8. CASE kind = "server_info"
  <2>1. OutPtrs(kind, val, n) = ServerInfoPtrs(val, p)
    BY <1>8 DEF OutPtrs, p
  <2>2. OutBlocks(kind, val, n) = InfoBlocks("node", val, p) \cup InfoBlocks("server_version", val, p)
    BY <1>8 DEF OutBlocks, p
  <2> QED
    BY <1>2, <1>3, <2>1, <2>2, InfoFreed DEF r
<1>9. CASE kind = "list_keys"
  <2>1. IsList(val)
    BY <1>9 DEF ValOK, ReplyOK
  <2>2. OutPtrs(kind, val, n) = riack_free_string_linked_list_p(val, p)
    BY <1>9 DEF OutPtrs, p
  <2>3. OutBlocks(kind, val, n) = UNION {KeyBlocks(val, p, i) : i \in 1 .. Len(val)}
    BY <1>9 DEF OutBlocks, p
  <2> QED
    BY <1>1, <1>2, <2>1, <2>2, <2>3, KeysFreed DEF r
<1>10. CASE kind = "map_reduce"
  <2>1. IsList(val)
    BY <1>10 DEF ValOK
  <2>2. OutPtrs(kind, val, n) = riack_free_mapred_result(val, p)
    BY <1>10 DEF OutPtrs, p
  <2>3. OutBlocks(kind, val, n) = UNION {DataBlocks(val, p, i) : i \in 1 .. Len(val)}
    BY <1>10 DEF OutBlocks, p
  <2> QED
    BY <1>1, <1>2, <2>1, <2>2, <2>3, ResultsFreed DEF r
<1> QED
  BY <1>4, <1>5, <1>6, <1>7, <1>8, <1>9, <1>10 DEF ValOK, ResultKinds

-----------------------------------------------------------------------------
(* What a reply adds to a result. *)

LEMMA ListIsSeq ==
    ASSUME NEW s, IsList(s), NEW S, \A i \in 1 .. Len(s) : s[i] \in S
    PROVE  s \in Seq(S)
<1>1. PICK n \in Nat : n = Len(s)
  BY DEF IsList
<1>2. s = [i \in 1 .. n |-> s[i]]
  BY <1>1 DEF IsList
<1>3. s \in [1 .. n -> S]
  BY <1>1, <1>2
<1> QED
  BY <1>3

LEMMA ListsJoin ==
    ASSUME NEW s, NEW t, IsList(s), IsList(t)
    PROVE  /\ IsList(s \o t) /\ Len(s \o t) = Len(s) + Len(t)
           /\ \A i \in 1 .. Len(s) : (s \o t)[i] = s[i]
           /\ \A i \in 1 .. Len(t) : (s \o t)[Len(s) + i] = t[i]
<1> DEFINE S == {s[i] : i \in 1 .. Len(s)} \cup {t[i] : i \in 1 .. Len(t)}
<1>1. s \in Seq(S) /\ t \in Seq(S)
  BY ListIsSeq
<1> HIDE DEF S
<1> DEFINE u == s \o t
<1>2. /\ u \in Seq(S) /\ Len(u) = Len(s) + Len(t)
      /\ \A i \in 1 .. Len(s) : u[i] = s[i]
      /\ \A i \in 1 .. Len(t) : u[Len(s) + i] = t[i]
  BY <1>1
<1> HIDE DEF u
<1>3. Len(u) \in Nat /\ u = [i \in 1 .. Len(u) |-> u[i]]
  BY <1>2
<1> QED
  BY <1>2, <1>3 DEF IsList, u

LEMMA PartsJoin ==
    ASSUME NEW m \in Nat, NEW n \in Nat
    PROVE  /\ \A i \in 1 .. m + n : i \in 1 .. m \/ \E j \in 1 .. n : i = m + j
           /\ \A i \in 1 .. m : i \in 1 .. m + n
           /\ \A j \in 1 .. n : m + j \in 1 .. m + n
<1>1. ASSUME NEW i \in 1 .. m + n, i \notin 1 .. m PROVE \E j \in 1 .. n : i = m + j
  <2>1. i - m \in 1 .. n /\ i = m + (i - m)
    BY <1>1
  <2> QED
    BY <2>1
<1> QED
  BY <1>1

Continues(F, G, m, H, n) == (\A i \in 1 .. m : F[i] = G[i]) /\ \A j \in 1 .. n : F[m + j] = H[j]

LEMMA AllJoin ==
    ASSUME NEW m \in Nat, NEW n \in Nat, NEW F, NEW G, NEW H, Continues(F, G, m, H, n)
    PROVE  All(F, m + n) = All(G, m) \cup All(H, n)
<1> USE DEF Continues
<1>1. ASSUME NEW b, b \in All(F, m + n) PROVE b \in All(G, m) \cup All(H, n)
  <2>1. PICK i \in 1 .. m + n : b \in F[i]
    BY <1>1 DEF All
  <2>2. CASE i \in 1 .. m
    <3>1. b \in G[i]
      BY <2>1, <2>2
    <3> QED
      BY <2>2, <3>1 DEF All
  <2>3. CASE i \notin 1 .. m
    <3>1. PICK j \in 1 .. n : i = m + j
      BY <2>3, PartsJoin
    <3>2. b \in H[j]
      BY <2>1, <3>1
    <3> QED
      BY <3>2 DEF All
  <2> QED
    BY <2>2, <2>3
<1>2. ASSUME NEW b, b \in All(G, m) PROVE b \in All(F, m + n)
  <2>1. PICK i \in 1 .. m : b \in G[i]
    BY <1>2 DEF All
  <2>2. i \in 1 .. m + n /\ b \in F[i]
    BY <2>1
  <2> QED
    BY <2>2 DEF All
<1>3. ASSUME NEW b, b \in All(H, n) PROVE b \in All(F, m + n)
  <2>1. PICK j \in 1 .. n : b \in H[j]
    BY <1>3 DEF All
  <2>2. m + j \in 1 .. m + n /\ b \in F[m + j]
    BY <2>1
  <2> QED
    BY <2>2 DEF All
<1> QED
  BY <1>1, <1>2, <1>3

(* A reply that is the whole result. *)
LEMMA ReplyIsOut ==
    ASSUME NEW kind \in ResultKinds \ Streams, NEW reply, NEW n, ReplyOK(kind, reply)
    PROVE  /\ ValOK(kind, reply)
           /\ CASE kind = "list_buckets" ->
                     OutBlocks(kind, reply, n) = {<<n, "out">>} \cup ReplyBlocks(kind, reply, 0, n)
                [] kind = "server_info" ->
                     ReplyBlocks(kind, reply, 0, n) = {<<n, "server_info">>} \cup OutBlocks(kind, reply, n)
                [] OTHER -> OutBlocks(kind, reply, n) = ReplyBlocks(kind, reply, 0, n)
<1>1. kind # "map_reduce" /\ kind # "list_keys"
  BY DEF Streams
<1>2. ValOK(kind, reply)
  BY <1>1 DEF ValOK
<1>3. CASE kind = "list_buckets"
  BY <1>2, <1>3 DEF OutBlocks
<1>4. CASE kind = "server_info"
  <2> DEFINE p == <<n, "out">>
  <2>1. ReplyBlocks(kind, reply, 0, n) = riack_server_info_cb(reply, p, n)
    BY <1>4 DEF ReplyBlocks
  <2>2. OutBlocks(kind, reply, n) = InfoBlocks("node", reply, p) \cup InfoBlocks("server_version", reply, p)
    BY <1>4 DEF OutBlocks
  <2> HIDE DEF p
  <2>3. riack_server_info_cb(reply, p, n) =
            {<<n, "server_info">>} \cup InfoBlocks("node", reply, p) \cup InfoBlocks("server_version", reply, p)
    BY DEF riack_server_info_cb, InfoBlocks
  <2> QED
    BY <1>2, <1>4, <2>1, <2>2, <2>3
<1>5. CASE kind # "list_buckets" /\ kind # "server_info"
  BY <1>1, <1>2, <1>5 DEF OutBlocks
<1> QED
  BY <1>3, <1>4, <1>5

(* A chunk that is added to what came before it. *)
LEMMA ChunkAddsOut ==
    ASSUME NEW kind \in Streams, NEW had, NEW chunk, NEW n, IsList(had), ReplyOK(kind, chunk)
    PROVE  /\ ValOK(kind, had \o chunk)
           /\ OutBlocks(kind, had \o chunk, n) =
                  OutBlocks(kind, had, n) \cup ReplyBlocks(kind, chunk, Len(had), n)
<1> DEFINE p == <<n, "out">>
           val == had \o chunk
<1>1. CASE kind = "list_keys"
  <2>1. IsList(chunk)
    BY <1>1 DEF ReplyOK
  <2>2. /\ IsList(val) /\ Len(val) = Len(had) + Len(chunk)
        /\ \A i \in 1 .. Len(had) : val[i] = had[i]
        /\ \A i \in 1 .. Len(chunk) : val[Len(had) + i] = chunk[i]
        /\ Len(had) \in Nat /\ Len(chunk) \in Nat
    BY <2>1, ListsJoin DEF IsList
  <2>3. OutBlocks(kind, val, n) = UNION {KeyBlocks(val, p, i) : i \in 1 .. Len(val)}
    BY <1>1 DEF OutBlocks
  <2>4. OutBlocks(kind, had, n) = UNION {KeyBlocks(had, p, i) : i \in 1 .. Len(had)}
    BY <1>1 DEF OutBlocks
  <2>5. ReplyBlocks(kind, chunk, Len(had), n) =
            UNION {riack_string_linked_list_add(chunk[j], Append(p, Len(had) + j)) : j \in 1 .. Len(chunk)}
    BY <1>1 DEF ReplyBlocks
  <2> HIDE DEF val, p
  <2>6. PICK a \in Nat, c \in Nat : a = Len(had) /\ c = Len(chunk)
    BY <2>2
  <2>7. /\ \A i \in 1 .. a : KeyBlocks(val, p, i) = KeyBlocks(had, p, i)
        /\ \A j \in 1 .. c : KeyBlocks(val, p, a + j) =
                                  riack_string_linked_list_add(chunk[j], Append(p, a + j))
    BY <2>2, <2>6 DEF KeyBlocks
  <2> DEFINE F == [i \in 1 .. a + c |-> KeyBlocks(val, p, i)]
             G == [i \in 1 .. a |-> KeyBlocks(had, p, i)]
             H == [j \in 1 .. c |-> riack_string_linked_list_add(chunk[j], Append(p, a + j))]
  <2>8. /\ OutBlocks(kind, val, n) = All(F, a + c) /\ OutBlocks(kind, had, n) = All(G, a)
        /\ ReplyBlocks(kind, chunk, Len(had), n) = All(H, c)
    BY <2>2, <2>3, <2>4, <2>5, <2>6 DEF All
  <2>10. Continues(F, G, a, H, c)
    BY <2>7, PartsJoin DEF Continues
  <2> HIDE DEF F, G, H
  <2>11. All(F, a + c) = All(G, a) \cup All(H, c)
    BY <2>10, AllJoin
  <2>9. ValOK(kind, val)
    BY <1>1, <2>2 DEF ValOK, ReplyOK, ResultKinds
  <2> QED
    BY <2>8, <2>9, <2>11 DEF val
<1>2. CASE kind = "map_reduce"
  <2>1. chunk = <<chunk[1]>>
    BY <1>2 DEF ReplyOK
  <2>2. IsList(chunk) /\ Len(chunk) = 1
    <3> DEFINE c == chunk[1]
    <3>1. chunk = <<c>>
      BY <2>1
    <3> HIDE DEF c
    <3>2. Len(<<c>>) = 1 /\ <<c>> = [i \in 1 .. 1 |-> <<c>>[i]]
      OBVIOUS
    <3> QED
      BY <3>1, <3>2 DEF IsList
  <2>3. /\ IsList(val) /\ Len(val) = Len(had) + 1
        /\ \A i \in 1 .. Len(had) : val[i] = had[i]
        /\ val[Len(had) + 1] = chunk[1]
        /\ Len(had) \in Nat
    <3>0. IsList(had) /\ IsList(chunk)
      BY <2>2
    <3>1. /\ IsList(val) /\ Len(val) = Len(had) + Len(chunk)
          /\ \A i \in 1 .. Len(had) : val[i] = had[i]
          /\ \A i \in 1 .. Len(chunk) : val[Len(had) + i] = chunk[i]
      BY ONLY <3>0, ListsJoin
    <3>2. 1 \in 1 .. Len(chunk) /\ Len(had) \in Nat
      BY <2>2 DEF IsList
    <3> QED
      BY <2>2, <3>1, <3>2
  <2>4. OutBlocks(kind, val, n) = UNION {DataBlocks(val, p, i) : i \in 1 .. Len(val)}
    BY <1>2 DEF OutBlocks
  <2>5. OutBlocks(kind, had, n) = UNION {DataBlocks(had, p, i) : i \in 1 .. Len(had)}
    BY <1>2 DEF OutBlocks
  <2>6. ReplyBlocks(kind, chunk, Len(had), n) =
            riack_copy_strmapred_to_mapred(chunk[1], Append(p, Len(had) + 1))
    BY <1>2 DEF ReplyBlocks
  <2> HIDE DEF val, p
  <2>7. PICK a \in Nat : a = Len(had)
    BY <2>3
  <2>8. /\ \A i \in 1 .. a : DataBlocks(val, p, i) = DataBlocks(had, p, i)
        /\ DataBlocks(val, p, a + 1) = riack_copy_strmapred_to_mapred(chunk[1], Append(p, a + 1))
    BY <2>3, <2>7 DEF DataBlocks
  <2> DEFINE F == [i \in 1 .. a + 1 |-> DataBlocks(val, p, i)]
             G == [i \in 1 .. a |-> DataBlocks(had, p, i)]
             H == [j \in 1 .. 1 |-> riack_copy_strmapred_to_mapred(chunk[1], Append(p, a + 1))]
  <2>9. /\ OutBlocks(kind, val, n) = All(F, a + 1) /\ OutBlocks(kind, had, n) = All(G, a)
        /\ ReplyBlocks(kind, chunk, Len(had), n) = All(H, 1)
    <3>1. 1 .. 1 = {1} /\ H[1] = riack_copy_strmapred_to_mapred(chunk[1], Append(p, a + 1))
      OBVIOUS
    <3>2. All(H, 1) = H[1]
      <4> HIDE DEF H
      <4> QED
        BY <3>1 DEF All
    <3>3. /\ OutBlocks(kind, val, n) = All(F, a + 1) /\ OutBlocks(kind, had, n) = All(G, a)
      BY <2>3, <2>4, <2>5, <2>7 DEF All
    <3> QED
      BY <2>6, <2>7, <3>1, <3>2, <3>3
  <2>10. Continues(F, G, a, H, 1)
    BY <2>8, PartsJoin DEF Continues
  <2> HIDE DEF F, G, H
  <2>12. All(F, a + 1) = All(G, a) \cup All(H, 1)
    BY <2>10, AllJoin
  <2>11. ValOK(kind, val)
    BY <1>2, <2>3 DEF ValOK, ResultKinds
  <2> QED
    BY <2>9, <2>11, <2>12 DEF val
<1> QED
  BY <1>1, <1>2 DEF Streams

(* What a call collects in several steps starts out empty. *)
LEMMA EmptyOut ==
    /\ IsList(<<>>)
    /\ \A n : /\ \A kind \in Streams : OutBlocks(kind, <<>>, n) = {}
              /\ ValOK("list_buckets", <<>>) /\ OutBlocks("list_buckets", <<>>, n) = {<<n, "out">>}
<1>1. Len(<<>>) = 0 /\ 1 .. 0 = {}
  OBVIOUS
<1>2. IsList(<<>>)
  BY DEF IsList
<1>3. \A n : \A kind \in Streams : OutBlocks(kind, <<>>, n) = {}
  BY <1>1 DEF Streams, OutBlocks
<1>4. ValOK("list_buckets", <<>>)
  BY <1>2 DEF ValOK, ResultKinds, ReplyOK
<1>5. \A n : OutBlocks("list_buckets", <<>>, n) = {<<n, "out">>}
  BY DEF OutBlocks, ReplyBlocks, riack_list_buckets_ext_cb, Array
<1> QED
  BY <1>2, <1>3, <1>4, <1>5

-----------------------------------------------------------------------------
(* The requests nobody frees. *)

Leaked(b) == b[2] \in {"if_modified", "search_req", "props"}

LEMMA BelowFrom ==
    ASSUME NEW p \in Paths, NEW x \in Members
    PROVE  /\ Append(p, x) \in Paths /\ Append(p, x) \in From(Append(p, x)) /\ Append(p, x) \in From(p)
           /\ From(Append(p, x)) \subseteq From(p)
           /\ \A len : Block(Append(p, x), len) \subseteq From(p)
BY OneBelow, FromItself, FromBelow DEF Block

LEMMA TextsFrom ==
    ASSUME NEW p \in Paths, NEW names \in Seq(Names), NEW s,
           \A i, j \in 1 .. Len(names) : names[i] = names[j] => i = j
    PROVE  TextBlocks(names, s, p) \subseteq From(p)
<1> DEFINE N == {names[i] : i \in 1 .. Len(names)}
<1>1. TextBlocks(names, s, p) \subseteq Behind(p, N)
  BY TextsFreed DEF Within
<1>2. N \in SUBSET Members
  BY NamesAreMembers
<1> HIDE DEF N
<1> QED
  BY <1>1, <1>2, BehindIsFrom

LEMMA SearchReqFrom ==
    ASSUME NEW p \in Paths, NEW props, IsList(props.fl)
    PROVE  riack_set_optional_search_properties_on_req(props, p) \subseteq From(p)
<1>1. /\ SearchTexts[1] = "df" /\ SearchTexts[2] = "op" /\ SearchTexts[3] = "filter"
      /\ SearchTexts[4] = "presort" /\ SearchTexts[5] = "sort"
  BY DEF SearchTexts
<1>2. 1 .. 5 = {1, 2, 3, 4, 5}
  OBVIOUS
<1>3. SearchTexts \in Seq(Names)
  BY DEF SearchTexts, Names
<1>4. Len(SearchTexts) = 5
  BY DEF SearchTexts
<1>5. TextBlocks(SearchTexts, props, p) \subseteq From(p)
  BY <1>1, <1>2, <1>3, <1>4, TextsFrom
<1>6. Array(Append(p, "fl"), props.fl, LAMBDA len, q : Block(q, len)) \subseteq From(p)
  <2>1. "fl" \in Members
    BY NamesAreMembers DEF Names
  <2>2. Within(FreeArray(Append(p, "fl"), props.fl, LAMBDA len, q : Ptr(q, len)),
               Array(Append(p, "fl"), props.fl, LAMBDA len, q : Block(q, len)), p, {"fl"})
    BY <2>1, StringsFreed
  <2>3. Behind(p, {"fl"}) \subseteq From(p)
    BY <2>1, BehindIsFrom
  <2> QED
    BY <2>2, <2>3 DEF Within
<1> QED
  BY <1>5, <1>6 DEF riack_set_optional_search_properties_on_req

LEMMA ModFunFrom ==
    ASSUME NEW p \in Paths, NEW x \in Members, NEW f
    PROVE  ModFunBlocks(f, Append(p, x)) \subseteq From(p)
<1> DEFINE q == Append(p, x)
<1>1. "function" \in Members /\ "module" \in Members
  BY NamesAreMembers DEF Names
<1>2. q \in Paths /\ q \in From(p) /\ From(q) \subseteq From(p)
  BY BelowFrom
<1> HIDE DEF q
<1>3. /\ Block(Append(q, "function"), f[1].function) \subseteq From(q)
      /\ Block(Append(q, "module"), f[1].module) \subseteq From(q)
  BY <1>1, <1>2, BelowFrom
<1>4. ModFunBlocks(f, q) \subseteq {q} \cup From(q)
  BY <1>3 DEF ModFunBlocks
<1> QED
  BY <1>2, <1>4 DEF q

HookBlocks(hook, q) ==
    IF hook.name > 0 THEN {Append(q, "name")} ELSE ModFunBlocks(<<hook.modfun>>, Append(q, "modfun"))

LEMMA HooksFrom ==
    ASSUME NEW p \in Paths, NEW x \in Members, NEW hooks, IsList(hooks)
    PROVE  riack_hooks_to_rpb_hooks(hooks, Append(p, x)) \subseteq From(p)
<1> DEFINE q == Append(p, x)
<1>1. q \in Paths /\ q \in From(p) /\ From(q) \subseteq From(p)
  BY BelowFrom
<1>2. riack_hooks_to_rpb_hooks(hooks, q) \subseteq
          {q} \cup UNION {{Append(q, i)} \cup HookBlocks(hooks[i], Append(q, i)) : i \in 1 .. Len(hooks)}
  BY DEF riack_hooks_to_rpb_hooks, PtrArray, Array, HookBlocks
<1> HIDE DEF q
<1>3. ASSUME NEW i \in 1 .. Len(hooks)
      PROVE  {Append(q, i)} \cup HookBlocks(hooks[i], Append(q, i)) \subseteq From(q)
  <2> DEFINE r == Append(q, i)
  <2>1. i \in Members /\ "name" \in Members /\ "modfun" \in Members
    BY NamesAreMembers DEF IsList, Names
  <2>2. r \in Paths /\ r \in From(q) /\ From(r) \subseteq From(q)
    BY <1>1, <2>1, BelowFrom
  <2> HIDE DEF r
  <2>3. Append(r, "name") \in From(r) /\ ModFunBlocks(<<hooks[i].modfun>>, Append(r, "modfun")) \subseteq From(r)
    BY <2>1, <2>2, BelowFrom, ModFunFrom
  <2>4. HookBlocks(hooks[i], r) \subseteq From(r)
    BY <2>3 DEF HookBlocks
  <2> QED
    BY <2>2, <2>4 DEF r
<1>4. UNION {{Append(q, i)} \cup HookBlocks(hooks[i], Append(q, i)) : i \in 1 .. Len(hooks)} \subseteq From(q)
  BY <1>3
<1> QED
  BY <1>1, <1>2, <1>4 DEF q

LEMMA PropsFrom ==
    ASSUME NEW p \in Paths, NEW props, IsList(props.precommit), IsList(props.postcommit)
    PROVE  riack_set_rpb_bucket_props(props, p) \subseteq From(p)
<1> DEFINE texts == <<"backend", "search_index", "datatype">>
<1>1. texts[1] = "backend" /\ texts[2] = "search_index" /\ texts[3] = "datatype" /\ 1 .. 3 = {1, 2, 3}
  OBVIOUS
<1>2. texts \in Seq(Names)
  BY DEF Names
<1>3. Len(texts) = 3
  OBVIOUS
<1>4. {"chash_keyfun", "linkfun", "precommit", "postcommit"} \subseteq Members
  BY NamesAreMembers DEF Names
<1> HIDE DEF texts
<1>5. TextBlocks(texts, props, p) \subseteq From(p)
  BY <1>1, <1>2, <1>3, TextsFrom
<1>6. /\ ModFunBlocks(props.chash_keyfun, Append(p, "chash_keyfun")) \subseteq From(p)
      /\ ModFunBlocks(props.linkfun, Append(p, "linkfun")) \subseteq From(p)
  BY <1>4, ModFunFrom
<1>7. /\ riack_hooks_to_rpb_hooks(props.precommit, Append(p, "precommit")) \subseteq From(p)
      /\ riack_hooks_to_rpb_hooks(props.postcommit, Append(p, "postcommit")) \subseteq From(p)
  BY <1>4, HooksFrom
<1> QED
  BY <1>5, <1>6, <1>7 DEF riack_set_rpb_bucket_props, texts

LEMMA CallMember ==
    ASSUME NEW n \in Nat, NEW x \in Names, NEW b \in From(<<n, x>>)
    PROVE  b[2] = x
<1>1. <<n>> \in Paths /\ Len(<<n>>) = 1 /\ <<n, x>> = Append(<<n>>, x) /\ x \in Members
  BY CallPaths, NamesAreMembers
<1>2. b \in From(Append(<<n>>, x))
  BY <1>1
<1>3. b[Len(<<n>>) + 1] = x
  BY <1>1, <1>2, FromBelow
<1> QED
  BY <1>1, <1>3

(* A request is freed by its call, or is one of those. *)
LEMMA RequestLeaks ==
    ASSUME NEW n \in Nat, NEW kind, NEW args, NEW wanted, RequestOK(kind, args, wanted),
           NEW answered, kind = "server_info" => ~answered
    PROVE  /\ RequestTemp(kind, args, n, answered) \subseteq RequestBlocks(kind, args, n)
           /\ \A b \in RequestBlocks(kind, args, n) :
                 b \in RequestTemp(kind, args, n, answered) \/ Leaked(b)
<1>1. {"if_modified", "search_req", "props"} \subseteq Names
  BY DEF Names
<1>2. /\ <<n, "if_modified">> \in Paths /\ <<n, "search_req">> \in Paths /\ <<n, "props">> \in Paths
  BY <1>1, CallPaths
<1>3. CASE kind = "get"
  <2>1. RequestTemp(kind, args, n, answered) = {}
    BY <1>3 DEF RequestTemp
  <2>2. RequestBlocks(kind, args, n) \subseteq {<<n, "if_modified">>}
    BY <1>3 DEF RequestBlocks, OptBlock, Block
  <2>3. Leaked(<<n, "if_modified">>)
    BY DEF Leaked
  <2> QED
    BY <2>1, <2>2, <2>3
<1>4. CASE kind = "search"
  <2>1. RequestTemp(kind, args, n, answered) = {}
    BY <1>4 DEF RequestTemp
  <2>2. IsList(args.fl)
    BY <1>4 DEF RequestOK
  <2>3. RequestBlocks(kind, args, n) = riack_set_optional_search_properties_on_req(args, <<n, "search_req">>)
    BY <1>4 DEF RequestBlocks
  <2>4. \A b \in RequestBlocks(kind, args, n) : b[2] = "search_req"
    BY <1>1, <1>2, <2>2, <2>3, SearchReqFrom, CallMember
  <2> QED
    BY <2>1, <2>4 DEF Leaked
<1>5. CASE kind = "set_props"
  <2>1. RequestTemp(kind, args, n, answered) = {}
    BY <1>5 DEF RequestTemp
  <2>2. IsList(args.precommit) /\ IsList(args.postcommit)
    BY <1>5 DEF RequestOK
  <2>3. RequestBlocks(kind, args, n) = riack_set_rpb_bucket_props(args, <<n, "props">>)
    BY <1>5 DEF RequestBlocks
  <2>4. \A b \in RequestBlocks(kind, args, n) : b[2] = "props"
    BY <1>1, <1>2, <2>2, <2>3, PropsFrom, CallMember
  <2> QED
    BY <2>1, <2>4 DEF Leaked
<1>6. CASE kind \notin {"get", "search", "set_props"}
  <2>1. RequestTemp(kind, args, n, answered) = RequestBlocks(kind, args, n)
    <3>1. CASE kind = "put"
      BY <3>1 DEF RequestTemp, RequestBlocks
    <3>2. CASE kind = "put_simple"
      BY <3>2 DEF RequestTemp, RequestBlocks
    <3>3. CASE kind = "delete"
      BY <3>3 DEF RequestTemp, RequestBlocks
    <3>4. CASE kind \notin {"put", "put_simple", "delete"}
      BY <1>6, <3>4 DEF RequestTemp, RequestBlocks
    <3> QED
      BY <3>1, <3>2, <3>3, <3>4
  <2> QED
    BY <2>1
<1> QED
  BY <1>3, <1>4, <1>5, <1>6

-----------------------------------------------------------------------------
(* The inductive invariant. *)

Typed ==
    /\ pc \in {"idle", "sent", "returning", "undefined"}
    /\ calls \in Nat /\ cur \in Requests /\ (pc # "idle" => calls > 0)
    /\ DOMAIN out = Kinds /\ owned \subseteq passed /\ passed \subseteq Kinds

(* Each variable of the application points to a result of some call; what it
   has not to free is cleared, but for the pointers a free leaves as they are. *)
OutInv ==
    /\ \A k \in Kinds :
          out[k] # <<>> => out[k][1].call \in 1 .. calls /\ ValOK(k, out[k][1].val)
    /\ \A k \in Kinds : k \notin owned /\ k \notin KeepsPointer => out[k] = <<>>

(* No two results are of one call; while a call is under way it is the last. *)
CallsApart ==
    /\ \A k, l \in owned :
          out[k] # <<>> /\ out[l] # <<>> /\ out[k][1].call = out[l][1].call => k = l
    /\ pc # "idle" =>
          \A k \in owned : out[k] # <<>> => (out[k][1].call = calls <=> k = cur.kind)

(* What the running call has to free is wanted or has no result yet. *)
Running ==
    /\ pc # "idle" /\ cur.wanted => cur.kind \in owned
    /\ pc = "sent" /\ cur.kind \notin Streams =>
          IF cur.kind = "list_buckets"
          THEN out[cur.kind] # <<>> /\ out[cur.kind][1].val = <<>>
          ELSE out[cur.kind] = <<>>

Held(k) == k \in owned /\ out[k] # <<>>
Of(k) == OutBlocks(k, out[k][1].val, out[k][1].call)
CallTemp == Temp(cur.kind, cur.args, calls, out[cur.kind] # <<>>)

(* Every block is one of a result, of the running call, or leaked. *)
HeapInv ==
    /\ \A k \in Kinds : Held(k) => Of(k) \subseteq heap
    /\ pc # "idle" => CallTemp \subseteq heap
    /\ \A b \in heap :
          \/ Leaked(b)
          \/ \E k \in Kinds : Held(k) /\ b \in Of(k)
          \/ pc # "idle" /\ b \in CallTemp

IInv == Typed /\ OutInv /\ CallsApart /\ Running /\ HeapInv /\ OnlyKnownWild

-----------------------------------------------------------------------------
(* What the blocks of a result and those of a request are told apart by. *)

LEMMA OutIsOfCall ==
    ASSUME NEW n \in Nat, NEW kind, NEW val, ValOK(kind, val)
    PROVE  \A b \in OutBlocks(kind, val, n) : b[1] = n /\ b[2] = "out"
<1>1. {"out"} \in SUBSET Members
  BY NamesAreMembers DEF Names
<1>2. OutBlocks(kind, val, n) \subseteq Behind(<<n>>, {"out"})
  BY ResultFreed DEF Within
<1> QED
  BY <1>1, <1>2, CallOf

LEMMA TempIsOfCall ==
    ASSUME NEW n \in Nat, NEW kind, NEW args, NEW wanted, RequestOK(kind, args, wanted), NEW answered
    PROVE  \A b \in Temp(kind, args, n, answered) : b[2] # "out"
<1>1. TempNames \in SUBSET Members /\ "out" \notin TempNames
  BY NamesAreMembers DEF Names, TempNames
<1>2. Temp(kind, args, n, answered) \subseteq Behind(<<n>>, TempNames)
  BY TempFreed DEF Within
<1> QED
  BY <1>1, <1>2, CallOf

LEMMA RequestsAre ==
    ASSUME NEW r \in Requests
    PROVE  /\ r.kind \in Kinds /\ RequestOK(r.kind, r.args, r.wanted)
           /\ r.wanted \in BOOLEAN /\ (r.wanted \/ r.kind \in NeedsNoResult)
           /\ \A reply \in Replies[r.kind] : ReplyOK(r.kind, reply)
BY MemoryAssumption DEF Kinds

LEMMA InitIInv == Init => IInv
<1> SUFFICES ASSUME Init PROVE IInv
  OBVIOUS
<1> USE DEF Init
<1>1. Typed
  BY DEF Typed, Kinds
<1>2. \A k \in Kinds : out[k] = <<>>
  OBVIOUS
<1>3. OutInv /\ CallsApart /\ Running /\ HeapInv /\ OnlyKnownWild
  BY <1>2 DEF OutInv, CallsApart, Running, HeapInv, OnlyKnownWild, Held
<1> QED
  BY <1>1, <1>3 DEF IInv

-----------------------------------------------------------------------------
(* Calling: the variable of the kind called is empty, or a list with nothing in it. *)
LEMMA CallOut ==
    ASSUME IInv, NEW r \in Requests, r.kind \notin owned,
           out' = [out EXCEPT ![r.kind] =
                     IF r.kind = "list_buckets" THEN <<[call |-> calls + 1, val |-> <<>>]>>
                     ELSE IF r.kind \in Streams \cup {"server_info"} THEN <<>> ELSE @]
    PROVE  /\ DOMAIN out' = Kinds
           /\ \A k \in Kinds : k # r.kind => out'[k] = out[k]
           /\ IF r.kind = "list_buckets"
              THEN /\ out'[r.kind] # <<>> /\ out'[r.kind][1].call = calls + 1
                   /\ out'[r.kind][1].val = <<>>
              ELSE out'[r.kind] = <<>>
<1>1. DOMAIN out = Kinds /\ r.kind \in Kinds
  BY RequestsAre DEF IInv, Typed
<1>2. KeepsPointer \subseteq Streams \cup {"list_buckets"}
  BY DEF KeepsPointer, Streams
<1>3. r.kind \notin KeepsPointer => out[r.kind] = <<>>
  BY <1>1 DEF IInv, OutInv
<1>4. CASE r.kind = "list_buckets"
  BY <1>1, <1>4
<1>5. CASE r.kind # "list_buckets"
  BY <1>1, <1>2, <1>3, <1>5
<1> QED
  BY <1>4, <1>5

LEMMA CallIInv == IInv /\ Call => IInv'
<1> SUFFICES ASSUME IInv, Call PROVE IInv'
  OBVIOUS
<1>1. PICK r \in Requests :
        /\ r.kind \notin owned /\ cur' = r
        /\ heap' = heap \cup RequestBlocks(r.kind, r.args, calls + 1) \cup Range(Buffer(r.kind, calls + 1))
                   \cup (IF r.kind = "list_buckets" THEN {<<calls + 1, "out">>} ELSE {})
        /\ out' = [out EXCEPT ![r.kind] =
                     IF r.kind = "list_buckets" THEN <<[call |-> calls + 1, val |-> <<>>]>>
                     ELSE IF r.kind \in Streams \cup {"server_info"} THEN <<>> ELSE @]
        /\ passed' = IF r.wanted THEN passed \cup {r.kind} ELSE passed
        /\ owned' = IF r.wanted THEN owned \cup {r.kind} ELSE owned
  BY DEF Call
<1>2. pc = "idle" /\ pc' = "sent" /\ calls' = calls + 1 /\ wild' = wild
  BY DEF Call
<1>3. PICK n \in Nat : n = calls + 1 /\ n > 0 /\ n \notin 1 .. calls /\ (\A c \in 1 .. calls : c \in 1 .. n)
                      /\ n \in 1 .. n
  BY DEF IInv, Typed
<1>4. /\ r.kind \in Kinds /\ RequestOK(r.kind, r.args, r.wanted) /\ r.wanted \in BOOLEAN
      /\ r.wanted \/ r.kind \in NeedsNoResult
  BY RequestsAre
<1>5. /\ DOMAIN out' = Kinds
      /\ \A k \in Kinds : k # r.kind => out'[k] = out[k]
      /\ IF r.kind = "list_buckets"
         THEN out'[r.kind] # <<>> /\ out'[r.kind][1].call = n /\ out'[r.kind][1].val = <<>>
         ELSE out'[r.kind] = <<>>
  BY <1>1, <1>3, CallOut
<1>6. owned \subseteq passed /\ passed \subseteq Kinds /\ owned \subseteq Kinds
  BY DEF IInv, Typed
<1>7. r.kind = "list_buckets" => r.kind \in owned'
  BY <1>1, <1>4 DEF NeedsNoResult
<1>8. owned \subseteq owned' /\ (\A k \in owned' : k \in owned \/ k = r.kind) /\ owned' \subseteq Kinds
  BY <1>1, <1>4, <1>6
<1>9. Typed'
  BY <1>1, <1>2, <1>3, <1>4, <1>5, <1>6 DEF Typed
<1>10. OutInv'
  <2>1. ASSUME NEW k \in Kinds, out'[k] # <<>> PROVE out'[k][1].call \in 1 .. n /\ ValOK(k, out'[k][1].val)
    <3>1. CASE k = r.kind
      BY <1>3, <1>5, <2>1, <3>1, EmptyOut
    <3>2. CASE k # r.kind
      BY <1>3, <1>5, <2>1, <3>2 DEF IInv, OutInv
    <3> QED
      BY <3>1, <3>2
  <2>2. ASSUME NEW k \in Kinds, k \notin owned', k \notin KeepsPointer PROVE out'[k] = <<>>
    <3>1. CASE k = r.kind
      BY <1>5, <1>7, <2>2, <3>1
    <3>2. CASE k # r.kind
      BY <1>5, <1>8, <2>2, <3>2 DEF IInv, OutInv
    <3> QED
      BY <3>1, <3>2
  <2>3. Kinds' = Kinds
    BY DEF Kinds
  <2> QED
    BY <1>2, <1>3, <2>1, <2>2, <2>3 DEF OutInv
<1>11. ASSUME NEW k \in owned', out'[k] # <<>>
       PROVE  \/ k = r.kind /\ out'[k][1].call = n
              \/ k # r.kind /\ k \in owned /\ out[k] # <<>> /\ out'[k] = out[k] /\ out'[k][1].call \in 1 .. calls
  BY <1>5, <1>6, <1>8, <1>11 DEF IInv, OutInv
<1>12. CallsApart'
  <2>1. ASSUME NEW k \in owned', NEW l \in owned', out'[k] # <<>>, out'[l] # <<>>,
               out'[k][1].call = out'[l][1].call
        PROVE  k = l
    BY <1>3, <1>11, <2>1 DEF IInv, CallsApart
  <2>2. \A k \in owned' : out'[k] # <<>> => (out'[k][1].call = n <=> k = r.kind)
    BY <1>3, <1>11
  <2> QED
    BY <1>1, <1>2, <1>3, <2>1, <2>2 DEF CallsApart
<1>13. Running'
  BY <1>1, <1>2, <1>4, <1>5 DEF Running
<1>14. HeapInv'
  <2> DEFINE T == Temp(r.kind, r.args, n, out'[r.kind] # <<>>)
  <2>1. r.kind = "server_info" => ~(out'[r.kind] # <<>>)
    BY <1>5
  <2>2. /\ RequestTemp(r.kind, r.args, n, out'[r.kind] # <<>>) \subseteq RequestBlocks(r.kind, r.args, n)
        /\ \A b \in RequestBlocks(r.kind, r.args, n) :
              b \in RequestTemp(r.kind, r.args, n, out'[r.kind] # <<>>) \/ Leaked(b)
    BY <1>4, <2>1, RequestLeaks
  <2>3. CallTemp' = T
    BY <1>1, <1>2, <1>3 DEF CallTemp
  <2>4. /\ T \subseteq RequestBlocks(r.kind, r.args, n) \cup Range(Buffer(r.kind, n))
        /\ \A b \in RequestBlocks(r.kind, r.args, n) \cup Range(Buffer(r.kind, n)) : b \in T \/ Leaked(b)
    BY <2>2 DEF Temp
  <2> HIDE DEF T
  <2>5. T \subseteq heap'
    BY <1>1, <1>3, <2>4
  <2>6. ASSUME NEW k \in Kinds, k # r.kind PROVE (Held(k)' <=> Held(k)) /\ Of(k)' = Of(k)
    BY <1>5, <1>8, <2>6 DEF Held, Of
  <2>7. Held(r.kind)' => r.kind = "list_buckets" /\ Of(r.kind)' = {<<n, "out">>}
    BY <1>5, EmptyOut DEF Held, Of
  <2>8. ASSUME NEW k \in Kinds, Held(k)' PROVE Of(k)' \subseteq heap'
    <3>1. CASE k = r.kind
      BY <1>1, <1>3, <2>7, <2>8, <3>1
    <3>2. CASE k # r.kind
      BY <1>1, <2>6, <2>8, <3>2 DEF IInv, HeapInv
    <3> QED
      BY <3>1, <3>2
  <2>9. ASSUME NEW b \in heap' PROVE Leaked(b) \/ (\E k \in Kinds : Held(k)' /\ b \in Of(k)') \/ b \in T
    <3>1. CASE b \in heap
      <4>1. CASE Leaked(b)
        BY <4>1
      <4>2. CASE ~Leaked(b)
        <5>1. PICK k \in Kinds : Held(k) /\ b \in Of(k)
          BY <1>2, <3>1, <4>2 DEF IInv, HeapInv
        <5>2. k # r.kind
          BY <1>1, <5>1 DEF Held
        <5> QED
          BY <2>6, <5>1, <5>2
      <4> QED
        BY <4>1, <4>2
    <3>2. CASE b \in RequestBlocks(r.kind, r.args, n) \cup Range(Buffer(r.kind, n))
      BY <2>4, <3>2
    <3>3. CASE r.kind = "list_buckets" /\ b = <<n, "out">>
      <4>1. Held(r.kind)'
        BY <1>5, <1>7, <3>3 DEF Held
      <4> QED
        BY <1>4, <2>7, <3>3, <4>1
    <3> QED
      BY <1>1, <1>3, <3>1, <3>2, <3>3
  <2>10. Kinds' = Kinds /\ \A b : Leaked(b)' = Leaked(b)
    BY DEF Kinds, Leaked
  <2> QED
    BY <1>2, <2>3, <2>5, <2>8, <2>9, <2>10 DEF HeapInv
<1>15. OnlyKnownWild'
  BY <1>2 DEF IInv, OnlyKnownWild
<1> QED
  BY <1>9, <1>10, <1>12, <1>13, <1>14, <1>15 DEF IInv

-----------------------------------------------------------------------------
(* A callback: the blocks D it allocates are those of the result x the variable
   now points to, or freed by the call. *)
Grows(D, x, B, T) ==
    /\ heap' = heap \cup D
    /\ out' = [out EXCEPT ![cur.kind] = x]
    /\ x # <<>> => x[1].call = calls /\ ValOK(cur.kind, x[1].val)
    /\ B = (IF x = <<>> THEN {} ELSE OutBlocks(cur.kind, x[1].val, calls))
    /\ Held(cur.kind) => Of(cur.kind) \subseteq B
    /\ B \subseteq heap \cup D
    /\ T = Temp(cur.kind, cur.args, calls, x # <<>>)
    /\ CallTemp \subseteq T /\ T \subseteq heap \cup D
    /\ D \subseteq B \cup T

LEMMA GrowHeap ==
    ASSUME IInv, pc = "sent", cur.kind \in owned,
           pc' \in {"sent", "returning"}, pc' = "sent" => cur.kind \in Streams,
           calls' = calls, cur' = cur, passed' = passed, owned' = owned, wild' = wild,
           NEW D, NEW x, NEW B, NEW T, Grows(D, x, B, T)
    PROVE  IInv'
<1> USE DEF Grows
<1> DEFINE kind == cur.kind
<1>1. DOMAIN out = Kinds /\ kind \in Kinds /\ owned \subseteq Kinds /\ calls \in Nat /\ calls > 0
  BY DEF IInv, Typed
<1>2. /\ DOMAIN out' = Kinds /\ out'[kind] = x
      /\ \A k \in Kinds : k # kind => out'[k] = out[k]
  BY <1>1
<1>3. Kinds' = Kinds /\ \A b : Leaked(b)' = Leaked(b)
  BY DEF Kinds, Leaked
<1>4. Typed'
  BY <1>1, <1>2, <1>3 DEF IInv, Typed
<1>5. OutInv'
  <2>1. calls \in 1 .. calls
    BY <1>1
  <2>2. ASSUME NEW k \in Kinds, out'[k] # <<>> PROVE out'[k][1].call \in 1 .. calls /\ ValOK(k, out'[k][1].val)
    <3>1. CASE k = kind
      BY <1>2, <2>1, <2>2, <3>1
    <3>2. CASE k # kind
      BY <1>2, <2>2, <3>2 DEF IInv, OutInv
    <3> QED
      BY <3>1, <3>2
  <2>3. ASSUME NEW k \in Kinds, k \notin owned, k \notin KeepsPointer PROVE out'[k] = <<>>
    BY <1>2, <2>3 DEF IInv, OutInv
  <2> QED
    BY <1>3, <2>2, <2>3 DEF OutInv
<1>6. \A k \in owned : out'[k] # <<>> => (out'[k][1].call = calls <=> k = kind)
  BY <1>1, <1>2 DEF IInv, CallsApart
<1>7. CallsApart'
  <2>1. ASSUME NEW k \in owned, NEW l \in owned, out'[k] # <<>>, out'[l] # <<>>,
               out'[k][1].call = out'[l][1].call
        PROVE  k = l
    <3>1. CASE k = kind \/ l = kind
      BY <1>6, <2>1, <3>1
    <3>2. CASE k # kind /\ l # kind
      <4>1. out'[k] = out[k] /\ out'[l] = out[l]
        BY <1>1, <1>2, <3>2
      <4> QED
        BY <2>1, <4>1 DEF IInv, CallsApart
    <3> QED
      BY <3>1, <3>2
  <2> QED
    BY <1>6, <2>1 DEF CallsApart
<1>8. Running'
  BY DEF IInv, Running
<1>9. HeapInv'
  <2>1. CallTemp' = T
    BY <1>2 DEF CallTemp
  <2>2. ASSUME NEW k \in Kinds, k # kind PROVE (Held(k)' <=> Held(k)) /\ Of(k)' = Of(k)
    BY <1>2, <2>2 DEF Held, Of
  <2>3. (Held(kind)' <=> x # <<>>) /\ (Held(kind)' => Of(kind)' = B)
    BY <1>2 DEF Held, Of
  <2>4. ASSUME NEW k \in Kinds, Held(k)' PROVE Of(k)' \subseteq heap'
    <3>1. CASE k = kind
      BY <2>3, <2>4, <3>1
    <3>2. CASE k # kind
      BY <2>2, <2>4, <3>2 DEF IInv, HeapInv
    <3> QED
      BY <3>1, <3>2
  <2>5. ASSUME NEW b \in B PROVE Held(kind)' /\ b \in Of(kind)'
    BY <2>3, <2>5
  <2>6. ASSUME NEW b \in heap' PROVE Leaked(b) \/ (\E k \in Kinds : Held(k)' /\ b \in Of(k)') \/ b \in T
    <3>1. CASE b \in heap
      <4>1. CASE Leaked(b) \/ b \in CallTemp
        BY <4>1
      <4>2. CASE ~Leaked(b) /\ b \notin CallTemp
        <5>1. PICK k \in Kinds : Held(k) /\ b \in Of(k)
          BY <3>1, <4>2 DEF IInv, HeapInv
        <5>2. CASE k = kind
          BY <1>1, <2>5, <5>1, <5>2
        <5>3. CASE k # kind
          BY <2>2, <5>1, <5>3
        <5> QED
          BY <5>2, <5>3
      <4> QED
        BY <4>1, <4>2
    <3>2. CASE b \in D
      BY <1>1, <2>5, <3>2
    <3> QED
      BY <3>1, <3>2
  <2> QED
    BY <1>3, <2>1, <2>4, <2>6 DEF HeapInv
<1>10. OnlyKnownWild'
  BY DEF IInv, OnlyKnownWild
<1> QED
  BY <1>4, <1>5, <1>7, <1>8, <1>9, <1>10 DEF IInv

(* The variables of the application and the blocks are as they were. *)
LEMMA OnlyEnds ==
    ASSUME IInv, pc = "sent", pc' \in {"returning", "undefined"},
           calls' = calls, cur' = cur, out' = out, passed' = passed, owned' = owned, heap' = heap,
           wild' \subseteq wild \cup {"server_info"}
    PROVE  IInv'
<1>1. Kinds' = Kinds /\ \A b : Leaked(b)' = Leaked(b)
  BY DEF Kinds, Leaked
<1>2. Typed'
  BY <1>1 DEF IInv, Typed
<1>3. OutInv'
  BY <1>1 DEF IInv, OutInv
<1>4. CallsApart'
  BY DEF IInv, CallsApart
<1>5. Running'
  BY DEF IInv, Running
<1>6. HeapInv'
  <2>1. CallTemp' = CallTemp
    BY DEF CallTemp
  <2>2. \A k \in Kinds : (Held(k)' <=> Held(k)) /\ Of(k)' = Of(k)
    BY DEF Held, Of
  <2> QED
    BY <1>1, <2>1, <2>2 DEF IInv, HeapInv
<1>7. OnlyKnownWild'
  BY DEF IInv, OnlyKnownWild
<1> QED
  BY <1>2, <1>3, <1>4, <1>5, <1>6, <1>7 DEF IInv

LEMMA FailIInv == IInv /\ Fail => IInv'
<1> SUFFICES ASSUME IInv, Fail PROVE IInv'
  OBVIOUS
<1>1. /\ pc = "sent" /\ pc' \in {"returning", "undefined"}
      /\ calls' = calls /\ cur' = cur /\ out' = out /\ passed' = passed /\ owned' = owned /\ heap' = heap
  BY DEF Fail
<1>2. wild' \subseteq wild \cup {"server_info"}
  BY DEF Fail
<1> QED
  BY <1>1, <1>2, OnlyEnds

(* Who has a reply copied has asked for it. *)
LEMMA WritesOwned ==
    ASSUME IInv, pc = "sent", WritesOut(cur.kind, cur.wanted)
    PROVE  cur.kind \in owned /\ cur.kind \in ResultKinds
<1>1. /\ cur \in Requests /\ cur.kind \in Kinds /\ RequestOK(cur.kind, cur.args, cur.wanted)
      /\ cur.wanted \/ cur.kind \in NeedsNoResult
  BY RequestsAre DEF IInv, Typed
<1>2. cur.kind # "put_simple"
  BY <1>1 DEF WritesOut, RequestOK
<1>3. cur.wanted
  BY <1>1 DEF WritesOut, NeedsNoResult, WithoutReply
<1>4. cur.kind \in owned
  BY <1>3 DEF IInv, Running
<1>5. cur.kind \in ResultKinds
  BY <1>1, <1>2, MemoryAssumption DEF Kinds, NeedsNoResult, WritesOut, WithoutReply, ResultKinds
<1> QED
  BY <1>4, <1>5

LEMMA ReplyIInv == IInv /\ Reply => IInv'
<1> SUFFICES ASSUME IInv, Reply PROVE IInv'
  OBVIOUS
<1> DEFINE kind == cur.kind
<1>1. /\ pc = "sent" /\ kind \notin Streams /\ pc' = "returning"
      /\ calls' = calls /\ cur' = cur /\ passed' = passed /\ owned' = owned /\ wild' = wild
  BY DEF Reply
<1>2. PICK reply \in Replies[kind] :
        IF WritesOut(kind, cur.wanted)
        THEN /\ heap' = heap \cup ReplyBlocks(kind, reply, 0, calls)
             /\ out' = [out EXCEPT ![kind] = Result(reply)]
        ELSE UNCHANGED <<heap, out>>
  BY DEF Reply
<1>3. CASE ~WritesOut(kind, cur.wanted)
  BY <1>1, <1>2, <1>3, OnlyEnds
<1>4. CASE WritesOut(kind, cur.wanted)
  <2>1. kind \in owned /\ kind \in ResultKinds /\ kind \in ResultKinds \ Streams
    BY <1>1, <1>4, WritesOwned
  <2>2. ReplyOK(kind, reply)
    BY RequestsAre DEF IInv, Typed
  <2> DEFINE x == Result(reply)
             D == ReplyBlocks(kind, reply, 0, calls)
             B == OutBlocks(kind, reply, calls)
             T == Temp(kind, cur.args, calls, x # <<>>)
  <2>3. x # <<>> /\ x[1].call = calls /\ x[1].val = reply
    BY DEF Result
  <2>4. /\ ValOK(kind, reply)
        /\ CASE kind = "list_buckets" -> B = {<<calls, "out">>} \cup D
             [] kind = "server_info" -> D = {<<calls, "server_info">>} \cup B
             [] OTHER -> B = D
    BY <2>1, <2>2, ReplyIsOut
  <2>5. CASE kind = "list_buckets"
    <3>1. Held(kind) /\ out[kind][1].val = <<>>
      BY <1>1, <2>1, <2>5 DEF IInv, Running, Held
    <3>2. out[kind][1].call = calls
      BY <1>1, <2>1, <3>1 DEF IInv, CallsApart, Held
    <3>3. Of(kind) = {<<calls, "out">>}
      BY <2>5, <3>1, <3>2, EmptyOut DEF Of
    <3>4. Of(kind) \subseteq heap
      BY <1>1, <3>1, <2>1 DEF IInv, HeapInv, Typed
    <3>5. B = {<<calls, "out">>} \cup D
      BY <2>4, <2>5
    <3>6. T = CallTemp
      BY <2>5 DEF CallTemp, Temp, RequestTemp
    <3>7. CallTemp \subseteq heap
      BY <1>1 DEF IInv, HeapInv
    <3> HIDE DEF B, D, T, x
    <3>8. (x # <<>> => x[1].call = calls /\ ValOK(kind, x[1].val)) /\ B = (IF x = <<>> THEN {} ELSE OutBlocks(kind, x[1].val, calls))
      BY <2>3, <2>4 DEF B
    <3>9. heap' = heap \cup D /\ out' = [out EXCEPT ![kind] = x]
      BY <1>2, <1>4 DEF D, x
    <3>10. /\ Held(kind) => Of(kind) \subseteq B
           /\ B \subseteq heap \cup D /\ CallTemp \subseteq T /\ T \subseteq heap \cup D /\ D \subseteq B \cup T
      BY <3>3, <3>4, <3>5, <3>6, <3>7
    <3>11. T = Temp(kind, cur.args, calls, x # <<>>)
      BY DEF T
    <3>12. Grows(D, x, B, T)
      BY <3>8, <3>9, <3>10, <3>11 DEF Grows
    <3> QED
      BY <1>1, <2>1, <3>12, GrowHeap
  <2>6. CASE kind # "list_buckets"
    <3>1. ~Held(kind)
      BY <1>1, <2>6 DEF IInv, Running, Held
    <3>2. CallTemp \subseteq heap
      BY <1>1 DEF IInv, HeapInv
    <3>3. IF kind = "server_info" THEN T = CallTemp \cup {<<calls, "server_info">>} ELSE T = CallTemp
      <4>1. CASE kind = "server_info"
        <5>1. out[kind] = <<>>
          BY <2>1, <3>1 DEF Held
        <5> QED
          BY <2>3, <4>1, <5>1 DEF CallTemp, Temp, RequestTemp
      <4>2. CASE kind # "server_info"
        BY <4>2 DEF CallTemp, Temp, RequestTemp
      <4> QED
        BY <4>1, <4>2
    <3>4. IF kind = "server_info" THEN D = {<<calls, "server_info">>} \cup B ELSE B = D
      BY <2>4, <2>6
    <3> HIDE DEF B, D, T, x
    <3>5. (x # <<>> => x[1].call = calls /\ ValOK(kind, x[1].val)) /\ B = (IF x = <<>> THEN {} ELSE OutBlocks(kind, x[1].val, calls))
      BY <2>3, <2>4 DEF B
    <3>6. heap' = heap \cup D /\ out' = [out EXCEPT ![kind] = x]
      BY <1>2, <1>4 DEF D, x
    <3>7. B \subseteq heap \cup D /\ CallTemp \subseteq T /\ T \subseteq heap \cup D /\ D \subseteq B \cup T
      BY <3>2, <3>3, <3>4
    <3>8. T = Temp(kind, cur.args, calls, x # <<>>)
      BY DEF T
    <3>9. Grows(D, x, B, T)
      BY <3>1, <3>5, <3>6, <3>7, <3>8 DEF Grows
    <3> QED
      BY <1>1, <2>1, <3>9, GrowHeap
  <2> QED
    BY <2>5, <2>6
<1> QED
  BY <1>3, <1>4

LEMMA ChunkIInv == IInv /\ Chunk => IInv'
<1> SUFFICES ASSUME IInv, Chunk PROVE IInv'
  OBVIOUS
<1> DEFINE kind == cur.kind
           had == IF out[kind] = <<>> THEN <<>> ELSE out[kind][1].val
<1>1. /\ pc = "sent" /\ kind \in Streams /\ pc' \in {"sent", "returning"}
      /\ calls' = calls /\ cur' = cur /\ passed' = passed /\ owned' = owned /\ wild' = wild
  BY DEF Chunk
<1>2. PICK chunk \in Replies[kind] :
        /\ heap' = heap \cup ReplyBlocks(kind, chunk, Len(had), calls)
        /\ out' = [out EXCEPT ![kind] = IF had \o chunk = <<>> THEN <<>> ELSE Result(had \o chunk)]
  BY DEF Chunk
<1>3. /\ cur \in Requests /\ kind \in Kinds /\ (cur.wanted \/ kind \in NeedsNoResult)
      /\ ReplyOK(kind, chunk)
  BY RequestsAre DEF IInv, Typed
<1>4. kind \in owned
  BY <1>1, <1>3 DEF IInv, Running, Streams, NeedsNoResult
<1>5. /\ out[kind] # <<>> => Held(kind) /\ out[kind][1].call = calls /\ ValOK(kind, had)
      /\ out[kind] = <<>> => ~Held(kind) /\ had = <<>>
  BY <1>1, <1>3, <1>4 DEF IInv, OutInv, CallsApart, Held
<1>6. IsList(had)
  BY <1>1, <1>5, EmptyOut DEF ValOK, ReplyOK, Streams
<1>7. OutBlocks(kind, <<>>, calls) = {}
  BY <1>1, EmptyOut
<1>8. /\ Held(kind) => Of(kind) = OutBlocks(kind, had, calls)
      /\ ~Held(kind) => OutBlocks(kind, had, calls) = {}
      /\ OutBlocks(kind, had, calls) \subseteq heap
  <2>1. Held(kind) => Of(kind) = OutBlocks(kind, had, calls)
    BY <1>5 DEF Held, Of
  <2>2. ~Held(kind) => OutBlocks(kind, had, calls) = {}
    BY <1>4, <1>5, <1>7 DEF Held
  <2>3. Held(kind) => Of(kind) \subseteq heap
    BY <1>3 DEF IInv, HeapInv
  <2> QED
    BY <2>1, <2>2, <2>3
<1> DEFINE val == had \o chunk
           x == IF val = <<>> THEN <<>> ELSE Result(val)
           D == ReplyBlocks(kind, chunk, Len(had), calls)
           B == IF x = <<>> THEN {} ELSE OutBlocks(kind, x[1].val, calls)
           T == Temp(kind, cur.args, calls, x # <<>>)
<1> HIDE DEF had
<1>9. ValOK(kind, val) /\ OutBlocks(kind, val, calls) = OutBlocks(kind, had, calls) \cup D
  BY <1>1, <1>3, <1>6, ChunkAddsOut
<1>10. heap' = heap \cup D /\ out' = [out EXCEPT ![kind] = x]
  BY <1>2
<1> HIDE DEF val, D
<1>11. val # <<>> => x # <<>> /\ x[1].call = calls /\ x[1].val = val
  BY DEF Result
<1>12. val = <<>> => x = <<>>
  OBVIOUS
<1>13. B = OutBlocks(kind, had, calls) \cup D
  <2> HIDE DEF x
  <2> QED
    BY <1>7, <1>9, <1>11, <1>12
<1>14. T = CallTemp /\ CallTemp \subseteq heap
  <2>1. T = CallTemp
    BY <1>1 DEF CallTemp, Temp, RequestTemp, Streams
  <2> QED
    BY <1>1, <2>1 DEF IInv, HeapInv
<1>15. x # <<>> => x[1].call = calls /\ ValOK(kind, x[1].val)
  <2> HIDE DEF x
  <2> QED
    BY <1>9, <1>11, <1>12
<1>16. B = (IF x = <<>> THEN {} ELSE OutBlocks(kind, x[1].val, calls)) /\ T = Temp(kind, cur.args, calls, x # <<>>)
  OBVIOUS
<1> HIDE DEF x, B, T
<1>17. Grows(D, x, B, T)
  BY <1>8, <1>10, <1>13, <1>14, <1>15, <1>16 DEF Grows
<1> QED
  BY <1>1, <1>4, <1>17, GrowHeap

-----------------------------------------------------------------------------
(* A release of exactly the blocks that are there goes well. *)
LEMMA ReleaseExact ==
    ASSUME NEW ptrs, NEW B, Exact(ptrs, B), B \subseteq heap, NEW kind, Release(ptrs, kind)
    PROVE  heap' = heap \ B /\ wild' = wild
BY DEF Release, Exact

LEMMA ReturnIInv == IInv /\ Return => IInv'
<1> SUFFICES ASSUME IInv, Return PROVE IInv'
  OBVIOUS
<1>1. /\ pc = "returning" /\ pc' = "idle"
      /\ calls' = calls /\ cur' = cur /\ out' = out /\ passed' = passed /\ owned' = owned
  BY DEF Return
<1> DEFINE ptrs == RequestPtrs(cur.kind, cur.args, calls, out[cur.kind] # <<>>) \o Buffer(cur.kind, calls)
<1>2. Release(ptrs, cur.kind)
  BY DEF Return
<1>3. cur \in Requests /\ calls \in Nat /\ RequestOK(cur.kind, cur.args, cur.wanted)
  BY RequestsAre DEF IInv, Typed
<1>4. Exact(ptrs, CallTemp)
  BY <1>3, TempFreed DEF Within, CallTemp
<1> HIDE DEF ptrs
<1>5. CallTemp \subseteq heap
  BY <1>1 DEF IInv, HeapInv
<1>6. heap' = heap \ CallTemp /\ wild' = wild
  BY <1>2, <1>4, <1>5, ReleaseExact
<1>7. Kinds' = Kinds /\ \A b : Leaked(b)' = Leaked(b)
  BY DEF Kinds, Leaked
<1>8. Typed'
  BY <1>1, <1>7 DEF IInv, Typed
<1>9. OutInv'
  BY <1>1, <1>7 DEF IInv, OutInv
<1>10. CallsApart'
  BY <1>1 DEF IInv, CallsApart
<1>11. Running'
  BY <1>1 DEF Running
<1>12. HeapInv'
  <2>1. \A k \in Kinds : (Held(k)' <=> Held(k)) /\ Of(k)' = Of(k)
    BY <1>1 DEF Held, Of
  <2>2. ASSUME NEW k \in Kinds, Held(k) PROVE Of(k) \subseteq heap'
    <3>1. Of(k) \subseteq heap
      BY <2>2 DEF IInv, HeapInv
    <3>2. out[k][1].call \in 1 .. calls /\ ValOK(k, out[k][1].val)
      BY <2>2 DEF IInv, OutInv, Held
    <3>3. out[k][1].call \in Nat
      BY <1>3, <3>2
    <3>4. \A b \in Of(k) : b[2] = "out"
      BY <3>2, <3>3, OutIsOfCall DEF Of
    <3>5. \A b \in CallTemp : b[2] # "out"
      BY <1>3, TempIsOfCall DEF CallTemp
    <3> QED
      BY <1>6, <3>1, <3>4, <3>5
  <2>3. ASSUME NEW b \in heap' PROVE Leaked(b) \/ (\E k \in Kinds : Held(k) /\ b \in Of(k))
    BY <1>6, <2>3 DEF IInv, HeapInv
  <2> QED
    BY <1>1, <1>7, <2>1, <2>2, <2>3 DEF HeapInv
<1>13. OnlyKnownWild'
  BY <1>6 DEF IInv, OnlyKnownWild
<1> QED
  BY <1>8, <1>9, <1>10, <1>11, <1>12, <1>13 DEF IInv

(* Two results are of two calls, and have no block in common. *)
LEMMA ResultsApart ==
    ASSUME IInv, NEW k \in Kinds, NEW l \in Kinds, k # l, Held(k), Held(l)
    PROVE  Of(k) \cap Of(l) = {}
<1>1. out[k][1].call # out[l][1].call
  BY DEF IInv, CallsApart, Held
<1>2. /\ out[k][1].call \in 1 .. calls /\ ValOK(k, out[k][1].val)
      /\ out[l][1].call \in 1 .. calls /\ ValOK(l, out[l][1].val)
  BY DEF IInv, OutInv, Held
<1>3. out[k][1].call \in Nat /\ out[l][1].call \in Nat
  BY <1>2 DEF IInv, Typed
<1>4. \A b \in Of(k) : b[1] = out[k][1].call
  BY <1>2, <1>3, OutIsOfCall DEF Of
<1>5. \A b \in Of(l) : b[1] = out[l][1].call
  BY <1>2, <1>3, OutIsOfCall DEF Of
<1> QED
  BY <1>1, <1>4, <1>5

LEMMA HeldFreed ==
    ASSUME IInv, NEW k \in Kinds, Held(k)
    PROVE  Exact(OutPtrs(k, out[k][1].val, out[k][1].call), Of(k))
<1>1. out[k][1].call \in 1 .. calls /\ ValOK(k, out[k][1].val)
  BY DEF IInv, OutInv, Held
<1>2. out[k][1].call \in Nat
  BY <1>1 DEF IInv, Typed
<1> QED
  BY <1>1, <1>2, ResultFreed DEF Within, Of

LEMMA FreeIInv == IInv /\ Free => IInv'
<1> SUFFICES ASSUME IInv, Free PROVE IInv'
  OBVIOUS
<1>1. pc = "idle" /\ pc' = "idle" /\ calls' = calls /\ cur' = cur /\ passed' = passed
  BY DEF Free
<1>2. PICK kind \in passed :
        /\ kind \in owned \/ kind \notin KeepsPointer
        /\ IF out[kind] = <<>> THEN UNCHANGED <<heap, wild>>
           ELSE Release(OutPtrs(kind, out[kind][1].val, out[kind][1].call), kind)
        /\ out' = [out EXCEPT ![kind] = Cleared(kind)]
        /\ owned' = owned \ {kind}
  BY DEF Free
<1>3. kind \in Kinds /\ DOMAIN out = Kinds
  BY DEF IInv, Typed
<1>4. out[kind] # <<>> <=> Held(kind)
  BY <1>2, <1>3 DEF IInv, OutInv, Held
<1> DEFINE gone == IF Held(kind) THEN Of(kind) ELSE {}
<1>5. heap' = heap \ gone /\ wild' = wild
  <2>1. CASE Held(kind)
    <3>1. Exact(OutPtrs(kind, out[kind][1].val, out[kind][1].call), Of(kind))
      BY <1>3, <2>1, HeldFreed
    <3>2. Of(kind) \subseteq heap
      BY <1>3, <2>1 DEF IInv, HeapInv
    <3>3. Release(OutPtrs(kind, out[kind][1].val, out[kind][1].call), kind)
      BY <1>2, <1>4, <2>1
    <3>4. heap' = heap \ Of(kind) /\ wild' = wild
      BY <3>1, <3>2, <3>3, ReleaseExact
    <3> QED
      BY <2>1, <3>4
  <2>2. CASE ~Held(kind)
    BY <1>2, <1>4, <2>2
  <2> QED
    BY <2>1, <2>2
<1>6. /\ DOMAIN out' = Kinds /\ out'[kind] \in {<<>>, out[kind]}
      /\ kind \notin KeepsPointer => out'[kind] = <<>>
      /\ \A k \in Kinds : k # kind => out'[k] = out[k]
  BY <1>2, <1>3 DEF Cleared
<1>7. Kinds' = Kinds /\ \A b : Leaked(b)' = Leaked(b)
  BY DEF Kinds, Leaked
<1>8. Typed'
  BY <1>1, <1>2, <1>6, <1>7 DEF IInv, Typed
<1>9. OutInv'
  <2>1. \A k \in Kinds : out'[k] # <<>> => out'[k][1].call \in 1 .. calls /\ ValOK(k, out'[k][1].val)
    BY <1>3, <1>6 DEF IInv, OutInv
  <2>2. \A k \in Kinds : k \notin owned' /\ k \notin KeepsPointer => out'[k] = <<>>
    BY <1>2, <1>3, <1>6 DEF IInv, OutInv
  <2> QED
    BY <1>1, <1>7, <2>1, <2>2 DEF OutInv
<1>10. CallsApart'
  <2>1. \A k \in owned' : k \in owned /\ k # kind /\ out'[k] = out[k]
    BY <1>2, <1>6 DEF IInv, Typed
  <2> QED
    BY <1>1, <2>1 DEF IInv, CallsApart
<1>11. Running'
  BY <1>1 DEF Running
<1>12. HeapInv'
  <2>1. ASSUME NEW k \in Kinds, k # kind PROVE (Held(k)' <=> Held(k)) /\ Of(k)' = Of(k)
    BY <1>2, <1>6, <2>1 DEF Held, Of
  <2>2. ~Held(kind)'
    BY <1>2 DEF Held
  <2>3. ASSUME NEW k \in Kinds, Held(k)' PROVE Of(k)' \subseteq heap'
    <3>1. k # kind
      BY <2>2, <2>3
    <3>2. Held(k) /\ Of(k)' = Of(k)
      BY <2>1, <2>3, <3>1
    <3>3. Of(k) \subseteq heap
      BY <3>2 DEF IInv, HeapInv
    <3>4. Held(kind) => Of(k) \cap Of(kind) = {}
      BY <1>3, <3>1, <3>2, ResultsApart
    <3> QED
      BY <1>5, <3>2, <3>3, <3>4
  <2>4. ASSUME NEW b \in heap' PROVE Leaked(b) \/ (\E k \in Kinds : Held(k)' /\ b \in Of(k)')
    <3>1. CASE Leaked(b)
      BY <3>1
    <3>2. CASE ~Leaked(b)
      <4>1. b \in heap /\ b \notin gone
        BY <1>5, <2>4
      <4>2. PICK k \in Kinds : Held(k) /\ b \in Of(k)
        BY <1>1, <3>2, <4>1 DEF IInv, HeapInv
      <4>3. k # kind
        BY <4>1, <4>2
      <4> QED
        BY <2>1, <4>2, <4>3
    <3> QED
      BY <3>1, <3>2
  <2> QED
    BY <1>1, <1>7, <2>3, <2>4 DEF HeapInv
<1>13. OnlyKnownWild'
  BY <1>5 DEF IInv, OnlyKnownWild
<1> QED
  BY <1>8, <1>9, <1>10, <1>11, <1>12, <1>13 DEF IInv

LEMMA NextIInv == IInv /\ [Next]_vars => IInv'
<1> SUFFICES ASSUME IInv, [Next]_vars PROVE IInv'
  OBVIOUS
<1>1. CASE UNCHANGED vars
  <2>1. Kinds' = Kinds /\ \A b : Leaked(b)' = Leaked(b)
    BY DEF Kinds, Leaked
  <2> USE <1>1 DEF vars
  <2>2. (\A k : (Held(k)' <=> Held(k)) /\ Of(k)' = Of(k)) /\ CallTemp' = CallTemp
    BY DEF Held, Of, CallTemp
  <2>3. Typed' /\ OutInv' /\ OnlyKnownWild'
    BY <2>1 DEF IInv, Typed, OutInv, OnlyKnownWild
  <2>4. CallsApart' /\ Running'
    BY DEF IInv, CallsApart, Running
  <2>5. HeapInv'
    BY <2>1, <2>2 DEF IInv, HeapInv
  <2> QED
    BY <2>3, <2>4, <2>5 DEF IInv
<1>2. CASE Next
  BY <1>2, CallIInv, ReplyIInv, ChunkIInv, FailIInv, ReturnIInv, FreeIInv DEF Next
<1> QED
  BY <1>1, <1>2

-----------------------------------------------------------------------------
(* The inductive invariant: every block is one of a result the application has
   to free, one the running call frees, or one of the three kinds of request
   nobody frees; no two results share one. *)
THEOREM BlocksInvariant == Spec => []IInv
BY InitIInv, NextIInv, PTL DEF Spec

(* What the application can free are the blocks of its results. *)
LEMMA ReachableIs ==
    IInv => Reachable = UNION {Of(k) : k \in {k \in Kinds : Held(k)}}
<1> SUFFICES ASSUME IInv PROVE Reachable = UNION {Of(k) : k \in {k \in Kinds : Held(k)}}
  OBVIOUS
<1>1. {k \in owned : out[k] # <<>>} = {k \in Kinds : Held(k)}
  BY DEF IInv, Typed, Held
<1>2. \A k \in {k \in Kinds : Held(k)} : Range(OutPtrs(k, out[k][1].val, out[k][1].call)) = Of(k)
  BY HeldFreed DEF Exact
<1> QED
  BY <1>1, <1>2 DEF Reachable

(* Every pointer in a result the application was given is to a block of its
   own that outlives the reply: for every request, reply and number of chunks
   (the copies of riack_helpers.c, the frees of riack_kv.c and riack_search.c). *)
THEOREM ResultsAreLive == Spec => []OutIsLive
<1>1. IInv => OutIsLive
  <2> SUFFICES ASSUME IInv PROVE OutIsLive
    OBVIOUS
  <2>1. \A k \in Kinds : Held(k) => Of(k) \subseteq heap
    BY DEF IInv, HeapInv
  <2> QED
    BY <2>1, ReachableIs DEF OutIsLive
<1> QED
  BY <1>1, BlocksInvariant, PTL

(* Between calls every block is one the application can free, but for the
   clock of a conditional get, the parameters of a search and the properties
   of a set. *)
THEOREM OnlyRequestsLeak == Spec => []OnlyKnownLeaks
<1>1. IInv => OnlyKnownLeaks
  <2> SUFFICES ASSUME IInv, pc = "idle", NEW b \in heap \ Reachable
               PROVE  b[2] \in {"if_modified", "search_req", "props"}
    BY DEF OnlyKnownLeaks
  <2>1. ~ \E k \in Kinds : Held(k) /\ b \in Of(k)
    BY ReachableIs
  <2>2. Leaked(b)
    BY <2>1 DEF IInv, HeapInv
  <2> QED
    BY <2>2 DEF Leaked
<1> QED
  BY <1>1, BlocksInvariant, PTL

(* No call and no free releases a block twice or a pointer to nothing; only
   riack_server_info follows a pointer that was never set (riack.c:272). *)
THEOREM NothingFreedTwice == Spec => []OnlyKnownWild
<1>1. IInv => OnlyKnownWild
  BY DEF IInv
<1> QED
  BY <1>1, BlocksInvariant, PTL

=============================================================================
