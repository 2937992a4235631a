---------------------------- MODULE KernelProofs ----------------------------
(***************************************************************************)
(* The safety of the two kernel modules, for every process tree, every set *)
(* of callers and every page table.                                        *)
(***************************************************************************)
EXTENDS KernelInvariant, DataLemmas

-----------------------------------------------------------------------------
(* The tree *)

\* Ancestry is what its recursive definition says: the processes are a tree,
\* so a function that satisfies the equation exists, built depth by depth.
LEMMA AncestryFits ==
  Ancestry = [p \in DOMAIN Parent |-> IF p = 0 THEN <<>> ELSE Ancestry[Parent[p]] \o Line[p]]
<1> DEFINE Fits(f) == f = [p \in DOMAIN Parent |->
                             IF p = 0 THEN <<>> ELSE f[Parent[p]] \o Line[p]]
<1>1. PICK depth \in [DOMAIN Parent -> 0..Cardinality(DOMAIN Parent)] :
         \A p \in DOMAIN Parent \ {0} : depth[Parent[p]] < depth[p]
  BY PtreeAssumption
<1>2. Cardinality(DOMAIN Parent) \in Nat
  BY PtreeAssumption, FS_CardinalityType
<1>3. \A p \in DOMAIN Parent : Parent[p] \in DOMAIN Parent /\ depth[p] \in Nat
  BY <1>1, <1>2, PtreeAssumption
<1> DEFINE Upto(n) == {p \in DOMAIN Parent : depth[p] <= n}
           Partly(f, n) == f = [p \in Upto(n) |->
                                  IF p = 0 THEN <<>> ELSE f[Parent[p]] \o Line[p]]
<1>4. \E f : Partly(f, 0)
  <2>1. \A p \in Upto(0) : p = 0
    BY <1>1, <1>3
  <2> WITNESS [p \in Upto(0) |-> <<>>]
  <2> QED
    BY <2>1
<1>5. ASSUME NEW n \in Nat, NEW f, Partly(f, n)
      PROVE  \E g : Partly(g, n + 1)
  <2>1. PICK g : g = [p \in Upto(n + 1) |-> IF p = 0 THEN <<>> ELSE f[Parent[p]] \o Line[p]]
    OBVIOUS
  <2>2. ASSUME NEW p \in Upto(n + 1), p # 0
        PROVE  g[Parent[p]] = f[Parent[p]]
    <3>1. Parent[p] \in Upto(n) /\ Parent[p] \in Upto(n + 1)
      BY <1>1, <1>3, <2>2
    <3> QED
      BY <1>5, <2>1, <3>1
  <2>3. Partly(g, n + 1)
    BY <2>1, <2>2
  <2> QED
    BY <2>3
<1>6. ASSUME NEW n \in Nat PROVE \E f : Partly(f, n)
  <2> HIDE DEF Partly
  <2> DEFINE Bad == {m \in Nat : ~ \E f : Partly(f, m)}
  <2> SUFFICES ASSUME Bad # {} PROVE FALSE
    OBVIOUS
  <2>1. Min(Bad) \in Bad /\ \A y \in Bad : Min(Bad) <= y
    BY MinOfNat
  <2>2. PICK m : m = Min(Bad)
    OBVIOUS
  <2>3. m \in Nat /\ m # 0
    BY <1>4, <2>1, <2>2
  <2>4. m - 1 \in Nat /\ ~(m <= m - 1) /\ (m - 1) + 1 = m
    BY <2>3
  <2>5. \E f : Partly(f, m - 1)
    BY <2>1, <2>2, <2>4
  <2>6. \E g : Partly(g, (m - 1) + 1)
    BY <1>5, <2>4, <2>5
  <2> QED
    BY <2>1, <2>2, <2>4, <2>6
<1>7. Upto(Cardinality(DOMAIN Parent)) = DOMAIN Parent
  BY <1>1, <1>2, <1>3
<1>8. \E f : Partly(f, Cardinality(DOMAIN Parent))
  BY <1>2, <1>6
<1>9. \E f : Fits(f)
  BY <1>7, <1>8
<1>10. Fits(CHOOSE f : Fits(f))
  BY <1>9
<1>11. Ancestry = CHOOSE f : Fits(f)
  BY DEF Ancestry
<1> HIDE DEF Fits
<1>12. Fits(Ancestry)
  BY <1>10, <1>11
<1> QED
  BY <1>12 DEF Fits

LEMMA LineType ==
  ASSUME NEW p \in DOMAIN Parent
  PROVE  Line[p] \in Seq(Chars) /\ Len(Line[p]) <= MAXLEN
<1>1. Line[p] \in Seq(Nat) /\ Len(Line[p]) < MAXLEN /\ MAXLEN \in Nat
  BY PtreeAssumption
<1> QED
  BY <1>1 DEF Chars

\* The lines of the oldest process are none, those of another one are those of
\* its parent and its own.
LEMMA AncestryUp ==
  /\ Ancestry[0] = <<>>
  /\ \A p \in DOMAIN Parent : Ancestry[p] \in Seq(Chars)
  /\ \A p \in DOMAIN Parent \ {0} : Ancestry[p] = Ancestry[Parent[p]] \o Line[p]
<1>1. 0 \in DOMAIN Parent
  BY PtreeAssumption
<1>2. Ancestry[0] = <<>>
  BY <1>1, AncestryFits
<1>3. \A p \in DOMAIN Parent \ {0} : Ancestry[p] = Ancestry[Parent[p]] \o Line[p]
  BY AncestryFits
<1>4. PICK depth \in [DOMAIN Parent -> 0..Cardinality(DOMAIN Parent)] :
         \A p \in DOMAIN Parent \ {0} : depth[Parent[p]] < depth[p]
  BY PtreeAssumption
<1>5. \A p \in DOMAIN Parent : Parent[p] \in DOMAIN Parent /\ depth[p] \in Nat /\ p \in Nat
  BY <1>4, PtreeAssumption, FS_CardinalityType
<1> DEFINE Bad == {p \in DOMAIN Parent : Ancestry[p] \notin Seq(Chars)}
           Depths == {depth[p] : p \in Bad}
<1>6. ASSUME NEW q \in Bad PROVE FALSE
  <2>1. Depths \in SUBSET Nat /\ Depths # {}
    BY <1>5, <1>6
  <2>2. Min(Depths) \in Depths /\ \A y \in Depths : Min(Depths) <= y
    BY <2>1, MinOfNat
  <2>3. PICK p \in Bad : Min(Depths) = depth[p]
    BY <2>2
  <2>4. <<>> \in Seq(Chars)
    OBVIOUS
  <2>5. p # 0
    BY <1>2, <2>4
  <2>6. depth[Parent[p]] \in Nat /\ depth[p] \in Nat /\ depth[Parent[p]] < depth[p]
    BY <1>4, <1>5, <2>5
  <2>7. Parent[p] \notin Bad
    <3>1. ~(depth[p] <= depth[Parent[p]])
      BY <2>6
    <3>2. depth[Parent[p]] \notin Depths
      <4> HIDE DEF Depths
      <4> QED
        BY <2>2, <2>3, <3>1
    <3> QED
      BY <3>2
  <2>8. Ancestry[Parent[p]] \in Seq(Chars)
    BY <1>5, <2>7
  <2>9. Line[p] \in Seq(Chars)
    BY <1>5, LineType
  <2>10. Ancestry[Parent[p]] \o Line[p] \in Seq(Chars)
    BY <2>8, <2>9, ConcatProperties
  <2> QED
    BY <1>3, <2>5, <2>10
<1> QED
  BY <1>2, <1>3, <1>6

-----------------------------------------------------------------------------
(* Cutting strings off *)

LEMMA CutType ==
  ASSUME NEW s \in Seq(Chars)
  PROVE  /\ Cut(s) \in Buffers /\ Cut(s) \in Seq(Chars) /\ Len(Cut(s)) = MAXLEN
<1>1. MAXLEN \in Nat
  BY PtreeAssumption
<1>2. NUL \in Chars
  BY DEF NUL, Chars
<1>3. \A i \in 1..MAXLEN : (IF i <= Len(s) THEN s[i] ELSE NUL) \in Chars
  BY <1>1, <1>2
<1> QED
  BY <1>1, <1>3 DEF Cut, Buffers

LEMMA BufferType ==
  ASSUME NEW s \in Buffers
  PROVE  s \in Seq(Chars) /\ Len(s) = MAXLEN /\ Cut(s) = s
<1>1. MAXLEN \in Nat
  BY PtreeAssumption
<1>2. s \in Seq(Chars) /\ Len(s) = MAXLEN
  BY <1>1 DEF Buffers
<1>3. s = [i \in 1..MAXLEN |-> s[i]]
  BY DEF Buffers
<1> QED
  BY <1>1, <1>2, <1>3 DEF Cut

\* What is cut off behind a prefix is cut off as well.
LEMMA CutBehind ==
  ASSUME NEW a \in Seq(Chars), NEW b \in Seq(Chars)
  PROVE  Cut(a \o Cut(b)) = Cut(a \o b)
<1>1. MAXLEN \in Nat
  BY PtreeAssumption
<1>2. PICK c : c = Cut(b)
  OBVIOUS
<1>3. c \in Seq(Chars) /\ Len(c) = MAXLEN
  BY <1>2, CutType
<1>4. \A i \in 1..MAXLEN : c[i] = IF i <= Len(b) THEN b[i] ELSE NUL
  BY <1>1, <1>2 DEF Cut
<1>5. Len(a \o c) = Len(a) + MAXLEN /\ Len(a \o b) = Len(a) + Len(b)
  BY <1>3
<1>6. ASSUME NEW i \in 1..MAXLEN
      PROVE  (IF i <= Len(a \o c) THEN (a \o c)[i] ELSE NUL)
               = (IF i <= Len(a \o b) THEN (a \o b)[i] ELSE NUL)
  <2>1. CASE i <= Len(a)
    BY <1>1, <1>3, <1>5, <2>1
  <2>2. CASE i > Len(a)
    <3>1. i - Len(a) \in 1..MAXLEN /\ i <= Len(a \o c)
      BY <1>1, <1>5, <2>2
    <3>2. (a \o c)[i] = c[i - Len(a)]
      BY <1>1, <1>3, <1>5, <2>2, <3>1
    <3>3. c[i - Len(a)] = IF i - Len(a) <= Len(b) THEN b[i - Len(a)] ELSE NUL
      BY <1>4, <3>1
    <3>4. i <= Len(a \o b) <=> i - Len(a) <= Len(b)
      BY <1>1, <1>5
    <3>5. i <= Len(a \o b) => (a \o b)[i] = b[i - Len(a)]
      BY <1>1, <1>5, <2>2
    <3> QED
      BY <3>1, <3>2, <3>3, <3>4, <3>5, Zenon
  <2> QED
    BY <1>1, <2>1, <2>2
<1> QED
  BY <1>2, <1>6 DEF Cut

\* Zeros behind a string are what cutting it off fills it with.
LEMMA CutZeros ==
  ASSUME NEW a \in Seq(Chars)
  PROVE  Cut(a \o Zeros) = Cut(a)
<1>1. <<>> \in Seq(Chars) /\ a \o <<>> = a
  BY ConcatEmptySeq
<1>2. Cut(<<>>) = Zeros
  <2>1. \A i \in 1..MAXLEN : ~(i <= Len(<<>>))
    BY PtreeAssumption
  <2> QED
    BY <2>1 DEF Cut, Zeros
<1> QED
  BY <1>1, <1>2, CutBehind

-----------------------------------------------------------------------------
(* The number in a text *)

LEMMA CharsType == NUL \in Chars /\ \A i \in Digits : i \in Nat
BY DEF NUL, Chars, Digits

LEMMA DecimalType ==
  ASSUME NEW b \in Seq(Chars)
  PROVE  Decimal(b) \in Nat
<1> DEFINE Fits(f) == f = [n \in 0..Len(b) |-> IF n = 0 THEN 0 ELSE 10 * f[n - 1] + b[n]]
<1>1. PICK m \in Nat : m = Len(b)
  OBVIOUS
<1>2. \A n \in 1..m : b[n] \in Nat
  BY <1>1 DEF Chars
<1>3. PICK G : G = [z \in (1..m) \X Nat |-> 10 * z[2] + b[z[1]]]
  OBVIOUS
<1>4. G \in [(1..m) \X Nat -> Nat]
  <2>1. \A n \in 1..m, v \in Nat : 10 * v + b[n] \in Nat
    BY <1>2
  <2>2. \A z \in (1..m) \X Nat : z[1] \in 1..m /\ z[2] \in Nat
    OBVIOUS
  <2> QED
    BY <1>3, <2>1, <2>2
<1>5. PICK f : Recurs(f, m, Nat, 0, G)
  <2>1. 0 \in Nat
    OBVIOUS
  <2> QED
    BY <1>4, <2>1, RecursionExists, Zenon
<1>6. ASSUME NEW n \in 1..m PROVE f[n] = 10 * f[n - 1] + b[n]
  <2>1. f \in [0..m -> Nat] /\ f[n] = G[<<n, f[n - 1]>>]
    BY <1>5 DEF Recurs
  <2>2. <<n, f[n - 1]>> \in (1..m) \X Nat
    BY <2>1
  <2> QED
    BY <1>3, <2>1, <2>2
<1>7. Fits(f)
  BY <1>1, <1>5, <1>6 DEF Recurs
<1>8. Fits(CHOOSE g : Fits(g))
  BY <1>7
<1>9. PICK value : value = CHOOSE g : Fits(g)
  OBVIOUS
<1>10. Decimal(b) = value[m]
  BY <1>1, <1>9 DEF Decimal
<1>11. value = [n \in 0..m |-> IF n = 0 THEN 0 ELSE 10 * value[n - 1] + b[n]]
  BY <1>1, <1>8, <1>9
<1>12. value[0] = 0 /\ \A n \in 1..m : value[n] = 10 * value[n - 1] + b[n]
  BY <1>11
<1> HIDE DEF Fits
<1>13. PICK S : S = {n \in 0..m : value[n] \in Nat}
  OBVIOUS
<1>14. 0 \in S
  BY <1>12, <1>13
<1>15. \A n \in 1..m : n - 1 \in S => n \in S
  <2> TAKE n \in 1..m
  <2>1. value[n] = 10 * value[n - 1] + b[n] /\ b[n] \in Nat
    BY <1>2, <1>12
  <2> QED
    BY <1>13, <2>1
<1>16. \A n \in 0..m : n \in S
  BY <1>14, <1>15, Stepwise, Zenon
<1>17. m \in S
  BY <1>16
<1> QED
  BY <1>10, <1>13, <1>17

\* The members of Numbers, without the pairs.
LEMMA NumbersAre ==
  ASSUME NEW s
  PROVE  /\ \A p \in Numbers(s) : \E i, j \in 1..Len(s) :
                NumberAt(s, i, j) /\ p = Decimal(SubSeq(s, i, j))
         /\ \A i, j \in 1..Len(s) : NumberAt(s, i, j) => Decimal(SubSeq(s, i, j)) \in Numbers(s)
<1>1. PICK At : At = {n \in (1..Len(s)) \X (1..Len(s)) : NumberAt(s, n[1], n[2])}
  OBVIOUS
<1>2. Numbers(s) = {Decimal(SubSeq(s, at[1], at[2])) : at \in At}
  BY <1>1 DEF Numbers
<1>3. ASSUME NEW p \in Numbers(s)
      PROVE  \E i, j \in 1..Len(s) : NumberAt(s, i, j) /\ p = Decimal(SubSeq(s, i, j))
  <2>1. PICK at \in At : p = Decimal(SubSeq(s, at[1], at[2]))
    BY <1>2
  <2>2. at \in (1..Len(s)) \X (1..Len(s)) /\ NumberAt(s, at[1], at[2])
    BY <1>1
  <2>3. at[1] \in 1..Len(s) /\ at[2] \in 1..Len(s)
    BY <2>2
  <2> QED
    BY <2>1, <2>2, <2>3, Zenon
<1>4. ASSUME NEW i \in 1..Len(s), NEW j \in 1..Len(s), NumberAt(s, i, j)
      PROVE  Decimal(SubSeq(s, i, j)) \in Numbers(s)
  <2>1. PICK at : at = <<i, j>>
    OBVIOUS
  <2>2. at \in (1..Len(s)) \X (1..Len(s)) /\ at[1] = i /\ at[2] = j
    BY <2>1
  <2>3. at \in At
    BY <1>1, <1>4, <2>2
  <2> QED
    BY <1>2, <2>2, <2>3
<1> QED
  BY <1>3, <1>4

\* A string has one number at most, and one with an end keeps it, whatever
\* comes behind.
LEMMA NumberUnique ==
  ASSUME NEW s \in Seq(Chars), NEW t \in Seq(Chars), Len(s) <= Len(t),
         \A k \in 1..Len(s) : s[k] = t[k],
         NEW i \in 1..Len(s), NEW j \in 1..Len(s), NumberAt(s, i, j),
         NEW k \in 1..Len(t), NEW l \in 1..Len(t), NumberAt(t, k, l)
  PROVE  i = k /\ j = l
<1>1. /\ i <= j /\ j < Len(s) /\ j + 1 \in 1..Len(s) /\ k <= l /\ l < Len(t) /\ l + 1 \in 1..Len(t)
      /\ Len(s) \in Nat /\ Len(t) \in Nat
  BY DEF NumberAt
<1>2. /\ \A n \in 1..(i - 1) : s[n] = Blank
      /\ \A n \in i..j : s[n] \in Digits
      /\ s[j + 1] \notin Digits
  BY DEF NumberAt
<1>3. /\ \A n \in 1..(k - 1) : t[n] = Blank
      /\ \A n \in k..l : t[n] \in Digits
      /\ t[l + 1] \notin Digits
  BY DEF NumberAt
<1>4. Blank \notin Digits
  BY DEF Blank, Digits
<1>5. ~(i < k)
  <2> SUFFICES ASSUME i < k PROVE FALSE
    OBVIOUS
  <2>1. i \in 1..(k - 1) /\ i \in i..j
    BY <1>1
  <2> QED
    BY <1>2, <1>3, <1>4, <2>1
<1>6. ~(k < i)
  <2> SUFFICES ASSUME k < i PROVE FALSE
    OBVIOUS
  <2>1. k \in 1..(i - 1) /\ k \in k..l /\ k \in 1..Len(s)
    BY <1>1
  <2> QED
    BY <1>2, <1>3, <1>4, <2>1
<1>7. i = k
  BY <1>5, <1>6
<1>8. ~(j < l)
  <2> SUFFICES ASSUME j < l PROVE FALSE
    OBVIOUS
  <2>1. j + 1 \in k..l
    BY <1>1, <1>7
  <2> QED
    BY <1>1, <1>2, <1>3, <2>1
<1>9. ~(l < j)
  <2> SUFFICES ASSUME l < j PROVE FALSE
    OBVIOUS
  <2>1. l + 1 \in i..j /\ l + 1 \in 1..Len(s)
    BY <1>1, <1>7
  <2> QED
    BY <1>2, <1>3, <2>1
<1> QED
  BY <1>1, <1>7, <1>8, <1>9

LEMMA NumberStays ==
  ASSUME NEW s \in Seq(Chars), NEW t \in Seq(Chars), Len(s) <= Len(t),
         \A k \in 1..Len(s) : s[k] = t[k], NEW p \in Numbers(s)
  PROVE  Numbers(t) = {p}
<1>1. PICK i \in 1..Len(s), j \in 1..Len(s) : NumberAt(s, i, j) /\ p = Decimal(SubSeq(s, i, j))
  BY NumbersAre
<1>2. i <= j /\ j < Len(s) /\ j + 1 \in 1..Len(s) /\ Len(s) \in Nat /\ Len(t) \in Nat
  BY <1>1 DEF NumberAt
<1>3. i \in 1..Len(t) /\ j \in 1..Len(t)
  BY <1>2
<1>4. NumberAt(t, i, j)
  <2>1. \A n \in 1..(i - 1) : n \in 1..Len(s)
    BY <1>2
  <2>2. \A n \in i..j : n \in 1..Len(s)
    BY <1>2
  <2>3. j < Len(t)
    BY <1>2
  <2> QED
    BY <1>1, <1>2, <2>1, <2>2, <2>3 DEF NumberAt
<1>5. SubSeq(t, i, j) = SubSeq(s, i, j)
  BY <1>2
<1>6. p \in Numbers(t)
  BY <1>1, <1>3, <1>4, <1>5, NumbersAre
<1>7. ASSUME NEW q \in Numbers(t) PROVE q = p
  <2>1. PICK k \in 1..Len(t), l \in 1..Len(t) : NumberAt(t, k, l) /\ q = Decimal(SubSeq(t, k, l))
    BY NumbersAre
  <2>2. i = k /\ j = l
    BY <1>1, <2>1, NumberUnique
  <2> QED
    BY <1>1, <1>5, <2>1, <2>2
<1> QED
  BY <1>6, <1>7

LEMMA NumbersType ==
  /\ Numbers(<<>>) = {}
  /\ \A s \in Seq(Chars) : \A p \in Numbers(s) : p \in Nat
<1>1. ASSUME NEW p \in Numbers(<<>>) PROVE FALSE
  <2>1. PICK i \in 1..Len(<<>>) : TRUE
    BY NumbersAre
  <2> QED
    BY <2>1
<1>2. ASSUME NEW s \in Seq(Chars), NEW p \in Numbers(s) PROVE p \in Nat
  <2>1. PICK i \in 1..Len(s), j \in 1..Len(s) : NumberAt(s, i, j) /\ p = Decimal(SubSeq(s, i, j))
    BY NumbersAre
  <2>2. i <= j
    BY <2>1 DEF NumberAt
  <2>3. SubSeq(s, i, j) \in Seq(Chars)
    BY <2>2
  <2> QED
    BY <2>1, <2>3, DecimalType
<1> QED
  BY <1>1, <1>2

-----------------------------------------------------------------------------
(* dbfs_ptree: the types *)

\* Gather puts the line of a process in front of buf.
LEMMA GatherType ==
  ASSUME NEW x \in Seq(Chars), NEW b \in Buffers
  PROVE  Cut(x \o b) \in Buffers
<1>1. b \in Seq(Chars)
  BY BufferType
<1>2. x \o b \in Seq(Chars)
  BY <1>1, ConcatProperties
<1> QED
  BY <1>2, CutType

\* What copy_from_user leaves in buf.
LEMMA OverType ==
  ASSUME NEW s \in Seq(Chars), buf \in Buffers
  PROVE  /\ Over(s) \in Buffers
         /\ Len(s) <= MAXLEN => \A k \in 1..Len(s) : s[k] = Over(s)[k]
<1>1. MAXLEN \in Nat
  BY PtreeAssumption
<1>2. \A i \in 1..MAXLEN : (IF i <= Len(s) THEN s[i] ELSE buf[i]) \in Chars
  BY <1>1 DEF Buffers
<1> QED
  BY <1>1, <1>2 DEF Over, Buffers

LEMMA TextType == \A text \in Texts : text \in Seq(Chars)
BY PtreeAssumption DEF Chars

\* The text as far as it was copied, and zeros.
LEMMA FaultType ==
  ASSUME NEW text \in Texts, NEW n
  PROVE  [i \in 1..Len(text) |-> IF i <= n THEN text[i] ELSE NUL] \in Seq(Chars)
<1>1. text \in Seq(Chars) /\ Len(text) \in Nat
  BY TextType
<1>2. \A i \in 1..Len(text) : (IF i <= n THEN text[i] ELSE NUL) \in Chars
  BY <1>1, CharsType
<1>3. [i \in 1..Len(text) |-> IF i <= n THEN text[i] ELSE NUL] \in [1..Len(text) -> Chars]
  BY <1>2
<1> QED
  BY <1>1, <1>3, FunctionIsSeq

LEMMA ZerosType == Zeros \in Buffers /\ <<>> \in Seq(Chars)
BY CharsType DEF Zeros, Buffers

LEMMA NoneType == None \in Int /\ None \notin Nat
BY DEF None

LEMMA PtreeTypeInit == PtreeInit => PtreeType
<1>1. Idle \in WriterType /\ Closed \in ReaderType
  BY PtreeAssumption, ZerosType DEF Idle, Closed, WriterType, ReaderType, None
<1>2. Idle.pc = "idle" /\ Len(Idle.buf_add) <= MAXLEN
  BY PtreeAssumption DEF Idle
<1> QED
  BY <1>1, <1>2, ZerosType, PtreeAssumption DEF PtreeInit, PtreeType

LEMMA PtreeTypeStep == PtreeType /\ PtreeNext => PtreeType'
<1> SUFFICES ASSUME PtreeType, PtreeNext PROVE PtreeType'
  OBVIOUS
<1>1. ASSUME NEW w \in Writers, NEW text \in Texts,
             CopyFromUser(w, text) \/ CopyFaults(w, text) \/ CopyRefused(w, text)
      PROVE  PtreeType'
  <2>1. text \in Seq(Chars)
    BY TextType
  <2>2. ASSUME Spoil PROVE rd' \in [Readers -> ReaderType] /\ branch' \in Seq(Chars)
    <3>1. PICK e \in Seq(Chars) : e = <<>>
      BY ZerosType
    <3>2. 0 \in 0..MAXLEN
      BY PtreeAssumption
    <3>3. \A r \in Readers : [rd[r] EXCEPT !.want = e, !.out = e, !.first = 0] \in ReaderType
      BY <3>2 DEF PtreeType, ReaderType
    <3> QED
      BY <2>2, <3>1, <3>3 DEF Spoil
  <2>3. CASE CopyFromUser(w, text)
    <3>1. buf' \in Buffers
      BY <2>1, <2>3, OverType DEF CopyFromUser, PtreeType
    <3>2. PICK x : x = [Idle EXCEPT !.pc = "scan", !.asked = text]
      OBVIOUS
    <3>3. x \in WriterType /\ x.pc = "scan" /\ x.buf_add = <<>>
      BY <2>1, <3>2, NoneType, ZerosType DEF Idle, WriterType
    <3>4. wr' = [wr EXCEPT ![w] = x]
      BY <2>3, <3>2, Zenon DEF CopyFromUser
    <3>5. wr' \in [Writers -> WriterType]
      BY <3>3, <3>4 DEF PtreeType
    <3>6. ASSUME NEW y \in Writers
          PROVE  /\ Len(wr'[y].buf_add) <= MAXLEN
                 /\ wr'[y].pc = "store" => wr'[y].buf_add \in Buffers
      <4>1. Len(<<>>) <= MAXLEN
        BY PtreeAssumption
      <4> QED
        BY <3>3, <3>4, <4>1 DEF PtreeType
    <3>7. alone' \in [Writers -> BOOLEAN]
      BY <2>3, Zenon DEF CopyFromUser
    <3>8. writes' = writes + 1 /\ curr' = curr /\ Spoil
      BY <2>3, Zenon DEF CopyFromUser
    <3>9. writes' \in Nat
      BY <3>8 DEF PtreeType
    <3> QED
      BY <2>2, <3>1, <3>5, <3>6, <3>7, <3>8, <3>9 DEF PtreeType
  <2>4. CASE CopyFaults(w, text)
    <3>1. PICK n : buf' = Over([i \in 1..Len(text) |-> IF i <= n THEN text[i] ELSE NUL])
      BY <2>4, Zenon DEF CopyFaults
    <3>2. PICK t : t = [i \in 1..Len(text) |-> IF i <= n THEN text[i] ELSE NUL]
      OBVIOUS
    <3>3. t \in Seq(Chars) /\ buf' = Over(t)
      BY <3>1, <3>2, FaultType
    <3>4. buf' \in Buffers
      BY <3>3, OverType DEF PtreeType
    <3>5. alone' \in [Writers -> BOOLEAN]
      BY <2>4, Zenon DEF CopyFaults
    <3>6. writes' = writes + 1 /\ UNCHANGED <<curr, wr>> /\ Spoil
      BY <2>4, Zenon DEF CopyFaults
    <3>7. writes' \in Nat
      BY <3>6 DEF PtreeType
    <3> QED
      BY <2>2, <3>4, <3>5, <3>6, <3>7 DEF PtreeType
  <2>5. CASE CopyRefused(w, text)
    <3>1. writes' = writes + 1 /\ UNCHANGED <<buf, curr, wr, rd, alone, branch>>
      BY <2>5, Zenon DEF CopyRefused
    <3>2. writes' \in Nat
      BY <3>1 DEF PtreeType
    <3> QED
      BY <3>1, <3>2 DEF PtreeType
  <2> QED
    BY <1>1, <2>3, <2>4, <2>5
<1>2. ASSUME NEW w \in Writers, WriterStep(w)
      PROVE  PtreeType'
  <2>1. wr[w] \in WriterType
    BY DEF PtreeType
  <2>2. ASSUME NEW r \in WriterType, wr' = [wr EXCEPT ![w] = r],
               r.buf_add \in {wr[w].buf_add, <<>>} \/ Len(r.buf_add) <= MAXLEN,
               r.pc = "store" => r.buf_add \in Buffers,
               buf' \in Buffers, curr' \in DOMAIN Parent \cup {None}, UNCHANGED <<rd, writes, alone>>,
               branch' \in Seq(Chars)
        PROVE  PtreeType'
    <3>1. wr' \in [Writers -> WriterType]
      BY <2>2 DEF PtreeType
    <3>2. ASSUME NEW x \in Writers
          PROVE  /\ Len(wr'[x].buf_add) <= MAXLEN
                 /\ wr'[x].pc = "store" => wr'[x].buf_add \in Buffers
      <4>1. Len(<<>>) <= MAXLEN /\ Len(wr[w].buf_add) <= MAXLEN
        BY PtreeAssumption DEF PtreeType
      <4>2. Len(r.buf_add) <= MAXLEN
        BY <2>2, <4>1
      <4> QED
        BY <2>2, <4>2 DEF PtreeType
    <3> QED
      BY <2>2, <3>1, <3>2 DEF PtreeType
  <2>3. CASE Scan(w)
    <3>1. PICK p \in IF Numbers(buf) # {} THEN Numbers(buf) ELSE DOMAIN Parent \cup {None} :
             wr' = [wr EXCEPT ![w].pc = "clear", ![w].input_pid = p]
      BY <2>3 DEF Scan
    <3>2. buf \in Seq(Chars)
      BY BufferType DEF PtreeType
    <3>3. p \in Int
      BY <3>1, <3>2, NumbersType, PtreeAssumption DEF None
    <3>4. PICK r : r = [wr[w] EXCEPT !.pc = "clear", !.input_pid = p]
      OBVIOUS
    <3>5. r \in WriterType /\ r.pc = "clear" /\ r.buf_add = wr[w].buf_add
      BY <2>1, <3>3, <3>4 DEF WriterType
    <3>6. wr' = [wr EXCEPT ![w] = r]
      BY <2>1, <3>1, <3>4 DEF PtreeType, WriterType
    <3> QED
      BY <2>2, <2>3, <3>5, <3>6 DEF Scan, PtreeType
  <2>4. CASE Clear(w)
    <3>1. PICK r : r = [wr[w] EXCEPT !.pc = "find"]
      OBVIOUS
    <3>2. r \in WriterType /\ r.pc = "find" /\ r.buf_add = wr[w].buf_add
      BY <2>1, <3>1 DEF WriterType
    <3> QED
      BY <2>2, <2>4, <3>1, <3>2, ZerosType DEF Clear, PtreeType
  <2>5. CASE FindTask(w)
    <3>1. PICK r : r = [wr[w] EXCEPT !.pc = "while", !.input_pid = None]
      OBVIOUS
    <3>2. r \in WriterType /\ r.pc = "while" /\ r.buf_add = wr[w].buf_add
      BY <2>1, <3>1, NoneType DEF WriterType
    <3>3. wr' = [wr EXCEPT ![w] = r]
      BY <2>1, <2>5, <3>1 DEF FindTask, PtreeType, WriterType
    <3> QED
      BY <2>2, <2>5, <3>2, <3>3 DEF FindTask, PtreeType
  <2>6. CASE Oops(w)
    <3>1. PICK r : r = [Idle EXCEPT !.pc = "killed"]
      OBVIOUS
    <3>2. r \in WriterType /\ r.pc = "killed" /\ r.buf_add = <<>>
      BY <3>1, NoneType, ZerosType DEF WriterType, Idle
    <3> QED
      BY <2>2, <2>6, <3>1, <3>2 DEF Oops, PtreeType
  <2>7. CASE Return(w)
    <3>1. Idle \in WriterType /\ Idle.pc = "idle" /\ Len(Idle.buf_add) <= MAXLEN
      BY PtreeAssumption, ZerosType DEF WriterType, Idle, None
    <3>2. branch' \in Seq(Chars)
      BY <2>1, <2>7 DEF Return, PtreeType, WriterType
    <3> QED
      BY <2>2, <2>7, <3>1, <3>2 DEF Return, PtreeType
  <2>8. CASE Enter(w)
    <3>1. PICK r : r = [wr[w] EXCEPT !.pc = "format"]
      OBVIOUS
    <3>2. r \in WriterType /\ r.pc = "format" /\ r.buf_add = wr[w].buf_add
      BY <2>1, <3>1 DEF WriterType
    <3> QED
      BY <2>2, <2>8, <3>1, <3>2 DEF Enter, PtreeType
  <2>9. CASE Format(w)
    <3>1. PICK b : b = Line[curr]
      OBVIOUS
    <3>2. b \in Seq(Chars) /\ Len(b) <= MAXLEN
      BY <2>9, <3>1, LineType DEF Format, PtreeType
    <3>3. PICK r : r = [wr[w] EXCEPT !.pc = "gather", !.buf_add = b]
      OBVIOUS
    <3>4. r \in WriterType /\ r.pc = "gather" /\ Len(r.buf_add) <= MAXLEN
      BY <2>1, <3>2, <3>3 DEF WriterType
    <3>5. wr' = [wr EXCEPT ![w] = r]
      BY <2>1, <2>9, <3>1, <3>3 DEF Format, PtreeType, WriterType
    <3> QED
      BY <2>2, <2>9, <3>4, <3>5 DEF Format, PtreeType
  <2>10. CASE Gather(w)
    <3>1. wr[w].buf_add \in Seq(Chars) /\ buf \in Buffers
      BY <2>1 DEF WriterType, PtreeType
    <3>2. PICK b : b = Cut(wr[w].buf_add \o buf)
      OBVIOUS
    <3>3. b \in Buffers
      BY <3>1, <3>2, GatherType
    <3>4. b \in Seq(Chars) /\ Len(b) <= MAXLEN
      BY <3>3, BufferType, PtreeAssumption
    <3>5. PICK r : r = [wr[w] EXCEPT !.pc = "store", !.buf_add = b]
      OBVIOUS
    <3>6. r \in WriterType /\ r.pc = "store" /\ r.buf_add = b
      BY <2>1, <3>4, <3>5 DEF WriterType
    <3>7. wr' = [wr EXCEPT ![w].pc = "store", ![w].buf_add = b]
      BY <2>1, <2>10, <3>2 DEF Gather, PtreeType, WriterType
    <3>8. wr' = [wr EXCEPT ![w] = r]
      BY <2>1, <3>5, <3>7 DEF PtreeType, WriterType
    <3> QED
      BY <2>2, <2>10, <3>3, <3>4, <3>6, <3>8 DEF Gather, PtreeType
  <2>11. CASE Store(w)
    <3>1. PICK r : r = [wr[w] EXCEPT !.pc = "up", !.buf_add = <<>>]
      OBVIOUS
    <3>2. r \in WriterType /\ r.pc = "up" /\ r.buf_add = <<>>
      BY <2>1, <3>1, ZerosType DEF WriterType
    <3>3. wr' = [wr EXCEPT ![w] = r]
      BY <2>1, <2>11, <3>1 DEF Store, PtreeType, WriterType
    <3> QED
      BY <2>2, <2>11, <3>2, <3>3 DEF Store, PtreeType
  <2>12. CASE Up(w)
    <3>1. PICK r : r = [wr[w] EXCEPT !.pc = "while"]
      OBVIOUS
    <3>2. r \in WriterType /\ r.pc = "while" /\ r.buf_add = wr[w].buf_add
      BY <2>1, <3>1 DEF WriterType
    <3>3. Parent[curr] \in DOMAIN Parent
      BY <2>12, PtreeAssumption DEF Up, PtreeType
    <3> QED
      BY <2>2, <2>12, <3>1, <3>2, <3>3 DEF Up, PtreeType
  <2> QED
    BY <1>2, <2>3, <2>4, <2>5, <2>6, <2>7, <2>8, <2>9, <2>10, <2>11, <2>12 DEF WriterStep
<1>3. ASSUME NEW r \in Readers, NEW x \in ReaderType, rd' = [rd EXCEPT ![r] = x],
             UNCHANGED <<buf, curr, wr, writes, alone, branch>>
      PROVE  PtreeType'
  <2>1. rd' \in [Readers -> ReaderType]
    BY <1>3 DEF PtreeType
  <2> QED
    BY <1>3, <2>1 DEF PtreeType
<1>4. ASSUME NEW r \in Readers, OpenOutput(r) PROVE PtreeType'
  <2>1. branch \in Seq(Chars) /\ 0 \in 0..MAXLEN
    BY PtreeAssumption DEF PtreeType
  <2>2. [Closed EXCEPT !.pc = "reading", !.want = branch] \in ReaderType
    BY <2>1, ZerosType DEF Closed, ReaderType
  <2> QED
    BY <1>3, <1>4, <2>2 DEF OpenOutput
<1>5. ASSUME NEW r \in Readers, Close(r) PROVE PtreeType'
  <2>1. Closed \in ReaderType
    BY ZerosType, PtreeAssumption DEF Closed, ReaderType
  <2> QED
    BY <1>3, <1>5, <2>1 DEF Close
<1>6. ASSUME NEW r \in Readers, NEW length \in Chunks, read_trace_from_output(r, length)
      PROVE  PtreeType'
  <2>1. rd[r] \in ReaderType
    BY DEF PtreeType
  <2>2. PICK len : len = IF length < MAXLEN - rd[r].pos THEN length ELSE MAXLEN - rd[r].pos
    OBVIOUS
  <2>3. rd[r].pos \in 0..MAXLEN /\ MAXLEN \in Nat /\ length \in Nat
    BY <2>1, PtreeAssumption DEF ReaderType
  <2>4. len \in 0..MAXLEN /\ rd[r].pos + len \in 0..MAXLEN
    BY <2>2, <2>3
  <2>5. buf \in Seq(Chars) /\ Len(buf) = MAXLEN
    BY BufferType DEF PtreeType
  <2>6. PICK out : out = IF rd[r].want = <<>> THEN rd[r].out
                         ELSE rd[r].out \o SubSeq(buf, 1, len)
    OBVIOUS
  <2>7. SubSeq(buf, 1, len) \in Seq(Chars) /\ rd[r].out \in Seq(Chars)
    BY <2>1, <2>4, <2>5, Cuts DEF ReaderType
  <2>8. rd[r].out \o SubSeq(buf, 1, len) \in Seq(Chars)
    BY <2>7, ConcatProperties
  <2>9. out \in Seq(Chars)
    BY <2>6, <2>7, <2>8
  <2>10. PICK pc : pc = IF len = 0 THEN "eof" ELSE rd[r].pc
    OBVIOUS
  <2>11. pc \in {"closed", "reading", "eof"}
    BY <2>1, <2>10 DEF ReaderType
  <2>12. PICK n : n = IF rd[r].out = <<>> /\ rd[r].want # <<>> THEN len ELSE rd[r].first
    OBVIOUS
  <2>13. n \in 0..MAXLEN
    BY <2>1, <2>4, <2>12 DEF ReaderType
  <2>14. PICK x : x = [rd[r] EXCEPT !.pos = rd[r].pos + len, !.out = out, !.first = n, !.pc = pc]
    OBVIOUS
  <2>15. x \in ReaderType
    BY <2>1, <2>4, <2>9, <2>11, <2>13, <2>14 DEF ReaderType
  <2>16. rd' = [rd EXCEPT ![r].pos = rd[r].pos + len, ![r].out = out, ![r].first = n, ![r].pc = pc]
    BY <1>6, <2>1, <2>2, <2>6, <2>10, <2>12 DEF read_trace_from_output, PtreeType, ReaderType
  <2>17. rd' = [rd EXCEPT ![r] = x]
    BY <2>1, <2>14, <2>16 DEF PtreeType, ReaderType
  <2> QED
    BY <1>3, <1>6, <2>15, <2>17 DEF read_trace_from_output
<1> QED
  BY <1>1, <1>2, <1>4, <1>5, <1>6 DEF PtreeNext

-----------------------------------------------------------------------------
(* dbfs_ptree: the branch *)

\* The line of p moves from the processes that are to come into the buffer.
LEMMA LineMoves ==
  ASSUME NEW p \in DOMAIN Parent \ {0}, NEW q, NEW s \in Buffers, Completes(p, s, q)
  PROVE  Completes(Parent[p], Cut(Line[p] \o s), q)
<1>1. Parent[p] \in DOMAIN Parent
  BY PtreeAssumption
<1>2. PICK l : l = Line[p]
  OBVIOUS
<1>3. l \in Seq(Chars)
  BY <1>2, LineType
<1>5. PICK a : a = Ancestry[Parent[p]]
  OBVIOUS
<1>6. a \in Seq(Chars) /\ Ancestry[p] = a \o l
  BY <1>1, <1>2, <1>5, AncestryUp
<1>7. s \in Seq(Chars)
  BY BufferType
<1>8. l \o s \in Seq(Chars)
  BY <1>3, <1>7, ConcatProperties
<1>9. (a \o l) \o s = a \o (l \o s)
  BY <1>3, <1>6, <1>7, ConcatAssociative
<1>10. Cut(a \o Cut(l \o s)) = Cut(a \o (l \o s))
  BY <1>6, <1>8, CutBehind
<1>11. Cut((a \o l) \o s) = BranchOf(q) /\ q \in DOMAIN Parent
  BY <1>6 DEF Completes
<1> QED
  BY <1>1, <1>2, <1>5, <1>9, <1>10, <1>11 DEF Completes

\* The walk starts with zeros and ends at process 0.
LEMMA WalkEnds ==
  /\ \A p \in DOMAIN Parent : Completes(p, Zeros, p)
  /\ \A s \in Buffers : \A q : Completes(0, s, q) => s = BranchOf(q) /\ q \in DOMAIN Parent
<1>1. ASSUME NEW p \in DOMAIN Parent PROVE Completes(p, Zeros, p)
  BY AncestryUp, CutZeros DEF Completes, BranchOf
<1>2. ASSUME NEW s \in Buffers, NEW q, Completes(0, s, q)
      PROVE  s = BranchOf(q) /\ q \in DOMAIN Parent
  <2>1. Ancestry[0] \o s = s /\ Cut(s) = s
    BY AncestryUp, BufferType, ConcatEmptySeq
  <2> QED
    BY <1>2, <2>1 DEF Completes
<1> QED
  BY <1>1, <1>2

\* A step of a writer leaves the others where they are, and there is no branch
\* to be read while it is under way.
LEMMA WriterMoves ==
  ASSUME PtreeType, BranchInv, NEW w \in Writers, Under(wr[w].pc), NEW r,
         wr' = [wr EXCEPT ![w] = r], UNCHANGED <<rd, alone, branch>>,
         r.asked = wr[w].asked \/ ~Under(r.pc),
         alone[w] => \A p \in Numbers(wr[w].asked) : Progress(r, p)'
  PROVE  BranchInv'
<1>1. branch = <<>> /\ \A x \in Readers : rd[x].want = <<>>
  BY DEF BranchInv, HasBranch
<1>2. ASSUME NEW x \in Writers, alone'[x]
      PROVE  /\ \A p \in Numbers(wr'[x].asked) : Progress(wr[x], p)'
             /\ Under(wr'[x].pc) => \A y \in Writers \ {x} : ~Under(wr'[y].pc)
  <2>1. CASE x = w
    <3>1. wr'[w] = r /\ \A y \in Writers \ {w} : wr'[y] = wr[y]
      BY DEF PtreeType
    <3>2. alone[w] /\ \A y \in Writers \ {w} : ~Under(wr[y].pc)
      BY <1>2, <2>1 DEF BranchInv
    <3>3. CASE ~Under(r.pc)
      <4>1. r.pc \in {"idle", "killed"}
        BY <3>3 DEF Under
      <4> QED
        BY <2>1, <3>1, <3>2, <4>1 DEF Progress, Under
    <3>4. CASE r.asked = wr[w].asked
      BY <2>1, <3>1, <3>2, <3>4 DEF Progress
    <3> QED
      BY <3>3, <3>4
  <2>2. CASE x # w
    <3>1. wr'[x] = wr[x]
      BY <2>2 DEF PtreeType
    <3>2. ~Under(wr[x].pc)
      BY <1>2, <2>2 DEF BranchInv
    <3>3. wr'[x].pc \in {"idle", "killed"}
      BY <3>1, <3>2 DEF Under
    <3> QED
      BY <3>3 DEF Progress, Under
  <2> QED
    BY <2>1, <2>2
<1>3. Numbers(branch') = {}
  BY <1>1, NumbersType
<1> QED
  BY <1>1, <1>2, <1>3 DEF BranchInv

LEMMA WriterKeepsBranch ==
  ASSUME PtreeType, BranchInv, NEW w \in Writers, WriterStep(w)
  PROVE  BranchInv'
<1>1. wr[w] \in WriterType /\ buf \in Buffers
  BY DEF PtreeType
<1>2. alone[w] => \A p \in Numbers(wr[w].asked) : Progress(wr[w], p)
  BY DEF BranchInv
<1>3. Under(wr[w].pc)
  BY DEF WriterStep, Scan, Clear, FindTask, Oops, Return, Enter, Format, Gather, Store, Up, Under
<1>4. CASE Scan(w)
  <2>1. PICK q \in IF Numbers(buf) # {} THEN Numbers(buf) ELSE DOMAIN Parent \cup {None} :
           wr' = [wr EXCEPT ![w].pc = "clear", ![w].input_pid = q]
    BY <1>4 DEF Scan
  <2>2. PICK r : r = [wr[w] EXCEPT !.pc = "clear", !.input_pid = q]
    OBVIOUS
  <2>3. r.pc = "clear" /\ r.input_pid = q /\ r.asked = wr[w].asked
    BY <1>1, <2>2 DEF WriterType
  <2>4. wr' = [wr EXCEPT ![w] = r]
    BY <1>1, <2>1, <2>2 DEF PtreeType, WriterType
  <2>5. ASSUME alone[w], NEW p \in Numbers(wr[w].asked) PROVE Progress(r, p)'
    <3>1. Numbers(buf) = {p}
      BY <1>2, <1>4, <2>5 DEF Progress, Scan
    <3>2. q = p
      BY <2>1, <3>1
    <3> QED
      BY <2>3, <3>2 DEF Progress
  <2> QED
    BY <1>3, <1>4, <2>3, <2>4, <2>5, WriterMoves DEF Scan
<1>5. CASE Clear(w)
  <2>1. PICK r : r = [wr[w] EXCEPT !.pc = "find"]
    OBVIOUS
  <2>2. r.pc = "find" /\ r.input_pid = wr[w].input_pid /\ r.asked = wr[w].asked
    BY <1>1, <2>1 DEF WriterType
  <2>3. ASSUME alone[w], NEW p \in Numbers(wr[w].asked) PROVE Progress(r, p)'
    BY <1>2, <1>5, <2>2, <2>3 DEF Progress, Clear
  <2> QED
    BY <1>3, <1>5, <2>1, <2>2, <2>3, WriterMoves DEF Clear
<1>6. CASE FindTask(w)
  <2>1. PICK r : r = [wr[w] EXCEPT !.pc = "while", !.input_pid = None]
    OBVIOUS
  <2>2. r.pc = "while" /\ r.asked = wr[w].asked
    BY <1>1, <2>1 DEF WriterType
  <2>3. wr' = [wr EXCEPT ![w] = r]
    BY <1>1, <1>6, <2>1 DEF FindTask, PtreeType, WriterType
  <2>4. ASSUME alone[w], NEW p \in Numbers(wr[w].asked) PROVE Progress(r, p)'
    <3>1. wr[w].input_pid = p /\ buf = Zeros
      BY <1>2, <1>6, <2>4 DEF Progress, FindTask
    <3>2. curr' = None \/ Completes(curr', buf', p)
      BY <1>6, <3>1, WalkEnds DEF FindTask
    <3>3. curr' = None \/ Completes(curr, buf, p)'
      BY <2>2, <3>2 DEF Completes
    <3> QED
      BY <2>2, <3>3 DEF Progress
  <2> QED
    BY <1>3, <1>6, <2>2, <2>3, <2>4, WriterMoves DEF FindTask
<1>7. CASE Oops(w)
  <2>1. PICK r : r = [Idle EXCEPT !.pc = "killed"]
    OBVIOUS
  <2>2. r.pc = "killed" /\ ~Under(r.pc)
    BY <2>1 DEF Idle, Under
  <2>3. ASSUME NEW p PROVE Progress(r, p)'
    BY <2>2 DEF Progress
  <2> QED
    BY <1>3, <1>7, <2>1, <2>2, <2>3, WriterMoves DEF Oops
<1>8. CASE Return(w)
  <2>1. Idle.pc = "idle" /\ ~Under(Idle.pc)
    BY DEF Idle, Under
  <2>2. CASE ~alone[w]
    <3>1. PICK r : r = Idle
      OBVIOUS
    <3> QED
      BY <1>3, <1>8, <2>1, <2>2, <3>1, WriterMoves DEF Return
  <2>3. CASE alone[w]
    <3>1. \A x \in Writers : wr'[x].pc = "idle" \/ (~Under(wr[x].pc) /\ wr'[x] = wr[x])
      <4>1. \A x \in Writers \ {w} : ~Under(wr[x].pc)
        BY <1>3, <2>3 DEF BranchInv
      <4>2. wr'[w].pc = "idle" /\ \A x \in Writers \ {w} : wr'[x] = wr[x]
        BY <1>8 DEF Return, PtreeType, Idle
      <4> TAKE x \in Writers
      <4>3. CASE x = w
        BY <4>2, <4>3
      <4>4. CASE x # w
        BY <4>1, <4>2, <4>4
      <4> QED
        BY <4>3, <4>4
    <3>2. \A x \in Writers : wr'[x].pc \in {"idle", "killed"}
      BY <3>1 DEF Under
    <3>3. \A x \in Writers : ~Under(wr'[x].pc) /\ \A p : Progress(wr[x], p)'
      BY <3>2 DEF Under, Progress
    <3>4. ASSUME NEW p \in Numbers(wr[w].asked) PROVE buf' = BranchOf(p)
      <4>1. Completes(0, buf, p)
        BY <1>2, <1>8, <2>3 DEF Progress, Return, None
      <4> QED
        BY <1>1, <1>8, <4>1, WalkEnds DEF Return
    <3>5. \A x \in Readers : rd'[x].want = <<>>
      BY <1>3, <1>8 DEF BranchInv, HasBranch, Return
    <3>6. branch' = wr[w].asked
      BY <1>8, <2>3 DEF Return
    <3> QED
      BY <3>3, <3>4, <3>5, <3>6 DEF BranchInv, BranchOf
  <2> QED
    BY <2>2, <2>3
<1>9. CASE Enter(w)
  <2>1. PICK r : r = [wr[w] EXCEPT !.pc = "format"]
    OBVIOUS
  <2>2. r.pc = "format" /\ r.asked = wr[w].asked
    BY <1>1, <2>1 DEF WriterType
  <2>3. ASSUME alone[w], NEW p \in Numbers(wr[w].asked) PROVE Progress(r, p)'
    <3>1. curr \notin {None, 0} /\ Completes(curr, buf, p)
      BY <1>2, <1>9, <2>2, <2>3 DEF Progress, Enter
    <3>2. curr' \notin {None, 0} /\ Completes(curr, buf, p)'
      BY <1>9, <3>1 DEF Completes, Enter
    <3> QED
      BY <2>2, <3>2 DEF Progress
  <2> QED
    BY <1>3, <1>9, <2>2, <2>1, <2>3, WriterMoves DEF Enter
<1>10. CASE Format(w)
  <2>1. PICK b : b = Line[curr]
    OBVIOUS
  <2>2. PICK r : r = [wr[w] EXCEPT !.pc = "gather", !.buf_add = b]
    OBVIOUS
  <2>3. r.pc = "gather" /\ r.asked = wr[w].asked /\ r.buf_add = b
    BY <1>1, <2>2 DEF WriterType
  <2>4. wr' = [wr EXCEPT ![w] = r]
    BY <1>1, <1>10, <2>1, <2>2 DEF Format, PtreeType, WriterType
  <2>5. ASSUME alone[w], NEW p \in Numbers(wr[w].asked) PROVE Progress(r, p)'
    <3>1. curr \notin {None, 0} /\ Completes(curr, buf, p)
      BY <1>2, <1>10, <2>3, <2>5 DEF Progress, Format
    <3>2. curr' = curr /\ curr' \notin {None, 0} /\ Completes(curr, buf, p)'
      BY <1>10, <3>1 DEF Completes, Format
    <3> QED
      BY <2>1, <2>3, <3>2 DEF Progress
  <2> QED
    BY <1>3, <1>10, <2>3, <2>4, <2>5, WriterMoves DEF Format
<1>11. CASE Gather(w)
  <2>1. PICK b : b = Cut(wr[w].buf_add \o buf)
    OBVIOUS
  <2>2. PICK r : r = [wr[w] EXCEPT !.pc = "store", !.buf_add = b]
    OBVIOUS
  <2>3. r.pc = "store" /\ r.asked = wr[w].asked /\ r.buf_add = b
    BY <1>1, <2>2 DEF WriterType
  <2>4. wr' = [wr EXCEPT ![w].pc = "store", ![w].buf_add = b]
    BY <1>1, <1>11, <2>1 DEF Gather, PtreeType, WriterType
  <2>5. wr' = [wr EXCEPT ![w] = r]
    BY <1>1, <2>2, <2>4 DEF PtreeType, WriterType
  <2>6. ASSUME alone[w], NEW p \in Numbers(wr[w].asked) PROVE Progress(r, p)'
    <3>1. /\ curr \notin {None, 0} /\ Completes(curr, buf, p)
          /\ wr[w].buf_add = Line[curr]
      BY <1>2, <1>11, <2>3, <2>6 DEF Progress, Gather
    <3>2. curr \in DOMAIN Parent \ {0}
      BY <3>1 DEF PtreeType
    <3>3. Completes(Parent[curr], b, p)
      BY <1>1, <2>1, <3>1, <3>2, LineMoves
    <3>4. curr' = curr /\ curr' # None /\ Completes(Parent[curr], b, p)'
      BY <1>11, <3>1, <3>3 DEF Completes, Gather
    <3> QED
      BY <2>3, <3>4 DEF Progress
  <2> QED
    BY <1>3, <1>11, <2>3, <2>5, <2>6, WriterMoves DEF Gather
<1>12. CASE Store(w)
  <2>1. PICK r : r = [wr[w] EXCEPT !.pc = "up", !.buf_add = <<>>]
    OBVIOUS
  <2>2. r.pc = "up" /\ r.asked = wr[w].asked
    BY <1>1, <2>1 DEF WriterType
  <2>3. wr' = [wr EXCEPT ![w] = r]
    BY <1>1, <1>12, <2>1 DEF Store, PtreeType, WriterType
  <2>4. ASSUME alone[w], NEW p \in Numbers(wr[w].asked) PROVE Progress(r, p)'
    <3>1. curr # None /\ Completes(Parent[curr], wr[w].buf_add, p)
      BY <1>2, <1>12, <2>2, <2>4 DEF Progress, Store
    <3>2. curr' # None /\ Completes(Parent[curr], buf, p)'
      BY <1>12, <3>1 DEF Completes, Store
    <3> QED
      BY <2>2, <3>2 DEF Progress
  <2> QED
    BY <1>3, <1>12, <2>2, <2>3, <2>4, WriterMoves DEF Store
<1>13. CASE Up(w)
  <2>1. PICK r : r = [wr[w] EXCEPT !.pc = "while"]
    OBVIOUS
  <2>2. r.pc = "while" /\ r.asked = wr[w].asked
    BY <1>1, <2>1 DEF WriterType
  <2>3. ASSUME alone[w], NEW p \in Numbers(wr[w].asked) PROVE Progress(r, p)'
    <3>1. Completes(Parent[curr], buf, p)
      BY <1>2, <1>13, <2>2, <2>3 DEF Progress, Up
    <3>2. Completes(curr, buf, p)'
      BY <1>13, <3>1 DEF Completes, Up
    <3> QED
      BY <2>2, <3>2 DEF Progress
  <2> QED
    BY <1>3, <1>13, <2>2, <2>1, <2>3, WriterMoves DEF Up
<1> QED
  BY <1>4, <1>5, <1>6, <1>7, <1>8, <1>9, <1>10, <1>11, <1>12, <1>13 DEF WriterStep

\* Nobody is owed what a write has overwritten.
LEMMA Spoiled ==
  ASSUME PtreeType, Spoil
  PROVE  branch' = <<>> /\ Numbers(branch') = {} /\ \A x \in Readers : rd'[x].want = <<>>
<1>1. branch' = <<>>
  BY DEF Spoil
<1>2. ASSUME NEW x \in Readers PROVE rd'[x].want = <<>>
  <2>1. rd[x] \in ReaderType
    BY DEF PtreeType
  <2>2. rd'[x] = [rd[x] EXCEPT !.want = <<>>, !.out = <<>>, !.first = 0]
    BY Zenon DEF Spoil
  <2> QED
    BY <2>1, <2>2 DEF ReaderType
<1> QED
  BY <1>1, <1>2, NumbersType

LEMMA CopyKeepsBranch ==
  ASSUME PtreeType, BranchInv, NEW w \in Writers, NEW text \in Texts, CopyFromUser(w, text)
  PROVE  BranchInv'
<1>1. PICK r : r = [Idle EXCEPT !.pc = "scan", !.asked = text]
  OBVIOUS
<1>2. r.pc = "scan" /\ r.asked = text
  BY <1>1 DEF Idle
<1>3. wr'[w] = r /\ \A x \in Writers \ {w} : wr'[x] = wr[x]
  BY <1>1 DEF CopyFromUser, PtreeType
<1>4. ASSUME NEW p \in Numbers(text) PROVE Numbers(buf') = {p}
  <2>1. text \in Seq(Chars) /\ buf \in Buffers /\ Len(text) <= MAXLEN /\ buf' = Over(text)
    BY TextType DEF CopyFromUser, PtreeType
  <2>2. buf' \in Buffers /\ \A k \in 1..Len(text) : text[k] = buf'[k]
    BY <2>1, OverType
  <2>3. buf' \in Seq(Chars) /\ Len(buf') = MAXLEN
    BY <2>2, BufferType
  <2> QED
    BY <1>4, <2>1, <2>2, <2>3, NumberStays
<1>5. ASSUME NEW p \in Numbers(text) PROVE Progress(r, p)'
  BY <1>2, <1>4 DEF Progress
<1>6. ASSUME NEW x \in Writers, alone'[x]
      PROVE  /\ \A p \in Numbers(wr'[x].asked) : Progress(wr[x], p)'
             /\ Under(wr'[x].pc) => \A y \in Writers \ {x} : ~Under(wr'[y].pc)
  <2>1. x = w /\ \A y \in Writers : wr[y].pc \in {"idle", "killed"}
    BY <1>6, Zenon DEF CopyFromUser
  <2>2. \A p \in Numbers(wr'[x].asked) : Progress(wr[x], p)'
    BY <1>2, <1>3, <1>5, <2>1 DEF Progress
  <2>3. \A y \in Writers \ {x} : ~Under(wr'[y].pc)
    BY <1>3, <2>1 DEF Under
  <2> QED
    BY <2>2, <2>3
<1>7. Spoil
  BY DEF CopyFromUser
<1> QED
  BY <1>6, <1>7, Spoiled DEF BranchInv

\* A write that fails owes nothing, and neither does any under way if it has
\* changed buf.
LEMMA FailureKeepsBranch ==
  ASSUME PtreeType, BranchInv, NEW w \in Writers, NEW text \in Texts,
         CopyFaults(w, text) \/ CopyRefused(w, text)
  PROVE  BranchInv'
<1>1. CASE CopyFaults(w, text)
  <2>1. Spoil /\ \A x \in Writers : ~alone'[x]
    BY <1>1, Zenon DEF CopyFaults
  <2> QED
    BY <2>1, Spoiled DEF BranchInv
<1>2. CASE CopyRefused(w, text)
  <2>1. UNCHANGED <<buf, curr, wr, rd, alone, branch>>
    BY <1>2, Zenon DEF CopyRefused
  <2> QED
    BY <2>1 DEF BranchInv, Progress, Completes, BranchOf, HasBranch
<1> QED
  BY <1>1, <1>2

\* A step of a reader only has to keep what that reader has.
LEMMA ReaderMoves ==
  ASSUME PtreeType, BranchInv, NEW r \in Readers, NEW x,
         rd' = [rd EXCEPT ![r] = x], UNCHANGED <<buf, curr, wr, alone, branch>>,
         x.want # <<>> => HasBranch(x)
  PROVE  BranchInv'
<1>1. rd'[r] = x /\ \A y \in Readers \ {r} : rd'[y] = rd[y]
  BY DEF PtreeType
<1>2. ASSUME NEW y \in Readers, rd'[y].want # <<>> PROVE HasBranch(rd[y])'
  <2>1. CASE y = r
    BY <1>1, <1>2, <2>1 DEF HasBranch
  <2>2. CASE y # r
    <3>1. HasBranch(rd[y])
      BY <1>1, <1>2, <2>2 DEF BranchInv
    <3> QED
      BY <1>1, <2>2, <3>1 DEF HasBranch
  <2> QED
    BY <2>1, <2>2
<1>3. \A w \in Writers : alone'[w] =>
        /\ \A p \in Numbers(wr'[w].asked) : Progress(wr[w], p)'
        /\ Under(wr'[w].pc) => \A y \in Writers \ {w} : ~Under(wr'[y].pc)
  <2>1. ASSUME NEW w \in Writers, alone'[w], NEW p \in Numbers(wr[w].asked)
        PROVE  Progress(wr[w], p)'
    <3>1. Progress(wr[w], p)
      BY <2>1 DEF BranchInv
    <3> QED
      BY <3>1 DEF Progress, Completes
  <2>2. ASSUME NEW w \in Writers, alone'[w], Under(wr'[w].pc)
        PROVE  \A y \in Writers \ {w} : ~Under(wr'[y].pc)
    BY <2>2 DEF BranchInv
  <2> QED
    BY <2>1, <2>2
<1>4. /\ branch' # <<>> => \A w \in Writers : ~Under(wr'[w].pc)
      /\ \A p \in Numbers(branch') : buf' = BranchOf(p)
  BY DEF BranchInv
<1> QED
  BY <1>2, <1>3, <1>4 DEF BranchInv, BranchOf

LEMMA ReaderKeepsBranch ==
  ASSUME PtreeType, BranchInv, NEW r \in Readers,
         \/ OpenOutput(r) \/ Close(r)
         \/ \E length \in Chunks : read_trace_from_output(r, length)
  PROVE  BranchInv'
<1>1. CASE OpenOutput(r)
  <2>1. PICK x : x = [Closed EXCEPT !.pc = "reading", !.want = branch]
    OBVIOUS
  <2>2. x.pc = "reading" /\ x.want = branch /\ x.pos = 0 /\ x.out = <<>> /\ x.first = 0
    BY <2>1 DEF Closed
  <2>3. HasBranch(x)
    BY <2>2 DEF HasBranch
  <2> QED
    BY <1>1, <2>1, <2>3, ReaderMoves DEF OpenOutput
<1>2. CASE Close(r)
  <2>1. PICK x : x = Closed
    OBVIOUS
  <2>2. x.want = <<>>
    BY <2>1 DEF Closed
  <2> QED
    BY <1>2, <2>1, <2>2, ReaderMoves DEF Close
<1>3. ASSUME NEW length \in Chunks, read_trace_from_output(r, length) PROVE BranchInv'
  <2>1. rd[r] \in ReaderType
    BY DEF PtreeType
  <2>2. PICK len : len = IF length < MAXLEN - rd[r].pos THEN length ELSE MAXLEN - rd[r].pos
    OBVIOUS
  <2>3. /\ rd[r].pos \in 0..MAXLEN /\ MAXLEN \in Nat /\ length \in Nat /\ length > 0 /\ MAXLEN > 0
        /\ rd[r].out \in Seq(Chars)
    BY <2>1, PtreeAssumption DEF ReaderType
  <2>4. len \in 0..(MAXLEN - rd[r].pos)
    BY <2>2, <2>3
  <2>5. PICK out : out = IF rd[r].want = <<>> THEN rd[r].out
                         ELSE rd[r].out \o SubSeq(buf, 1, len)
    OBVIOUS
  <2>6. PICK pc : pc = IF len = 0 THEN "eof" ELSE rd[r].pc
    OBVIOUS
  <2>7. PICK n : n = IF rd[r].out = <<>> /\ rd[r].want # <<>> THEN len ELSE rd[r].first
    OBVIOUS
  <2>8. PICK x : x = [rd[r] EXCEPT !.pos = rd[r].pos + len, !.out = out, !.first = n, !.pc = pc]
    OBVIOUS
  <2>9. x.pos = rd[r].pos + len /\ x.out = out /\ x.want = rd[r].want /\ x.first = n
    BY <2>1, <2>8 DEF ReaderType
  <2>10. rd' = [rd EXCEPT ![r].pos = rd[r].pos + len, ![r].out = out, ![r].first = n, ![r].pc = pc]
    BY <1>3, <2>1, <2>2, <2>5, <2>6, <2>7 DEF read_trace_from_output, PtreeType, ReaderType
  <2>11. rd' = [rd EXCEPT ![r] = x]
    BY <2>1, <2>8, <2>10 DEF PtreeType, ReaderType
  <2>12. ASSUME x.want # <<>> PROVE HasBranch(x)
    <3>1. HasBranch(rd[r])
      BY <2>9, <2>12 DEF BranchInv
    <3>2. buf \in Seq(Chars) /\ Len(buf) = MAXLEN /\ out = rd[r].out \o SubSeq(buf, 1, len)
      BY <2>5, <2>9, <2>12, BufferType DEF PtreeType
    <3>3. PICK b : b = SubSeq(buf, 1, len)
      OBVIOUS
    <3>4. b \in Seq(Chars) /\ Len(b) = len /\ \A i \in 1..len : b[i] = buf[i]
      BY <2>3, <2>4, <3>2, <3>3
    <3>5. CASE rd[r].pos = 0 /\ rd[r].out = <<>> /\ rd[r].first = 0
      <4>1. out = b /\ n = len
        BY <2>7, <2>9, <2>12, <3>2, <3>3, <3>4, <3>5, ConcatEmptySeq
      <4>2. len > 0 /\ len <= MAXLEN
        BY <2>2, <2>3, <3>5
      <4>3. n \in 1..x.pos
        BY <2>3, <2>4, <2>9, <3>5, <4>1, <4>2
      <4>4. out # <<>> /\ \A i \in 1..n : i <= Len(out) /\ out[i] = buf[i]
        BY <3>4, <4>1, <4>2
      <4>5. n = MAXLEN => out = buf
        BY <2>3, <3>2, <3>3, <4>1, SubSeqFull
      <4> QED
        BY <2>9, <3>1, <4>3, <4>4, <4>5 DEF HasBranch
    <3>6. CASE /\ rd[r].first \in 1..rd[r].pos /\ rd[r].out # <<>>
               /\ \A i \in 1..rd[r].first : i <= Len(rd[r].out) /\ rd[r].out[i] = buf[i]
               /\ rd[r].first = MAXLEN => rd[r].out = buf
      <4>1. n = rd[r].first
        BY <2>7, <3>6
      <4>2. PICK o \in Seq(Chars) : o = rd[r].out
        BY <2>3
      <4>3. out = o \o b
        BY <3>2, <3>3, <4>2
      <4>4. Len(out) = Len(o) + len /\ \A i \in 1..Len(o) : out[i] = o[i]
        <5>1. out = Cat(o, b)
          BY <4>3 DEF Cat
        <5>2. Follows(out, o, b)
          BY <3>4, <5>1, CatAt
        <5> QED
          BY <3>4, <5>2 DEF Follows
      <4>5. n \in 1..x.pos
        BY <2>3, <2>4, <2>9, <3>6, <4>1
      <4>6. out # <<>>
        <5>1. Len(o) > 0
          BY <3>6, <4>2, EmptySeq
        <5>2. Len(out) > 0 /\ Len(<<>>) = 0
          BY <2>3, <2>4, <4>4, <5>1
        <5> QED
          BY <5>2
      <4>7. \A i \in 1..n : i <= Len(out) /\ out[i] = buf[i]
        BY <2>3, <2>4, <3>6, <4>1, <4>2, <4>4
      <4>8. ASSUME n = MAXLEN PROVE out = buf
        <5>1. len = 0
          BY <2>3, <2>4, <3>6, <4>1, <4>8
        <5>2. b = <<>>
          BY <3>4, <5>1, EmptySeq
        <5>3. out = o
          BY <4>3, <5>2, ConcatEmptySeq
        <5> QED
          BY <3>6, <4>1, <4>2, <4>8, <5>3
      <4> QED
        BY <2>9, <3>1, <4>5, <4>6, <4>7, <4>8 DEF HasBranch
    <3> QED
      BY <3>1, <3>5, <3>6 DEF HasBranch
  <2>13. UNCHANGED <<buf, curr, wr, alone, branch>>
    BY <1>3 DEF read_trace_from_output
  <2> QED
    BY <2>11, <2>12, <2>13, ReaderMoves
<1> QED
  BY <1>1, <1>2, <1>3

LEMMA BranchInit == PtreeInit => BranchInv
<1> SUFFICES ASSUME PtreeInit PROVE BranchInv
  OBVIOUS
<1>1. branch = <<>> /\ Numbers(branch) = {}
  BY NumbersType DEF PtreeInit
<1>2. \A w \in Writers : ~alone[w]
  BY DEF PtreeInit
<1>3. \A r \in Readers : rd[r].want = <<>>
  BY DEF PtreeInit, Closed
<1> QED
  BY <1>1, <1>2, <1>3 DEF BranchInv

\* A step of the module keeps the branch that it owes its readers.
LEMMA BranchStep ==
  ASSUME PtreeType, BranchInv, PtreeNext
  PROVE  BranchInv'
BY CopyKeepsBranch, FailureKeepsBranch, WriterKeepsBranch, ReaderKeepsBranch DEF PtreeNext

-----------------------------------------------------------------------------
(* dbfs_paddr: the bytes of a packet *)

LEMMA BaseType == Base \in Nat /\ Base > 0
BY PaddrAssumption

\* The weights are the powers of Base.
LEMMA Weights ==
  /\ Weight \in [0..8 -> Nat \ {0}]
  /\ Weight[0] = 1 /\ \A i \in 1..8 : Weight[i] = Base * Weight[i - 1]
<1> DEFINE Fits(f) == f = [i \in 0..8 |-> IF i = 0 THEN 1 ELSE Base * f[i - 1]]
<1>1. Base \in Nat \ {0}
  BY PaddrAssumption
<1>2. PICK G : G = [z \in (1..8) \X (Nat \ {0}) |-> Base * z[2]]
  OBVIOUS
<1>3. G \in [(1..8) \X (Nat \ {0}) -> Nat \ {0}]
  <2>1. \A z \in (1..8) \X (Nat \ {0}) : z[2] \in Nat \ {0}
    OBVIOUS
  <2>2. \A v \in Nat \ {0} : Base * v \in Nat \ {0}
    BY <1>1
  <2> QED
    BY <1>2, <2>1, <2>2
<1>4. PICK f : Recurs(f, 8, Nat \ {0}, 1, G)
  <2>1. 8 \in Nat /\ 1 \in Nat \ {0}
    OBVIOUS
  <2> QED
    BY <1>3, <2>1, RecursionExists, Zenon
<1>5. ASSUME NEW n \in 1..8 PROVE f[n] = Base * f[n - 1]
  <2>1. f \in [0..8 -> Nat \ {0}] /\ f[n] = G[<<n, f[n - 1]>>]
    BY <1>4 DEF Recurs
  <2>2. <<n, f[n - 1]>> \in (1..8) \X (Nat \ {0})
    BY <2>1
  <2> QED
    BY <1>2, <2>1, <2>2
<1>6. Fits(f)
  BY <1>4, <1>5 DEF Recurs
<1>7. Fits(CHOOSE g : Fits(g))
  BY <1>6
<1>8. Weight = CHOOSE g : Fits(g)
  BY DEF Weight
<1> HIDE DEF Fits
<1>9. Fits(Weight)
  BY <1>7, <1>8
<1>10. Weight = [i \in 0..8 |-> IF i = 0 THEN 1 ELSE Base * Weight[i - 1]]
  BY <1>9 DEF Fits
<1>11. Weight[0] = 1 /\ \A i \in 1..8 : Weight[i] = Base * Weight[i - 1]
  BY <1>10
<1>12. \A v \in Nat \ {0} : Base * v \in Nat \ {0}
  BY <1>1
<1>13. /\ Weight[1] = Base * Weight[0] /\ Weight[2] = Base * Weight[1]
       /\ Weight[3] = Base * Weight[2] /\ Weight[4] = Base * Weight[3]
       /\ Weight[5] = Base * Weight[4] /\ Weight[6] = Base * Weight[5]
       /\ Weight[7] = Base * Weight[6] /\ Weight[8] = Base * Weight[7]
  BY <1>11
<1>14. Weight[0] \in Nat \ {0} /\ Weight[1] \in Nat \ {0} /\ Weight[2] \in Nat \ {0}
  BY <1>11, <1>12, <1>13
<1>15. Weight[3] \in Nat \ {0} /\ Weight[4] \in Nat \ {0} /\ Weight[5] \in Nat \ {0}
  BY <1>12, <1>13, <1>14, Zenon
<1>16. Weight[6] \in Nat \ {0} /\ Weight[7] \in Nat \ {0} /\ Weight[8] \in Nat \ {0}
  BY <1>12, <1>13, <1>15, Zenon
<1>17. \A i \in 0..8 : Weight[i] \in Nat \ {0}
  BY <1>14, <1>15, <1>16
<1> QED
  BY <1>10, <1>11, <1>17

LEMMA WeightType == \A i \in 0..8 : Weight[i] \in Nat /\ Weight[i] > 0
<1>1. Weight \in [0..8 -> Nat \ {0}]
  BY Weights, Zenon
<1> QED
  BY <1>1

\* A digit of a number is a byte.
LEMMA DigitType ==
  ASSUME NEW x \in Nat, NEW i \in 0..8
  PROVE  (x \div Weight[i]) % Base \in 0..(Base - 1)
<1>1. Weight[i] \in Nat /\ Weight[i] > 0 /\ Base \in Nat /\ Base > 0
  BY Weights, PaddrAssumption
<1>2. x \div Weight[i] \in Nat
  BY <1>1, Division
<1> QED
  BY <1>1, <1>2, Division

AreDigits(b, x) == \A i \in 1..Len(b) : b[i] = (x \div Weight[i - 1]) % Base

\* What decoding computes, for a string of at most eight bytes: the bytes of a
\* number give what is left of it below their weight.
LEMMA ValueOfDigits ==
  ASSUME NEW x \in Nat, NEW m \in 0..8, NEW b \in Seq(Nat), Len(b) = m, AreDigits(b, x)
  PROVE  Value(b) = x % Weight[m]
<1> DEFINE Fits(f) == f = [n \in 0..Len(b) |-> IF n = 0 THEN 0 ELSE f[n - 1] + b[n] * Weight[n - 1]]
<1>1. Base \in Nat /\ Base > 0 /\ \A i \in 0..8 : Weight[i] \in Nat /\ Weight[i] > 0
  BY WeightType, BaseType, Zenon
<1>2. \A n \in 1..m : b[n] \in Nat /\ Weight[n - 1] \in Nat
  <2>1. \A n \in 1..m : b[n] \in Nat /\ n - 1 \in 0..8
    OBVIOUS
  <2> QED
    BY <1>1, <2>1
<1>3. PICK G : G = [z \in (1..m) \X Nat |-> z[2] + b[z[1]] * Weight[z[1] - 1]]
  OBVIOUS
<1>4. G \in [(1..m) \X Nat -> Nat]
  <2>1. \A n \in 1..m, v \in Nat : v + b[n] * Weight[n - 1] \in Nat
    BY <1>2
  <2>2. \A z \in (1..m) \X Nat : z[1] \in 1..m /\ z[2] \in Nat
    OBVIOUS
  <2> QED
    BY <1>3, <2>1, <2>2
<1>5. PICK f : Recurs(f, m, Nat, 0, G)
  <2>1. m \in Nat /\ 0 \in Nat
    OBVIOUS
  <2> QED
    BY <1>4, <2>1, RecursionExists, Zenon
<1>6. ASSUME NEW n \in 1..m PROVE f[n] = f[n - 1] + b[n] * Weight[n - 1]
  <2>1. f \in [0..m -> Nat] /\ f[n] = G[<<n, f[n - 1]>>]
    BY <1>5 DEF Recurs
  <2>2. <<n, f[n - 1]>> \in (1..m) \X Nat
    BY <2>1
  <2> QED
    BY <1>3, <2>1, <2>2
<1>7. Fits(f)
  BY <1>5, <1>6 DEF Recurs
<1>8. Fits(CHOOSE g : Fits(g))
  BY <1>7
<1>9. PICK sum : sum = CHOOSE g : Fits(g)
  OBVIOUS
<1>10. Value(b) = sum[m]
  BY <1>9 DEF Value
<1>11. sum = [n \in 0..m |-> IF n = 0 THEN 0 ELSE sum[n - 1] + b[n] * Weight[n - 1]]
  BY <1>8, <1>9
<1>12. sum[0] = 0 /\ \A n \in 1..m : sum[n] = sum[n - 1] + b[n] * Weight[n - 1]
  BY <1>11
<1> HIDE DEF Fits
<1>13. x % Weight[0] = 0
  BY Weights
<1>14. ASSUME NEW n \in 1..m, sum[n - 1] = x % Weight[n - 1]
       PROVE  sum[n] = x % Weight[n]
  <2>1. n \in 1..8 /\ n - 1 \in 0..8
    OBVIOUS
  <2>2. PICK v \in Nat : v = Weight[n - 1] /\ v > 0
    BY <1>1, <2>1
  <2>3. Weight[n] = Base * v
    BY <2>1, <2>2, Weights
  <2>4. sum[n] = (x % v) + ((x \div v) % Base) * v
    <3>1. sum[n] = sum[n - 1] + b[n] * Weight[n - 1] /\ b[n] = (x \div Weight[n - 1]) % Base
      BY <1>12 DEF AreDigits
    <3> QED
      BY <1>14, <2>2, <3>1
  <2> QED
    <3>1. (x % v) + ((x \div v) % Base) * v = x % (Base * v)
      BY <1>1, <2>2, NextDigit
    <3> QED
      BY <2>3, <2>4, <3>1, Zenon
<1> DEFINE Bad == {n \in 0..m : sum[n] # x % Weight[n]}
<1>15. Bad = {}
  <2> SUFFICES ASSUME Bad # {} PROVE FALSE
    OBVIOUS
  <2>1. Min(Bad) \in Bad /\ \A y \in Bad : Min(Bad) <= y
    <3>1. Bad \in SUBSET Nat
      <4>1. \A n \in 0..m : n \in Nat
        OBVIOUS
      <4> QED
        BY <4>1, Zenon
    <3> HIDE DEF Bad
    <3> QED
      BY <3>1, MinOfNat
  <2>2. PICK n : n = Min(Bad)
    OBVIOUS
  <2>3. n \in 0..m /\ n # 0 /\ sum[n] # x % Weight[n]
    BY <1>12, <1>13, <2>1, <2>2
  <2>4. n \in 1..m /\ n - 1 \in 0..m /\ ~(n <= n - 1)
    BY <2>3
  <2>5. n - 1 \notin Bad
    <3> HIDE DEF Bad
    <3> QED
      BY <2>1, <2>2, <2>4
  <2>6. sum[n - 1] = x % Weight[n - 1]
    BY <2>4, <2>5
  <2> QED
    BY <1>14, <2>3, <2>4, <2>6
<1> QED
  BY <1>10, <1>15

Digit(x, i) == (x \div Weight[i]) % Base


\* s holds the lowest m digits of x behind its first k elements.
HoldsAt(s, k, m, x) == \A i \in 1..m : s[i + k] = Digit(x, i - 1)

IsField(s, x) ==
    /\ s \in Seq(Nat) /\ Len(s) = 8
    /\ \A i \in 1..8 : s[i] = Digit(x, i - 1) /\ s[i] \in 0..(Base - 1)

LEMMA FieldOf ==
  ASSUME NEW x \in Nat
  PROVE  IsField(Bytes(8, x), x)
<1>1. \A i \in 1..8 : Digit(x, i - 1) \in 0..(Base - 1)
  <2>1. \A i \in 1..8 : i - 1 \in 0..8
    OBVIOUS
  <2> QED
    BY <2>1, DigitType DEF Digit
<1>2. \A i \in 1..8 : Digit(x, i - 1) \in Nat
  BY <1>1, BaseType
<1>3. Bytes(8, x) = [i \in 1..8 |-> Digit(x, i - 1)]
  BY DEF Bytes, Digit
<1>4. Bytes(8, x) \in Seq(Nat) /\ Len(Bytes(8, x)) = 8
  <2>1. Bytes(8, x) \in [1..8 -> Nat] /\ 8 \in Nat
    BY <1>2, <1>3
  <2> QED
    BY <2>1, FunctionIsSeq, Zenon
<1> QED
  BY <1>1, <1>3, <1>4 DEF IsField

LEMMA PacketType ==
  ASSUME NEW p \in Packets
  PROVE  p.pid \in Nat /\ p.pid < Weight[4] /\ p.vaddr \in Nat /\ p.vaddr < Weight[6]
         /\ p.pid # NoTask /\ p.vaddr \div PageSize \in VPages
<1>1. /\ p.pid \in 1..(Weight[4] - 1) /\ p.vaddr \in 0..(Weight[6] - 1)
      /\ p.vaddr \div PageSize \in VPages
  BY PaddrAssumption
<1> QED
  BY <1>1, WeightType DEF NoTask

IsPacket(s, p) ==
    /\ s \in Seq(Nat) /\ Len(s) = 24 /\ s \in ByteStrings
    /\ HoldsAt(s, 0, 8, p.pid) /\ HoldsAt(s, 8, 8, p.vaddr) /\ HoldsAt(s, 16, 8, 0)

\* The fields of a packet are eight bytes each.
LEMMA PacketFields ==
  ASSUME NEW p \in Packets
  PROVE  IsPacket(PacketOf(p), p)
<1>1. p.pid \in Nat /\ p.vaddr \in Nat /\ 0 \in Nat
  BY PacketType
<1>2. PICK a : a = Bytes(8, p.pid)
  OBVIOUS
<1>3. PICK b : b = Bytes(8, p.vaddr)
  OBVIOUS
<1>4. PICK c : c = Bytes(8, 0)
  OBVIOUS
<1>5. IsField(a, p.pid) /\ IsField(b, p.vaddr) /\ IsField(c, 0)
  BY <1>1, <1>2, <1>3, <1>4, FieldOf, Zenon
<1>6. PICK s : s = Cat(Cat(a, b), c)
  OBVIOUS
<1>7. PacketOf(p) = s
  BY <1>2, <1>3, <1>4, <1>6 DEF PacketOf, Cat
<1>8. PICK n \in Nat : n = 8
  OBVIOUS
<1>9. s \in Seq(Nat) /\ Fields(s, a, b, c, n)
  <2>1. /\ a \in Seq(Nat) /\ b \in Seq(Nat) /\ c \in Seq(Nat)
        /\ Len(a) = n /\ Len(b) = n /\ Len(c) = n
    BY <1>5, <1>8 DEF IsField
  <2> QED
    BY <1>6, <2>1, ThreeFields, Zenon
<1>10. s \in Seq(Nat) /\ Len(s) = 24
  BY <1>8, <1>9 DEF Fields
<1>11. /\ \A i \in 1..8 : s[i + 0] = a[i]
       /\ \A i \in 1..8 : s[i + 8] = b[i]
       /\ \A i \in 1..8 : s[i + 16] = c[i]
  BY <1>8, <1>9 DEF Fields
<1>12. HoldsAt(s, 0, 8, p.pid) /\ HoldsAt(s, 8, 8, p.vaddr) /\ HoldsAt(s, 16, 8, 0)
  BY <1>5, <1>11, Zenon DEF HoldsAt, IsField
<1>13. \A i \in 1..24 : s[i] \in 0..(Base - 1)
  <2> TAKE i \in 1..24
  <2>1. \/ i \in 1..8 /\ i + 0 = i
        \/ i - 8 \in 1..8 /\ (i - 8) + 8 = i
        \/ i - 16 \in 1..8 /\ (i - 16) + 16 = i
    OBVIOUS
  <2>2. /\ \A j \in 1..8 : a[j] \in 0..(Base - 1)
        /\ \A j \in 1..8 : b[j] \in 0..(Base - 1)
        /\ \A j \in 1..8 : c[j] \in 0..(Base - 1)
    BY <1>5, Zenon DEF IsField
  <2>3. CASE i \in 1..8 /\ i + 0 = i
    BY <1>11, <2>2, <2>3, Zenon
  <2>4. CASE i - 8 \in 1..8 /\ (i - 8) + 8 = i
    BY <1>11, <2>2, <2>4, Zenon
  <2>5. CASE i - 16 \in 1..8 /\ (i - 16) + 16 = i
    BY <1>11, <2>2, <2>5, Zenon
  <2> QED
    BY <2>1, <2>3, <2>4, <2>5, Zenon
<1>14. s \in ByteStrings
  BY <1>10, <1>13 DEF ByteStrings
<1> QED
  BY <1>7, <1>10, <1>12, <1>14, Zenon DEF IsPacket

\* A piece of m bytes that hold the digits of x has the value x, if m bytes are
\* enough for it.
LEMMA PieceValue ==
  ASSUME NEW s \in Seq(Nat), NEW x \in Nat, NEW k \in Nat, NEW m \in 1..8,
         k + m <= Len(s), x < Weight[m], HoldsAt(s, k, m, x)
  PROVE  Value(SubSeq(s, k + 1, k + m)) = x
<1>1. PICK b : b = SubSeq(s, k + 1, k + m)
  OBVIOUS
<1>2. b \in Seq(Nat) /\ Len(b) = m /\ \A i \in 1..m : b[i] = s[i + k]
  <2>1. m \in Nat
    OBVIOUS
  <2> QED
    BY <1>1, <2>1, PieceOf, Zenon
<1>3. AreDigits(b, x)
  BY <1>2, Zenon DEF AreDigits, HoldsAt, Digit
<1>4. m \in 0..8
  OBVIOUS
<1>5. Value(b) = x % Weight[m]
  BY <1>2, <1>3, <1>4, ValueOfDigits, Zenon
<1>6. Weight[m] \in Nat
  BY <1>4, WeightType, Zenon
<1>7. x % Weight[m] = x
  BY <1>6, SmallRemainder, Zenon
<1> QED
  BY <1>1, <1>5, <1>7, Zenon

\* read_output decodes the pid and the address that the caller put in.
LEMMA Decodes ==
  ASSUME NEW p \in Packets
  PROVE  PidOf(PacketOf(p)) = p.pid /\ VaddrOf(PacketOf(p)) = p.vaddr
<1>1. p.pid \in Nat /\ p.pid < Weight[4] /\ p.vaddr \in Nat /\ p.vaddr < Weight[6]
  BY PacketType, Zenon
<1>2. PICK s : s = PacketOf(p)
  OBVIOUS
<1>3. IsPacket(s, p)
  BY <1>2, PacketFields, Zenon
<1>4. s \in Seq(Nat) /\ Len(s) = 24 /\ HoldsAt(s, 0, 8, p.pid) /\ HoldsAt(s, 8, 8, p.vaddr)
  BY <1>3, Zenon DEF IsPacket
<1>5. HoldsAt(s, 0, 4, p.pid) /\ HoldsAt(s, 8, 6, p.vaddr)
  <2>1. (\A i \in 1..4 : i \in 1..8) /\ \A i \in 1..6 : i \in 1..8
    OBVIOUS
  <2> QED
    BY <1>4, <2>1, Zenon DEF HoldsAt
<1>6. /\ 0 \in Nat /\ 8 \in Nat /\ 4 \in 1..8 /\ 6 \in 1..8
      /\ 0 + 4 <= Len(s) /\ 8 + 6 <= Len(s)
  BY <1>4
<1>7. Value(SubSeq(s, 0 + 1, 0 + 4)) = p.pid
  BY <1>1, <1>4, <1>5, <1>6, PieceValue, Zenon
<1>8. Value(SubSeq(s, 8 + 1, 8 + 6)) = p.vaddr
  BY <1>1, <1>4, <1>5, <1>6, PieceValue, Zenon
<1>9. 0 + 1 = 1 /\ 0 + 4 = 4 /\ 8 + 1 = 9 /\ 8 + 6 = 14
  OBVIOUS
<1> QED
  BY <1>2, <1>7, <1>8, <1>9, Zenon DEF PidOf, VaddrOf

-----------------------------------------------------------------------------
(* dbfs_paddr: the physical address *)

LEMMA WeightsGrow ==
  Weight[5] <= Weight[6] /\ Weight[5] <= Weight[7] /\ Weight[5] <= Weight[8]
<1>1. PICK a \in Nat, b \in Nat, c \in Nat, d \in Nat :
         a = Weight[5] /\ b = Weight[6] /\ c = Weight[7] /\ d = Weight[8]
  BY WeightType
<1>2. b = Base * a /\ c = Base * b /\ d = Base * c
  <2>1. 6 \in 1..8 /\ 7 \in 1..8 /\ 8 \in 1..8 /\ 6 - 1 = 5 /\ 7 - 1 = 6 /\ 8 - 1 = 7
    OBVIOUS
  <2>2. \A i \in 1..8 : Weight[i] = Base * Weight[i - 1]
    BY Weights, Zenon
  <2>3. Weight[6] = Base * Weight[6 - 1] /\ Weight[7] = Base * Weight[7 - 1]
        /\ Weight[8] = Base * Weight[8 - 1]
    BY <2>1, <2>2, Zenon
  <2> QED
    BY <1>1, <2>1, <2>3, Zenon
<1>3. \A n \in Nat : n <= Base * n /\ Base * n \in Nat
  BY BaseType
<1>4. a <= b /\ b <= c /\ c <= d
  BY <1>2, <1>3, Zenon
<1>5. a <= b /\ a <= c /\ a <= d
  BY <1>4
<1> QED
  BY <1>1, <1>5, Zenon

\* Beyond its last digit a number has zeros.
LEMMA NoMoreDigits ==
  ASSUME NEW x \in Nat, x < Weight[5], NEW i \in {6, 7, 8}
  PROVE  Digit(x, i - 1) = 0 /\ Digit(0, i - 1) = 0
<1>1. PICK w \in Nat : w = Weight[i - 1] /\ x < w /\ 0 < w
  <2>1. i - 1 \in {5, 6, 7} /\ i - 1 \in 0..8 /\ 5 \in 0..8
    OBVIOUS
  <2>2. Weight[i - 1] \in Nat /\ Weight[i - 1] > 0 /\ Weight[5] \in Nat
    BY <2>1, WeightType, Zenon
  <2>3. Weight[5] <= Weight[i - 1]
    <3>1. Weight[5] <= Weight[5]
      BY <2>2
    <3> QED
      BY <2>1, <3>1, WeightsGrow, Zenon
  <2> QED
    BY <2>2, <2>3
<1>2. x \div w = 0 /\ 0 \div w = 0
  BY <1>1, SmallRemainder
<1>3. 0 % Base = 0
  BY BaseType, SmallRemainder
<1> QED
  BY <1>1, <1>2, <1>3, Zenon DEF Digit

\* The five bytes that read_output writes are the whole address.
LEMMA Encodes ==
  ASSUME NEW p \in Packets, NEW x \in Nat, x < Weight[5]
  PROVE  /\ WithPaddr(PacketOf(p), x) \in ByteStrings
         /\ PaddrOf(WithPaddr(PacketOf(p), x)) = x
<1>1. PICK s : s = PacketOf(p)
  OBVIOUS
<1>2. IsPacket(s, p)
  BY <1>1, PacketFields, Zenon
<1>3. s \in ByteStrings /\ HoldsAt(s, 16, 8, 0)
  BY <1>2, Zenon DEF IsPacket
<1>4. PICK t : t = WithPaddr(s, x)
  OBVIOUS
<1>5. DOMAIN s = 1..24
  BY <1>3 DEF ByteStrings
<1>6. \A j \in 1..5 : Bytes(5, x)[j] = Digit(x, j - 1) /\ Digit(x, j - 1) \in 0..(Base - 1)
  <2> TAKE j \in 1..5
  <2>1. j - 1 \in 0..8
    OBVIOUS
  <2> QED
    BY <2>1, DigitType, Zenon DEF Bytes, Digit
<1>7. t = [i \in 1..24 |-> IF i \in 17..21 THEN Bytes(5, x)[i - 16] ELSE s[i]]
  BY <1>4, <1>5, Zenon DEF WithPaddr
<1>8. \A i \in 17..21 : i - 16 \in 1..5 /\ i \in 1..24
  OBVIOUS
<1>9. ASSUME NEW i \in 1..24 PROVE t[i] \in 0..(Base - 1)
  <2>1. s[i] \in 0..(Base - 1)
    BY <1>3 DEF ByteStrings
  <2>2. t[i] = IF i \in 17..21 THEN Bytes(5, x)[i - 16] ELSE s[i]
    BY <1>7, Zenon
  <2>3. CASE i \in 17..21
    <3>1. Bytes(5, x)[i - 16] \in 0..(Base - 1)
      BY <1>6, <1>8, <2>3, Zenon
    <3> QED
      BY <2>2, <2>3, <3>1, Zenon
  <2>4. CASE i \notin 17..21
    BY <2>1, <2>2, <2>4, Zenon
  <2> QED
    BY <2>3, <2>4, Zenon
<1>10. t \in ByteStrings
  BY <1>7, <1>9, Zenon DEF ByteStrings
<1>11. t \in [1..24 -> Nat] /\ 24 \in Nat
  <2>1. \A v \in 0..(Base - 1) : v \in Nat
    BY BaseType
  <2> QED
    BY <1>10, <2>1 DEF ByteStrings
<1>12. t \in Seq(Nat) /\ Len(t) = 24
  BY <1>11, FunctionIsSeq, Zenon
<1>13. ASSUME NEW i \in 1..8 PROVE t[i + 16] = Digit(x, i - 1)
  <2>1. CASE i \in 1..5
    <3>1. i + 16 \in 17..21 /\ (i + 16) - 16 = i /\ i + 16 \in 1..24
      BY <2>1
    <3>2. t[i + 16] = Bytes(5, x)[(i + 16) - 16]
      BY <1>7, <3>1, Zenon
    <3> QED
      BY <1>6, <2>1, <3>1, <3>2, Zenon
  <2>2. CASE i \in {6, 7, 8}
    <3>1. i + 16 \notin 17..21 /\ i + 16 \in 1..24
      BY <2>2
    <3>2. t[i + 16] = s[i + 16]
      BY <1>7, <3>1, Zenon
    <3>3. s[i + 16] = Digit(0, i - 1)
      BY <1>3, Zenon DEF HoldsAt
    <3>4. Digit(0, i - 1) = 0 /\ Digit(x, i - 1) = 0
      BY <2>2, NoMoreDigits, Zenon
    <3> QED
      BY <3>2, <3>3, <3>4, Zenon
  <2>3. i \in 1..5 \/ i \in {6, 7, 8}
    OBVIOUS
  <2> QED
    BY <2>1, <2>2, <2>3, Zenon
<1>14. HoldsAt(t, 16, 8, x)
  BY <1>13, Zenon DEF HoldsAt
<1>15. x < Weight[8]
  <2>1. Weight[5] \in Nat /\ Weight[8] \in Nat
    BY WeightType
  <2>2. Weight[5] <= Weight[8]
    BY WeightsGrow, Zenon
  <2> QED
    BY <2>1, <2>2
<1>16. 16 \in Nat /\ 8 \in 1..8 /\ 16 + 8 <= Len(t)
  BY <1>12
<1>17. Value(SubSeq(t, 16 + 1, 16 + 8)) = x
  BY <1>12, <1>14, <1>15, <1>16, PieceValue, Zenon
<1>18. 16 + 1 = 17 /\ 16 + 8 = 24
  OBVIOUS
<1> QED
  BY <1>1, <1>4, <1>10, <1>17, <1>18, Zenon DEF PaddrOf

\* A physical address fits into five bytes.
LEMMA PhysFits ==
  ASSUME NEW f \in Frames \cup {0}, NEW v \in Nat
  PROVE  PhysOf(f, v) \in Nat /\ PhysOf(f, v) < Weight[5]
<1>1. Weight[5] \in Nat
  BY WeightType
<1>2. f \in Nat /\ PageSize \in Nat /\ PageSize > 0 /\ (f + 1) * PageSize <= Weight[5]
  <2>1. PageSize \in Nat /\ PageSize > 0 /\ PageSize <= Weight[5] /\ (0 + 1) * PageSize = PageSize
    BY PaddrAssumption
  <2>2. CASE f = 0
    BY <2>1, <2>2
  <2>3. CASE f \in Frames
    BY <2>1, <2>3, PaddrAssumption
  <2> QED
    BY <2>2, <2>3
<1>3. PICK r \in 0..(PageSize - 1) : r = v % PageSize
  BY <1>2, Division
<1>4. (f + 1) * PageSize = f * PageSize + PageSize /\ f * PageSize \in Nat
  BY <1>2
<1>5. f * PageSize + r \in Nat /\ f * PageSize + r < Weight[5]
  BY <1>1, <1>2, <1>4
<1> QED
  BY <1>3, <1>5, Zenon DEF PhysOf

LEMMA EntryFields ==
  ASSUME NEW e \in Entries
  PROVE  e.ends \in 1..7 /\ e.frame \in Frames \cup {0}
BY DEF Entries, Present

LEMMA LevelType == Present = 7 /\ Present \in Levels /\ 1 \in Levels /\ Levels = 1..7
BY DEF Present, Levels

LEMMA PaddrInvInit == PaddrInit => PaddrType /\ WalkInv
<1> SUFFICES ASSUME PaddrInit PROVE PaddrType /\ WalkInv
  OBVIOUS
<1>1. Idler \in CallerType /\ Idler.pc = "idle"
  BY DEF Idler, CallerType, Levels
<1>2. Unmapped \in Entries
  BY DEF Entries, Unmapped
<1>3. PaddrType
  BY <1>1, <1>2, LevelType DEF PaddrInit, PaddrType
<1>4. \A c \in Callers : CallOK(ca[c], c) /\ ~Under(ca[c].pc)
  BY <1>1 DEF PaddrInit, CallOK, Under
<1> QED
  BY <1>3, <1>4 DEF WalkInv

\* A step of a caller leaves the calls of the others as they are: one that is
\* alone would not be under way.
LEMMA CallerMoves ==
  ASSUME PaddrType, WalkInv, NEW c \in Callers, Under(ca[c].pc), NEW x \in CallerType,
         ca' = [ca EXCEPT ![c] = x], UNCHANGED <<tables, single, seen, behind>>,
         task' \in Tasks \cup {NoTask},
         x.pc = "walk" => x.mm \in Tasks \ KernelThreads, CallOK(x, c)'
  PROVE  PaddrType' /\ WalkInv'
<1>1. ca'[c] = x /\ \A d \in Callers \ {c} : ca'[d] = ca[d]
  BY DEF PaddrType
<1>2. PaddrType'
  <2>1. ca' \in [Callers -> CallerType]
    BY DEF PaddrType
  <2>2. ASSUME NEW d \in Callers, ca'[d].pc = "walk" PROVE ca'[d].mm \in Tasks \ KernelThreads
    BY <1>1, <2>2 DEF PaddrType
  <2> QED
    BY <2>1, <2>2 DEF PaddrType
<1>3. ASSUME NEW d \in Callers \ {c} PROVE CallOK(ca[d], d)'
  <2>1. CallOK(ca[d], d) /\ ~(single[d] /\ Under(ca[d].pc))
    BY DEF WalkInv
  <2>2. CASE ~Under(ca[d].pc)
    BY <1>1, <2>2 DEF CallOK, Under
  <2>3. CASE ~single[d]
    <3>1. ASSUME NEW p \in Packets, Asks(ca[d], d, p) PROVE Asks(ca[d], d, p)'
      BY <1>1, <2>3, <3>1 DEF Asks, Translation
    <3> QED
      BY <1>1, <2>1, <2>3, <3>1 DEF CallOK
  <2> QED
    BY <2>1, <2>2, <2>3
<1>4. CallOK(ca[c], c)'
  BY <1>1 DEF CallOK, Asks
<1>5. ASSUME NEW d \in Callers, single'[d], Under(ca'[d].pc)
      PROVE  \A y \in Callers \ {d} : ~Under(ca'[y].pc)
  <2>1. d = c
    BY <1>1, <1>5 DEF WalkInv
  <2>2. single[c]
    BY <1>5, <2>1
  <2>3. \A y \in Callers \ {c} : ~Under(ca[y].pc)
    BY <2>2 DEF WalkInv
  <2> QED
    BY <1>1, <2>1, <2>3
<1>6. \A d \in Callers : CallOK(ca[d], d)'
  BY <1>3, <1>4
<1>7. WalkInv'
  BY <1>5, <1>6 DEF WalkInv
<1> QED
  BY <1>2, <1>7

LEMMA CallReadKeeps ==
  ASSUME PaddrType, WalkInv, NEW c \in Callers, NEW p \in Packets, CallRead(c, p)
  PROVE  PaddrType' /\ WalkInv'
<1>1. PICK x : x = [Idler EXCEPT !.pc = "find", !.buf = PacketOf(p)]
  OBVIOUS
<1>2. PacketOf(p) \in ByteStrings
  BY PacketFields, Zenon DEF IsPacket
<1>3. x \in CallerType /\ x.pc = "find" /\ x.buf = PacketOf(p) /\ x.level = 1
  <2>1. Idler \in CallerType
    BY DEF Idler, CallerType, Levels
  <2>2. PICK b : b = PacketOf(p)
    OBVIOUS
  <2>3. b \in ByteStrings /\ x = [Idler EXCEPT !.pc = "find", !.buf = b]
    BY <1>1, <1>2, <2>2
  <2> QED
    BY <2>1, <2>2, <2>3 DEF CallerType, Idler
<1>4. ca' = [ca EXCEPT ![c] = x] /\ UNCHANGED <<task, tables>>
  BY <1>1, Zenon DEF CallRead
<1>5. ca'[c] = x /\ \A d \in Callers \ {c} : ca'[d] = ca[d]
  BY <1>4 DEF PaddrType
<1>6. single' \in [Callers -> BOOLEAN]
  BY Zenon DEF CallRead
<1>7. \A d \in Callers : single'[d] <=> d = c /\ \A y \in Callers : ca[y].pc \in {"idle", "killed"}
  BY Zenon DEF CallRead
<1>8. seen' = [seen EXCEPT ![c] = {Translation(p.pid, p.vaddr)}]
  BY Zenon DEF CallRead
<1>9. /\ DOMAIN seen' = Callers /\ seen'[c] = {Translation(p.pid, p.vaddr)}
      /\ \A d \in Callers \ {c} : seen'[d] = seen[d]
  BY <1>8 DEF PaddrType
<1>10. /\ behind' \in [Callers -> Levels] /\ behind'[c] = Present
       /\ \A d \in Callers \ {c} : behind'[d] = behind[d]
  <2>1. behind' = [behind EXCEPT ![c] = Present]
    BY Zenon DEF CallRead
  <2> QED
    BY <2>1, LevelType DEF PaddrType
<1>11. PaddrType'
  <2>1. ca' \in [Callers -> CallerType]
    BY <1>3, <1>4 DEF PaddrType
  <2>2. ASSUME NEW d \in Callers, ca'[d].pc = "walk" PROVE ca'[d].mm \in Tasks \ KernelThreads
    BY <1>3, <1>5, <2>2 DEF PaddrType
  <2> QED
    BY <1>4, <1>6, <1>9, <1>10, <2>1, <2>2 DEF PaddrType
<1>12. CallOK(ca[c], c)'
  <2>1. Translation(p.pid, p.vaddr)' = Translation(p.pid, p.vaddr)
    BY <1>4 DEF Translation
  <2>2. Asks(ca[c], c, p)'
    BY <1>3, <1>5, <1>9, <1>10, <2>1, LevelType DEF Asks
  <2> QED
    BY <1>3, <1>5, <2>2 DEF CallOK
<1>13. ASSUME NEW d \in Callers \ {c} PROVE CallOK(ca[d], d)'
  <2>1. CallOK(ca[d], d) /\ ~single'[d]
    BY <1>7 DEF WalkInv
  <2>2. ASSUME NEW q \in Packets, Asks(ca[d], d, q) PROVE Asks(ca[d], d, q)'
    BY <1>4, <1>5, <1>9, <1>10, <2>1, <2>2 DEF Asks, Translation
  <2> QED
    BY <1>5, <1>9, <1>10, <2>1, <2>2 DEF CallOK
<1>14. ASSUME NEW d \in Callers, single'[d] PROVE \A y \in Callers \ {d} : ~Under(ca'[y].pc)
  BY <1>5, <1>7, <1>14 DEF Under
<1>15. WalkInv'
  <2>1. \A d \in Callers : CallOK(ca[d], d)'
    BY <1>12, <1>13
  <2> QED
    BY <1>14, <2>1 DEF WalkInv
<1> QED
  BY <1>11, <1>15

\* The entry of the page that a call asks for.
LEMMA EntryType ==
  ASSUME PaddrType, NEW p \in Packets, NEW t \in Tasks \ KernelThreads
  PROVE  tables[t][p.vaddr \div PageSize] \in Entries
<1>1. p.vaddr \div PageSize \in VPages
  BY PacketType, Zenon
<1>2. PICK v \in VPages : v = p.vaddr \div PageSize
  BY <1>1
<1>3. tables[t][v] \in Entries
  BY DEF PaddrType
<1> QED
  BY <1>2, <1>3

LEMMA EinvalType == EINVAL \in Int /\ EINVAL < 0
BY DEF EINVAL

LEMMA CallKeeps ==
  ASSUME PaddrType, WalkInv, NEW c \in Callers,
         \/ pid_task(c) \/ Check(c) \/ TakeMm(c)
         \/ WalkStops(c) \/ WalkOn(c) \/ WalkDies(c) \/ Fill(c) \/ Done(c)
  PROVE  PaddrType' /\ WalkInv'
<1>1. ca[c] \in CallerType /\ CallOK(ca[c], c) /\ task \in Tasks \cup {NoTask}
  BY DEF PaddrType, WalkInv
<1>2. Under(ca[c].pc)
  BY DEF pid_task, Check, TakeMm, WalkStops, WalkOn, WalkDies, Fill, Done, Under
<1>3. ASSUME ca[c].pc \in {"find", "check", "mm", "walk"}
      PROVE  \E p \in Packets : Asks(ca[c], c, p)
  BY <1>1, <1>3 DEF CallOK
<1>4. CASE pid_task(c)
  <2>1. PICK p \in Packets : Asks(ca[c], c, p)
    BY <1>3, <1>4 DEF pid_task
  <2>2. PidOf(ca[c].buf) = p.pid
    BY <2>1, Decodes DEF Asks
  <2>3. task' = IF p.pid \in Tasks THEN p.pid ELSE NoTask
    BY <1>4, <2>2 DEF pid_task
  <2>4. PICK x : x = [ca[c] EXCEPT !.pc = "check"]
    OBVIOUS
  <2>5. x \in CallerType /\ x.pc = "check" /\ x.buf = ca[c].buf /\ x.level = 1
    BY <1>1, <1>4, <2>4 DEF CallerType, CallOK, pid_task
  <2>6. Asks(x, c, p)'
    BY <1>4, <2>1, <2>3, <2>5 DEF Asks, Translation, pid_task
  <2>7. CallOK(x, c)'
    BY <2>5, <2>6 DEF CallOK
  <2>8. ca' = [ca EXCEPT ![c] = x] /\ UNCHANGED <<tables, single, seen, behind>>
    BY <1>4, <2>4 DEF pid_task
  <2>9. task' \in Tasks \cup {NoTask}
    BY <2>3
  <2> QED
    BY <1>2, <2>5, <2>7, <2>8, <2>9, CallerMoves
<1>5. CASE Check(c)
  <2>1. PICK p \in Packets : Asks(ca[c], c, p)
    BY <1>3, <1>5 DEF Check
  <2>2. UNCHANGED <<task, tables, single, seen, behind>> /\ ca[c].pc = "check"
    BY <1>5 DEF Check
  <2>3. CASE task = NoTask
    <3>1. PICK x : x = [ca[c] EXCEPT !.pc = "back", !.ret = EINVAL]
      OBVIOUS
    <3>2. x \in CallerType /\ x.pc = "back" /\ x.ret = EINVAL
      BY <1>1, <3>1, EinvalType DEF CallerType
    <3>3. ca' = [ca EXCEPT ![c] = x]
      BY <1>1, <1>5, <2>3, <3>1 DEF Check, PaddrType, CallerType
    <3>4. ASSUME single[c] PROVE EINVAL \in seen[c]
      <4>1. p.pid \notin Tasks
        BY <2>1, <2>2, <2>3, <3>4, PacketType DEF Asks
      <4> QED
        BY <2>1, <4>1 DEF Asks, Translation
    <3>5. EINVAL < 0
      BY DEF EINVAL
    <3>6. CallOK(x, c)'
      BY <2>2, <3>2, <3>4, <3>5 DEF CallOK
    <3> QED
      BY <1>1, <1>2, <2>2, <3>2, <3>3, <3>6, CallerMoves
  <2>4. CASE task # NoTask
    <3>1. PICK x : x = [ca[c] EXCEPT !.pc = "mm"]
      OBVIOUS
    <3>2. x \in CallerType /\ x.pc = "mm" /\ x.buf = ca[c].buf /\ x.level = 1
      BY <1>1, <2>2, <3>1 DEF CallerType, CallOK
    <3>3. ca' = [ca EXCEPT ![c] = x]
      BY <1>5, <2>4, <3>1 DEF Check
    <3>4. Asks(x, c, p)'
      BY <2>1, <2>2, <3>2 DEF Asks, Translation
    <3>5. CallOK(x, c)'
      BY <3>2, <3>4 DEF CallOK
    <3> QED
      BY <1>1, <1>2, <2>2, <3>2, <3>3, <3>5, CallerMoves
  <2> QED
    BY <2>3, <2>4
<1>6. CASE TakeMm(c)
  <2>1. PICK p \in Packets : Asks(ca[c], c, p)
    BY <1>3, <1>6 DEF TakeMm
  <2>2. UNCHANGED <<task, tables, single, seen, behind>> /\ ca[c].pc = "mm"
    BY <1>6 DEF TakeMm
  <2>3. CASE task \in {NoTask} \cup KernelThreads
    <3>1. PICK x : x = [ca[c] EXCEPT !.pc = "killed"]
      OBVIOUS
    <3>2. x \in CallerType /\ x.pc = "killed"
      BY <1>1, <3>1 DEF CallerType
    <3>3. ca' = [ca EXCEPT ![c] = x]
      BY <1>6, <2>3, <3>1 DEF TakeMm
    <3>4. CallOK(x, c)'
      BY <3>2 DEF CallOK
    <3> QED
      BY <1>1, <1>2, <2>2, <3>2, <3>3, <3>4, CallerMoves
  <2>4. CASE task \notin {NoTask} \cup KernelThreads
    <3>1. PICK x : x = [ca[c] EXCEPT !.pc = "walk", !.mm = task]
      OBVIOUS
    <3>2. x \in CallerType /\ x.pc = "walk" /\ x.buf = ca[c].buf /\ x.mm = task /\ x.level = 1
      BY <1>1, <2>2, <3>1 DEF CallerType, CallOK
    <3>3. ca' = [ca EXCEPT ![c] = x]
      BY <1>1, <1>6, <2>4, <3>1 DEF TakeMm, PaddrType, CallerType
    <3>4. x.mm \in Tasks \ KernelThreads
      BY <1>1, <2>4, <3>2
    <3>5. single[c] => x.mm = p.pid
      BY <2>1, <2>2, <2>4, <3>2 DEF Asks
    <3>6. x.level <= tables[x.mm][p.vaddr \div PageSize].ends
      BY <3>2, <3>4, EntryType, EntryFields
    <3>7. Asks(x, c, p)'
      BY <2>1, <2>2, <3>2, <3>5, <3>6 DEF Asks, Translation
    <3>8. CallOK(x, c)'
      BY <3>2, <3>7 DEF CallOK
    <3> QED
      BY <1>1, <1>2, <2>2, <3>2, <3>3, <3>4, <3>8, CallerMoves
  <2> QED
    BY <2>3, <2>4
<1>7. CASE WalkStops(c) \/ WalkOn(c) \/ WalkDies(c) \/ Fill(c)
  <2>1. UNCHANGED <<task, tables, single, seen, behind>> /\ ca[c].pc = "walk"
    BY <1>7 DEF WalkStops, WalkOn, WalkDies, Fill
  <2>2. PICK p \in Packets : Asks(ca[c], c, p)
    BY <1>3, <2>1
  <2>3. VaddrOf(ca[c].buf) = p.vaddr /\ ca[c].buf = PacketOf(p)
    BY <2>2, Decodes DEF Asks
  <2>4. PICK e : e = tables[ca[c].mm][p.vaddr \div PageSize]
    OBVIOUS
  <2>5. ca[c].mm \in Tasks \ KernelThreads
    BY <2>1 DEF PaddrType
  <2>6. e \in Entries /\ e.ends \in 1..7 /\ e.frame \in Frames \cup {0} /\ PageOf(c) = e
    BY <2>3, <2>4, <2>5, EntryType, EntryFields DEF PageOf
  <2>7. ca[c].level \in 1..7 /\ behind[c] \in 1..7 /\ Present = 7
    BY <1>1, LevelType DEF CallerType, PaddrType
  <2>8. single[c] => Translation(p.pid, p.vaddr) = IF e.ends = Present THEN PhysOf(e.frame, p.vaddr)
                                                   ELSE EINVAL
    BY <2>1, <2>2, <2>4, <2>5 DEF Asks, Translation
  <2>9. single[c] /\ (e.ends < Present \/ behind[c] < Present) => EINVAL \in seen[c]
    <3>1. e.ends < Present => e.ends # Present
      BY <2>6, <2>7
    <3> QED
      BY <2>2, <2>8, <3>1 DEF Asks
  <2>10. ~(behind[c] < Present) => ca[c].level <= e.ends
    BY <2>1, <2>2, <2>4 DEF Asks
  <2>11. CASE WalkStops(c)
    <3>1. PICK x : x = [ca[c] EXCEPT !.pc = "back", !.ret = EINVAL]
      OBVIOUS
    <3>2. x \in CallerType /\ x.pc = "back" /\ x.ret = EINVAL
      BY <1>1, <3>1, EinvalType DEF CallerType
    <3>3. ca' = [ca EXCEPT ![c] = x]
      BY <1>1, <2>11, <3>1 DEF WalkStops, PaddrType, CallerType
    <3>4. e.ends < Present \/ behind[c] < Present
      BY <2>6, <2>7, <2>11 DEF WalkStops, Lost
    <3>5. CallOK(x, c)'
      BY <2>1, <2>9, <3>2, <3>4, EinvalType DEF CallOK
    <3> QED
      BY <1>1, <1>2, <2>1, <3>2, <3>3, <3>5, CallerMoves
  <2>12. CASE WalkOn(c)
    <3>1. PICK x : x = [ca[c] EXCEPT !.level = ca[c].level + 1]
      OBVIOUS
    <3>2. ca[c].level + 1 \in Levels
      BY <2>7, <2>12, LevelType DEF WalkOn
    <3>3. /\ x \in CallerType /\ x.pc = "walk" /\ x.buf = ca[c].buf /\ x.mm = ca[c].mm
          /\ x.level = ca[c].level + 1
      BY <1>1, <2>1, <3>1, <3>2 DEF CallerType
    <3>4. ca' = [ca EXCEPT ![c] = x]
      BY <1>1, <2>12, <3>1 DEF WalkOn, PaddrType, CallerType
    <3>5. ~(behind[c] < Present) => x.level <= tables[x.mm][p.vaddr \div PageSize].ends
      <4>1. ~(behind[c] < Present) => e.ends > ca[c].level
        BY <2>6, <2>7, <2>12 DEF WalkOn, Lost
      <4>2. ~(behind[c] < Present) => x.level <= e.ends
        BY <2>6, <2>7, <3>3, <4>1
      <4> QED
        BY <2>4, <3>3, <4>2
    <3>6. Asks(x, c, p)'
      BY <2>1, <2>2, <3>3, <3>5 DEF Asks, Translation
    <3>7. CallOK(x, c)'
      BY <3>3, <3>6 DEF CallOK
    <3> QED
      BY <1>1, <1>2, <2>1, <2>5, <3>3, <3>4, <3>7, CallerMoves
  <2>13. CASE WalkDies(c)
    <3>1. PICK x : x = [ca[c] EXCEPT !.pc = "killed"]
      OBVIOUS
    <3>2. x \in CallerType /\ x.pc = "killed"
      BY <1>1, <3>1 DEF CallerType
    <3>3. ca' = [ca EXCEPT ![c] = x]
      BY <2>13, <3>1 DEF WalkDies
    <3>4. CallOK(x, c)'
      BY <3>2 DEF CallOK
    <3> QED
      BY <1>1, <1>2, <2>1, <3>2, <3>3, <3>4, CallerMoves
  <2>14. CASE Fill(c)
    <3>1. PICK f \in IF Lost(c) THEN Frames ELSE {PageOf(c).frame} :
             ca' = [ca EXCEPT ![c].pc = "back", ![c].ret = Len(ca[c].buf),
                              ![c].buf = WithPaddr(@, PhysOf(f, VaddrOf(@)))]
      BY <2>14, Zenon DEF Fill
    <3>2. f \in Frames \cup {0}
      BY <2>6, <3>1
    <3>3. PICK a : a = PhysOf(f, p.vaddr)
      OBVIOUS
    <3>4. a \in Nat /\ a < Weight[5]
      BY <3>2, <3>3, PhysFits, PacketType
    <3>5. PICK b : b = WithPaddr(ca[c].buf, a)
      OBVIOUS
    <3>6. b \in ByteStrings /\ PaddrOf(b) = a
      BY <2>3, <3>4, <3>5, Encodes
    <3>7. Len(ca[c].buf) = 24
      BY <2>3, PacketFields DEF IsPacket
    <3>8. PICK x : x = [ca[c] EXCEPT !.pc = "back", !.ret = 24, !.buf = b]
      OBVIOUS
    <3>9. x \in CallerType /\ x.pc = "back" /\ x.buf = b /\ x.ret = 24
      <4>1. PICK n \in Int : n = 24
        OBVIOUS
      <4>2. x = [ca[c] EXCEPT !.pc = "back", !.ret = n, !.buf = b] /\ b \in ByteStrings
        BY <3>6, <3>8, <4>1, Zenon
      <4>3. x \in CallerType /\ x.pc = "back" /\ x.buf = b /\ x.ret = n
        BY <1>1, <4>2 DEF CallerType
      <4> QED
        BY <4>1, <4>3, Zenon
    <3>10. ca' = [ca EXCEPT ![c] = x]
      <4>1. ca' = [ca EXCEPT ![c].pc = "back", ![c].ret = 24,
                             ![c].buf = WithPaddr(@, PhysOf(f, VaddrOf(@)))]
        BY <3>1, <3>7
      <4>2. WithPaddr(ca[c].buf, PhysOf(f, VaddrOf(ca[c].buf))) = b
        BY <2>3, <3>3, <3>5
      <4> QED
        BY <1>1, <3>8, <4>1, <4>2 DEF PaddrType, CallerType
    <3>11. ASSUME single[c], ~(behind[c] < Present) PROVE a \in seen[c]
      <4>1. e.ends = Present
        BY <2>6, <2>7, <2>10, <2>14, <3>11 DEF Fill
      <4>2. f = e.frame
        BY <2>6, <2>7, <3>1, <3>11 DEF Lost
      <4> QED
        BY <2>2, <2>8, <3>3, <3>11, <4>1, <4>2 DEF Asks
    <3>12. ~(24 < 0)
      OBVIOUS
    <3>13. CallOK(x, c)'
      BY <2>1, <3>6, <3>9, <3>11, <3>12 DEF CallOK
    <3> QED
      BY <1>1, <1>2, <2>1, <3>9, <3>10, <3>13, CallerMoves
  <2> QED
    BY <1>7, <2>11, <2>12, <2>13, <2>14
<1>8. CASE Done(c)
  <2>1. PICK x : x = Idler
    OBVIOUS
  <2>2. x \in CallerType /\ x.pc = "idle"
    BY <2>1 DEF Idler, CallerType, Levels
  <2>3. CallOK(x, c)'
    BY <2>2 DEF CallOK
  <2>4. ca' = [ca EXCEPT ![c] = x] /\ UNCHANGED <<task, tables, single, seen, behind>>
    BY <1>8, <2>1 DEF Done
  <2> QED
    BY <1>1, <1>2, <2>2, <2>3, <2>4, CallerMoves
<1> QED
  BY <1>4, <1>5, <1>6, <1>7, <1>8

LEMMA RemapKeeps ==
  ASSUME PaddrType, WalkInv, NEW t \in Tasks \ KernelThreads, NEW v \in VPages,
         NEW e \in Entries, Remap(t, v, e)
  PROVE  PaddrType' /\ WalkInv'
<1>1. UNCHANGED <<task, ca, single>> /\ tables' = [tables EXCEPT ![t][v] = e]
  BY Zenon DEF Remap
<1>2. /\ tables' \in [Tasks \ KernelThreads -> [VPages -> Entries]]
      /\ tables'[t][v] = e
      /\ \A u \in Tasks \ KernelThreads, w \in VPages :
            u # t \/ w # v => tables'[u][w] = tables[u][w]
  BY <1>1 DEF PaddrType
<1> DEFINE New(c) == IF e.ends = Present THEN PhysOf(e.frame, VaddrOf(ca[c].buf)) ELSE EINVAL
<1>3. seen' = [c \in Callers |-> IF About(c, t, v) THEN seen[c] \cup {New(c)} ELSE seen[c]]
  BY Zenon DEF Remap
<1>4. behind' = [c \in Callers |->
                   IF Passed(c, t, v, e) /\ e.ends < behind[c] THEN e.ends ELSE behind[c]]
  BY Zenon DEF Remap
<1>5. e.ends \in 1..7 /\ Present = 7 /\ Levels = 1..7
  BY EntryFields, LevelType
<1>6. ASSUME NEW c \in Callers
      PROVE  /\ behind[c] \in 1..7 /\ behind'[c] \in 1..7 /\ behind'[c] <= behind[c]
             /\ behind'[c] # behind[c] => Passed(c, t, v, e)
             /\ Passed(c, t, v, e) => behind'[c] <= e.ends
  <2>1. behind[c] \in 1..7
    BY <1>5 DEF PaddrType
  <2>2. behind'[c] = IF Passed(c, t, v, e) /\ e.ends < behind[c] THEN e.ends ELSE behind[c]
    BY <1>4
  <2> QED
    BY <1>5, <2>1, <2>2
<1>7. PaddrType'
  <2>1. behind' \in [Callers -> Levels]
    <3>1. \A c \in Callers : behind'[c] \in Levels
      BY <1>5, <1>6
    <3> QED
      BY <1>4, <3>1
  <2> QED
    BY <1>1, <1>2, <1>3, <2>1 DEF PaddrType
<1>8. ASSUME NEW c \in Callers PROVE CallOK(ca[c], c)'
  <2>1. CallOK(ca[c], c) /\ seen[c] \subseteq seen'[c] /\ ca[c] \in CallerType
    BY <1>3 DEF WalkInv, PaddrType
  <2>2. ASSUME NEW p \in Packets, Asks(ca[c], c, p), ca[c].pc # "idle"
        PROVE  Asks(ca[c], c, p)'
    <3>1. ca[c].buf = PacketOf(p) /\ Translation(p.pid, p.vaddr) \in seen[c]
      BY <2>2 DEF Asks
    <3>2. PidOf(ca[c].buf) = p.pid /\ VaddrOf(ca[c].buf) = p.vaddr
      BY <3>1, Decodes, Zenon
    <3>3. p.vaddr \div PageSize \in VPages
      BY PacketType, Zenon
    <3>4. PICK w \in VPages : w = p.vaddr \div PageSize
      BY <3>3
    <3>5. About(c, t, v) <=> p.pid = t /\ w = v
      BY <2>2, <3>2, <3>4 DEF About
    <3>6. Translation(p.pid, p.vaddr)' \in seen'[c]
      <4>1. CASE p.pid = t /\ w = v
        <5>1. Translation(p.pid, p.vaddr)' = IF e.ends = Present THEN PhysOf(e.frame, p.vaddr) ELSE EINVAL
          BY <1>2, <3>4, <4>1 DEF Translation
        <5>2. Translation(p.pid, p.vaddr)' = New(c)
          BY <3>2, <5>1, Zenon
        <5>3. seen'[c] = seen[c] \cup {New(c)}
          BY <1>3, <3>5, <4>1, Zenon
        <5> QED
          BY <5>2, <5>3, Zenon
      <4>2. CASE ~(p.pid = t /\ w = v)
        <5>1. p.pid \in Tasks \ KernelThreads => tables'[p.pid][w] = tables[p.pid][w]
          BY <1>2, <4>2
        <5>2. Translation(p.pid, p.vaddr)' = Translation(p.pid, p.vaddr)
          BY <3>4, <5>1 DEF Translation
        <5> QED
          BY <2>1, <3>1, <5>2
      <4> QED
        BY <4>1, <4>2
    <3>7. ASSUME single[c], behind'[c] < Present PROVE EINVAL \in seen'[c]
      <4>1. CASE behind'[c] = behind[c]
        BY <2>1, <2>2, <3>7, <4>1 DEF Asks
      <4>2. CASE behind'[c] # behind[c]
        <5>1. ca[c].pc = "walk" /\ ca[c].mm = t /\ e.ends < ca[c].level /\ w = v
          BY <1>6, <3>2, <3>4, <4>2 DEF Passed
        <5>2. p.pid = t
          BY <2>2, <3>7, <5>1 DEF Asks
        <5>3. e.ends # Present
          BY <1>5, <2>1, <5>1 DEF CallerType
        <5>4. New(c) = EINVAL /\ seen'[c] = seen[c] \cup {New(c)}
          BY <1>3, <3>5, <5>1, <5>2, <5>3, Zenon
        <5> QED
          BY <5>4, Zenon
      <4> QED
        BY <4>1, <4>2
    <3>8. ASSUME ca[c].pc = "walk", ~(behind'[c] < Present)
          PROVE  ca[c].level <= tables'[ca[c].mm][p.vaddr \div PageSize].ends
      <4>1. ~(behind[c] < Present) /\ (Passed(c, t, v, e) => ~(e.ends < Present))
        BY <1>5, <1>6, <3>8
      <4>2. ca[c].mm \in Tasks \ KernelThreads /\ ca[c].level \in 1..7
        BY <1>5, <2>1, <3>8 DEF PaddrType, CallerType
      <4>3. CASE ca[c].mm = t /\ w = v
        <5>1. ca[c].level <= e.ends
          BY <1>5, <3>2, <3>4, <3>8, <4>1, <4>2, <4>3 DEF Passed
        <5> QED
          BY <1>2, <3>4, <4>3, <5>1
      <4>4. CASE ~(ca[c].mm = t /\ w = v)
        <5>1. tables'[ca[c].mm][w] = tables[ca[c].mm][w]
          BY <1>2, <4>2, <4>4
        <5>2. ca[c].level <= tables[ca[c].mm][p.vaddr \div PageSize].ends
          BY <2>2, <3>8, <4>1 DEF Asks
        <5> QED
          BY <3>4, <5>1, <5>2
      <4> QED
        BY <4>3, <4>4
    <3> QED
      BY <1>1, <2>2, <3>6, <3>7, <3>8 DEF Asks
  <2>3. ASSUME ca[c].pc = "back", single[c]
        PROVE  IF ca[c].ret < 0 THEN EINVAL \in seen'[c]
               ELSE behind'[c] < Present \/ PaddrOf(ca[c].buf) \in seen'[c]
    <3>1. behind[c] < Present => behind'[c] < Present
      BY <1>5, <1>6
    <3> QED
      BY <2>1, <2>3, <3>1 DEF CallOK
  <2> QED
    BY <1>1, <2>1, <2>2, <2>3 DEF CallOK
<1>9. WalkInv'
  <2>1. ASSUME NEW c \in Callers, single'[c], Under(ca'[c].pc)
        PROVE  \A x \in Callers \ {c} : ~Under(ca'[x].pc)
    BY <1>1, <2>1 DEF WalkInv
  <2> QED
    BY <1>8, <2>1 DEF WalkInv
<1> QED
  BY <1>7, <1>9

\* A step of the module keeps what it has seen and what it owes its callers.
LEMMA WalkStep ==
  ASSUME PaddrType, WalkInv, PaddrNext
  PROVE  PaddrType' /\ WalkInv'
BY CallReadKeeps, CallKeeps, RemapKeeps DEF PaddrNext

-----------------------------------------------------------------------------
(* The modules in the kernel *)

LEMMA NamesType ==
  \A m \in DOMAIN Names : /\ Names[m] \in Seq({"dir", "input", "ptree", "output"})
                          /\ Len(Names[m]) \in {2, 3}
<1>1. DOMAIN Names = {"ptree", "paddr"}
  BY DEF Names
<1>2. Names["ptree"] = <<"dir", "input", "ptree">> /\ Names["paddr"] = <<"dir", "output">>
  BY DEF Names
<1>3. /\ <<"dir", "input", "ptree">> \in Seq({"dir", "input", "ptree", "output"})
      /\ <<"dir", "output">> \in Seq({"dir", "input", "ptree", "output"})
  OBVIOUS
<1>4. Len(<<"dir", "input", "ptree">>) = 3 /\ Len(<<"dir", "output">>) = 2
  OBVIOUS
<1> QED
  BY <1>1, <1>2, <1>3, <1>4

LEMMA LabTypeStep ==
  ASSUME LabType, Next
  PROVE  LabType'
<1>1. CASE dbfs_module_init
  BY <1>1 DEF dbfs_module_init, LabType
<1>2. CASE dbfs_module_exit
  <2>1. 0 \in 0..Len(Names[module]) /\ SubSeq(Names[module], 1, 0) = <<>>
    BY NamesType DEF LabType
  <2> QED
    BY <1>2, <2>1 DEF dbfs_module_exit, LabType
<1>3. CASE UsePtree \/ UsePaddr
  <2>1. UNCHANGED <<module, loaded, dir>>
    BY <1>3 DEF UsePtree, UsePaddr
  <2> QED
    BY <2>1 DEF LabType
<1> QED
  BY <1>1, <1>2, <1>3 DEF Next

LEMMA LabInit == Init => LabType
<1> SUFFICES ASSUME Init PROVE LabType
  OBVIOUS
<1>1. module \in DOMAIN Names /\ loaded = FALSE /\ dir = <<>>
  BY DEF Init
<1>2. 0 \in 0..Len(Names[module]) /\ SubSeq(Names[module], 1, 0) = <<>>
  BY <1>1, NamesType
<1> QED
  BY <1>1, <1>2 DEF LabType

\* A step of the lab is one of a module, or removes it, or leaves it alone.
LEMMA StepsOfModules ==
  [Next]_vars => /\ PtreeNext \/ dbfs_module_exit \/ UNCHANGED ptreevars
                 /\ PaddrNext \/ dbfs_module_exit \/ UNCHANGED paddrvars
                 /\ Next \/ UNCHANGED <<module, loaded, dir>>
BY Zenon DEF Next, vars, dbfs_module_init, UsePtree, UsePaddr

\* A module that is removed leaves no call behind that would need its variables.
LEMMA ExitKeeps ==
  ASSUME PtreeType, PaddrType, WalkInv, dbfs_module_exit
  PROVE  PtreeType' /\ PaddrType' /\ WalkInv' /\ BranchInv'
<1>1. /\ buf' = Zeros /\ curr' = None /\ task' = NoTask /\ branch' = <<>>
      /\ rd' = [r \in Readers |-> Closed]
      /\ UNCHANGED <<wr, writes, alone, ca, tables, single, seen, behind>>
  BY Zenon DEF dbfs_module_exit
<1>2. Closed \in ReaderType /\ Closed.want = <<>>
  BY ZerosType, PtreeAssumption DEF Closed, ReaderType
<1>3. rd' \in [Readers -> ReaderType] /\ \A r \in Readers : rd'[r].want = <<>>
  BY <1>1, <1>2
<1>4. PtreeType'
  BY <1>1, <1>3, ZerosType DEF PtreeType
<1>5. PaddrType'
  BY <1>1 DEF PaddrType
<1>6. WalkInv'
  <2>1. ASSUME NEW c \in Callers PROVE CallOK(ca[c], c)'
    <3>1. CallOK(ca[c], c) /\ ca[c].pc \in {"idle", "back"}
      BY DEF WalkInv, dbfs_module_exit, PaddrQuiet
    <3> QED
      BY <1>1, <3>1 DEF CallOK
  <2>2. ASSUME NEW c \in Callers, single'[c], Under(ca'[c].pc)
        PROVE  \A x \in Callers \ {c} : ~Under(ca'[x].pc)
    BY <1>1, <2>2 DEF WalkInv
  <2> QED
    BY <2>1, <2>2 DEF WalkInv
<1>7. BranchInv'
  <2>1. ASSUME NEW w \in Writers PROVE ~Under(wr'[w].pc) /\ \A p : Progress(wr[w], p)'
    <3>1. wr'[w].pc = "idle"
      BY <1>1 DEF dbfs_module_exit, PtreeQuiet
    <3> QED
      BY <3>1 DEF Under, Progress
  <2>2. Numbers(branch') = {}
    BY <1>1, NumbersType
  <2> QED
    BY <1>1, <1>3, <2>1, <2>2 DEF BranchInv
<1> QED
  BY <1>4, <1>5, <1>6, <1>7

\* What the variables of both modules are, whatever the tree, the callers and
\* the page tables: the inductive invariant without the branch.
THEOREM KernelInvariance == Spec => [](PtreeType /\ PaddrType /\ WalkInv /\ LabType)
<1> DEFINE Inv == PtreeType /\ PaddrType /\ WalkInv /\ LabType
<1>1. Init => Inv
  BY PtreeTypeInit, PaddrInvInit, LabInit DEF Init
<1>2. Inv /\ [Next]_vars => Inv'
  <2> SUFFICES ASSUME Inv, [Next]_vars PROVE Inv'
    OBVIOUS
  <2>1. PtreeType'
    <3>1. CASE PtreeNext
      BY <3>1, PtreeTypeStep
    <3>2. CASE UNCHANGED ptreevars
      BY <3>2 DEF ptreevars, PtreeType
    <3> QED
      BY <3>1, <3>2, StepsOfModules, ExitKeeps
  <2>2. PaddrType' /\ WalkInv'
    <3>1. CASE PaddrNext
      BY <3>1, WalkStep
    <3>2. CASE UNCHANGED paddrvars
      BY <3>2 DEF paddrvars, PaddrType, WalkInv, CallOK, Asks, Translation
    <3> QED
      BY <3>1, <3>2, StepsOfModules, ExitKeeps
  <2>3. LabType'
    <3>1. CASE Next
      BY <3>1, LabTypeStep
    <3>2. CASE UNCHANGED <<module, loaded, dir>>
      BY <3>2 DEF LabType
    <3> QED
      BY <3>1, <3>2, StepsOfModules
  <2> QED
    BY <2>1, <2>2, <2>3
<1> QED
  BY <1>1, <1>2, PTL DEF Spec

\* The branch that a write which ran alone has left in buf stays there until the
\* next write that changes it, and a reader has none of it, or the start at first.
THEOREM BranchInvariance == Spec => []BranchInv
<1>1. Init => BranchInv
  BY BranchInit DEF Init
<1>2. PtreeType /\ PaddrType /\ WalkInv /\ BranchInv /\ [Next]_vars => BranchInv'
  <2> SUFFICES ASSUME PtreeType, PaddrType, WalkInv, BranchInv, [Next]_vars PROVE BranchInv'
    OBVIOUS
  <2>1. CASE PtreeNext
    BY <2>1, BranchStep
  <2>2. CASE UNCHANGED ptreevars
    BY <2>2 DEF ptreevars, BranchInv, Progress, Completes, BranchOf, HasBranch
  <2> QED
    BY <2>1, <2>2, StepsOfModules, ExitKeeps
<1>3. Spec => [](PtreeType /\ PaddrType /\ WalkInv)
  BY KernelInvariance, PTL
<1> QED
  BY <1>1, <1>2, <1>3, PTL DEF Spec

\* dbfs_ptree: whatever calls of write have run into each other or failed before,
\* once one with a pid and what ends it has run alone, the first read of a reader
\* gets the start of the branch of the tree that ends in that process, and all of
\* it if it asks for all.
THEOREM BranchIsRead == Spec => []TreeIsBranch
<1>1. PtreeType /\ BranchInv => TreeIsBranch
  <2> SUFFICES ASSUME PtreeType, BranchInv, NEW r \in Readers, NEW p \in Numbers(rd[r].want)
               PROVE  /\ \A i \in 1..rd[r].first : rd[r].out[i] = BranchOf(p)[i]
                      /\ rd[r].first = MAXLEN => rd[r].out = BranchOf(p)
                      /\ rd[r].pc = "eof" => rd[r].first > 0
    BY DEF TreeIsBranch
  <2>1. rd[r].want # <<>>
    BY NumbersType
  <2>2. HasBranch(rd[r]) /\ rd[r].pos \in Nat /\ MAXLEN \in Nat \ {0}
    BY <2>1, PtreeAssumption DEF BranchInv, PtreeType, ReaderType
  <2>3. buf = BranchOf(p)
    BY <2>2 DEF BranchInv, HasBranch
  <2>4. CASE rd[r].pc = "reading" /\ rd[r].first = 0
    BY <2>2, <2>4
  <2>5. CASE /\ rd[r].first \in 1..rd[r].pos
             /\ \A i \in 1..rd[r].first : i <= Len(rd[r].out) /\ rd[r].out[i] = buf[i]
             /\ rd[r].first = MAXLEN => rd[r].out = buf
    BY <2>2, <2>3, <2>5
  <2> QED
    BY <2>2, <2>4, <2>5 DEF HasBranch
<1> QED
  BY <1>1, KernelInvariance, BranchInvariance, PTL

\* dbfs_paddr: a call of read that runs alone returns an error only if there was
\* a moment of the call when the page was not mapped, and otherwise, byte for byte,
\* an address that the page had at some moment of the call, unless the page was
\* unmapped at a level that the walk had passed.
THEOREM AddressIsOfPid == Spec => []AddressOfPid
<1>1. WalkInv => AddressOfPid
  BY DEF WalkInv, CallOK, AddressOfPid
<1> QED
  BY <1>1, KernelInvariance, PTL

\* The buffers, the file positions and the levels of the walk are in their ranges.
THEOREM RangesKept == Spec => []TypeOK
<1>1. PtreeType => PtreeTypeOK
  <2> SUFFICES ASSUME PtreeType PROVE PtreeTypeOK
    OBVIOUS
  <2>1. DOMAIN buf = 1..MAXLEN /\ curr \in DOMAIN Parent \cup {None}
    BY DEF PtreeType, Buffers
  <2>2. ASSUME NEW w \in Writers PROVE Len(wr[w].buf_add) <= MAXLEN
    BY DEF PtreeType
  <2>3. ASSUME NEW r \in Readers PROVE rd[r].pos \in 0..MAXLEN
    BY DEF PtreeType, ReaderType
  <2> QED
    BY <2>1, <2>2, <2>3 DEF PtreeTypeOK
<1>2. PaddrType => PaddrTypeOK
  <2> SUFFICES ASSUME PaddrType PROVE PaddrTypeOK
    OBVIOUS
  <2>1. ASSUME NEW c \in Callers
        PROVE  /\ ca[c].level \in Levels /\ ca[c].mm \in Tasks \cup {NoTask}
               /\ ca[c].buf \in ByteStrings \/ ca[c].buf = <<>>
    BY DEF PaddrType, CallerType
  <2>2. ASSUME NEW s, s \in ByteStrings \/ s = <<>>
        PROVE  Len(s) \in {0, 24} /\ \A i \in DOMAIN s : s[i] \in 0..(Base - 1)
    <3>1. CASE s \in ByteStrings
      <4>1. s \in [1..24 -> 0..(Base - 1)] /\ 24 \in Nat
        BY <3>1 DEF ByteStrings
      <4>2. Len(s) = 24
        <5>1. PICK S : S = 0..(Base - 1)
          OBVIOUS
        <5>2. s \in [1..24 -> S]
          BY <4>1, <5>1
        <5>3. PICK n \in Nat : n = 24
          OBVIOUS
        <5>4. s \in [1..n -> S]
          BY <5>2, <5>3, Zenon
        <5>5. Len(s) = n
          BY <5>4, FunctionIsSeq, Zenon
        <5> QED
          BY <5>3, <5>5, Zenon
      <4> QED
        BY <4>1, <4>2
    <3>2. CASE s = <<>>
      BY <3>2
    <3> QED
      BY <2>2, <3>1, <3>2
  <2> QED
    BY <2>1, <2>2 DEF PaddrTypeOK, PaddrType
<1>3. LabType => loaded \in BOOLEAN /\ Len(dir) <= Len(Names[module])
  <2> SUFFICES ASSUME LabType PROVE Len(dir) <= Len(Names[module])
    BY DEF LabType
  <2>1. PICK n \in 0..Len(Names[module]) : dir = SubSeq(Names[module], 1, n)
    BY DEF LabType
  <2>2. Names[module] \in Seq({"dir", "input", "ptree", "output"})
    BY NamesType DEF LabType
  <2>3. Len(dir) = n
    BY <2>1, <2>2, Cuts
  <2> QED
    BY <2>1, <2>2, <2>3
<1>4. PtreeType /\ PaddrType /\ LabType => TypeOK
  BY <1>1, <1>2, <1>3 DEF TypeOK
<1> QED
  BY <1>4, KernelInvariance, PTL
=============================================================================
