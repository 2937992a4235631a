--------------------------- MODULE MdriverProofs ---------------------------
(***************************************************************************)
(* The malloc packages keep their heap in order under any trace of the     *)
(* driver, for every size of the heap and every set of requests.           *)
(***************************************************************************)
EXTENDS MdriverInvariant, DataLemmas

(* Addresses, sizes and tags.                                              *)

LEMMA Addresses ==
  ASSUME NEW a \in Int
  PROVE  a \in Addr <=> a % 4 = 0 /\ Start <= a /\ a < Start + MAX_HEAP
<1>1. /\ Start \in Nat /\ Start % 8 = 0 /\ MAX_HEAP \in Nat /\ MAX_HEAP % 4 = 0
  BY MemAssumption
<1>2. ASSUME a \in Addr PROVE a % 4 = 0 /\ Start <= a /\ a < Start + MAX_HEAP
  <2>1. PICK i \in 0..(MAX_HEAP \div 4) - 1 : a = Start + 4 * i
    BY <1>2 DEF Addr, WSIZE
  <2>2. MAX_HEAP \div 4 \in Nat /\ 4 * (MAX_HEAP \div 4) = MAX_HEAP
    BY <1>1
  <2> QED
    BY <1>1, <2>1, <2>2
<1>3. ASSUME a % 4 = 0, Start <= a, a < Start + MAX_HEAP PROVE a \in Addr
  <2>1. PICK i \in Int : i = (a - Start) \div 4
    BY <1>1
  <2>2. a = Start + 4 * i
    BY <1>1, <1>3, <2>1
  <2>3. i \in 0..(MAX_HEAP \div 4) - 1
    BY <1>1, <1>3, <2>2
  <2> QED
    BY <2>2, <2>3 DEF Addr, WSIZE
<1> QED
  BY <1>2, <1>3

LEMMA AddrIsNat == Addr \subseteq Nat
<1>1. ASSUME NEW i \in 0..(MAX_HEAP \div WSIZE) - 1 PROVE Start + WSIZE * i \in Nat
  BY MemAssumption DEF WSIZE
<1> QED
  BY <1>1 DEF Addr

LEMMA TagFields ==
  ASSUME NEW n \in Nat, n % 8 = 0, NEW e \in {0, 1}
  PROVE  ((n + e) \div 8) * 8 = n /\ (n + e) % 2 = e /\ n + e \in Nat
OBVIOUS

LEMMA LayoutFacts ==
  ASSUME NEW prol, NEW brk, NEW D, NEW sz, Layout(prol, brk, D, sz)
  PROVE  /\ prol \in Nat /\ prol \in D /\ brk \in Nat /\ D \subseteq Nat /\ brk \notin D
         /\ \A x \in D : /\ x \in Nat /\ prol <= x /\ x < brk /\ sz[x] \in Nat /\ sz[x] >= 8
                         /\ x + sz[x] \in Nat /\ x + sz[x] <= brk /\ x + sz[x] \in D \cup {brk}
<1>1. /\ prol \in D /\ brk \in Nat /\ sz \in [D -> Nat]
      /\ \A x \in D : /\ x \in Nat /\ prol <= x /\ x < brk /\ sz[x] >= 8
                      /\ x + sz[x] \in D \cup {brk}
  BY DEF Layout
<1> QED
  BY <1>1

\* What is in the payload of a block is in no tag and in no other payload.
LEMMA PayloadApart ==
  ASSUME NEW prol, NEW brk, NEW D, NEW sz, Layout(prol, brk, D, sz),
         NEW x \in D, NEW a \in Int, x <= a, a < x + sz[x] - 8, NEW y \in D
  PROVE  /\ a # y - 4 /\ a # y + sz[y] - 8 /\ a # brk - 4
         /\ y # x => ~(y <= a /\ a < y + sz[y] - 8)
<1>1. /\ x \in Nat /\ y \in Nat /\ sz[x] \in Nat /\ sz[y] \in Nat /\ sz[x] >= 8 /\ sz[y] >= 8
      /\ x + sz[x] <= brk /\ brk \in Nat
  BY DEF Layout
<1>2. (x < y => x + sz[x] <= y) /\ (y < x => y + sz[y] <= x)
  BY DEF Layout
<1> QED
  BY <1>1, <1>2

LEMMA TagsApart ==
  ASSUME NEW prol, NEW brk, NEW D, NEW sz, Layout(prol, brk, D, sz),
         NEW x \in D, NEW y \in D, x # y
  PROVE  /\ x - 4 # y - 4 /\ x - 4 # y + sz[y] - 8 /\ x + sz[x] - 8 # y + sz[y] - 8
         /\ x - 4 # brk - 4 /\ x + sz[x] - 8 # brk - 4
<1>1. /\ x \in Nat /\ y \in Nat /\ sz[x] \in Nat /\ sz[y] \in Nat /\ sz[x] >= 8 /\ sz[y] >= 8
      /\ x + sz[x] <= brk /\ brk \in Nat /\ x < brk
  BY DEF Layout
<1>2. (x < y => x + sz[x] <= y) /\ (y < x => y + sz[y] <= x)
  BY DEF Layout
<1>3. x % 8 = 0 /\ y % 8 = 0 /\ sz[x] % 8 = 0 /\ sz[y] % 8 = 0 /\ brk % 8 = 0
  BY DEF Layout
<1> QED
  BY <1>1, <1>2, <1>3

\* The tags and the words of a block are words of the memory.
LEMMA BlockWords ==
  ASSUME NEW prol, NEW brk, NEW D, NEW sz, Layout(prol, brk, D, sz), NEW x \in D
  PROVE  /\ x - 4 \in Addr /\ x + sz[x] - 8 \in Addr /\ brk - 4 \in Addr
         /\ sz[x] >= 16 => x \in Addr /\ x + 4 \in Addr
<1>1. /\ x \in Nat /\ sz[x] \in Nat /\ sz[x] >= 8 /\ x + sz[x] <= brk /\ brk \in Nat
      /\ x >= Start + 8 /\ brk <= Start + MAX_HEAP /\ x < brk
  BY DEF Layout
<1>2. x % 8 = 0 /\ sz[x] % 8 = 0 /\ brk % 8 = 0
  BY DEF Layout
<1>3. Start \in Nat /\ Start % 8 = 0 /\ MAX_HEAP \in Nat
  BY MemAssumption
<1>4. PICK z \in Nat : z = sz[x]
  BY <1>1
<1>5. /\ (x - 4) % 4 = 0 /\ (x + z - 8) % 4 = 0 /\ (brk - 4) % 4 = 0
      /\ x % 4 = 0 /\ (x + 4) % 4 = 0
  BY <1>1, <1>2, <1>4
<1>6. x - 4 \in Addr /\ x + z - 8 \in Addr /\ brk - 4 \in Addr
  BY <1>1, <1>3, <1>4, <1>5, Addresses
<1>7. z >= 16 => x \in Addr /\ x + 4 \in Addr
  BY <1>1, <1>3, <1>4, <1>5, Addresses
<1> QED
  BY <1>4, <1>6, <1>7

-----------------------------------------------------------------------------
(* Changes of the layout.                                                  *)

\* The blocks from lo to hi become one block.
JoinedTo(D, lo, hi) == {x \in D : x <= lo \/ hi <= x}
JoinedSizes(D, sz, lo, hi) ==
    [x \in JoinedTo(D, lo, hi) |-> IF x = lo THEN hi - lo ELSE sz[x]]

LEMMA LayoutJoined ==
  ASSUME NEW prol, NEW brk, NEW D, NEW sz, Layout(prol, brk, D, sz),
         NEW lo \in D, NEW hi \in D \cup {brk}, lo < hi, lo # prol
  PROVE  Layout(prol, brk, JoinedTo(D, lo, hi), JoinedSizes(D, sz, lo, hi))
<1>1. PICK E : E = JoinedTo(D, lo, hi)
  OBVIOUS
<1>2. PICK zs : zs = JoinedSizes(D, sz, lo, hi)
  OBVIOUS
<1>3. /\ prol = Start + 8 /\ prol \in D /\ sz \in [D -> Nat]
      /\ brk \in Nat /\ brk % 8 = 0 /\ brk <= Start + MAX_HEAP
  BY DEF Layout
<1>4. \A x \in D : /\ x \in Nat /\ x % 8 = 0 /\ prol <= x /\ x < brk
                   /\ sz[x] % 8 = 0 /\ sz[x] >= 8 /\ (x # prol => sz[x] >= 16)
                   /\ x + sz[x] \in D \cup {brk}
  BY DEF Layout
<1>5. \A x, y \in D : x < y => x + sz[x] <= y
  BY DEF Layout
<1>6. \A y \in (D \cup {brk}) \ {prol} : \E x \in D : x + sz[x] = y
  BY DEF Layout
<1>7. lo \in Nat /\ hi \in Nat /\ lo % 8 = 0 /\ hi % 8 = 0 /\ hi <= brk /\ prol <= lo
      /\ lo + sz[lo] <= hi /\ sz[lo] >= 16 /\ sz[lo] \in Nat
  BY <1>3, <1>4, <1>5
<1>8. E \subseteq D /\ (\A x \in D : x \in E <=> x <= lo \/ hi <= x) /\ lo \in E /\ prol \in E
      /\ hi \in E \cup {brk}
  BY <1>1, <1>3, <1>4, <1>7 DEF JoinedTo
<1>9. zs = [x \in E |-> IF x = lo THEN hi - lo ELSE sz[x]]
  BY <1>1, <1>2 DEF JoinedSizes
<1>10. zs \in [E -> Nat]
  BY <1>3, <1>7, <1>8, <1>9
<1>11. ASSUME NEW x \in E
       PROVE  /\ x \in Nat /\ x % 8 = 0 /\ prol <= x /\ x < brk
              /\ zs[x] % 8 = 0 /\ zs[x] >= 8 /\ (x # prol => zs[x] >= 16)
              /\ x + zs[x] \in E \cup {brk}
  <2>1. CASE x = lo
    <3>1. zs[x] = hi - lo
      BY <1>9, <2>1
    <3>2. (hi - lo) % 8 = 0 /\ hi - lo >= 16 /\ lo + (hi - lo) = hi
      BY <1>7
    <3>3. x + zs[x] = hi /\ zs[x] % 8 = 0 /\ zs[x] >= 16 /\ zs[x] >= 8
      BY <1>7, <2>1, <3>1, <3>2
    <3>4. x \in Nat /\ x % 8 = 0 /\ prol <= x /\ x < brk
      BY <1>4, <2>1
    <3> QED
      BY <1>8, <3>3, <3>4
  <2>2. CASE x # lo
    <3>1. zs[x] = sz[x] /\ x \in D
      BY <1>8, <1>9, <2>2
    <3>2. PICK y : y = x + sz[x]
      OBVIOUS
    <3>3. y \in D \cup {brk} /\ y \in Nat
      BY <1>3, <1>4, <3>1, <3>2
    <3>4. y \in E \cup {brk}
      <4>1. CASE x < lo
        <5>1. y <= lo /\ y # brk
          BY <1>3, <1>5, <1>7, <3>1, <3>2, <3>3, <4>1
        <5> QED
          BY <1>8, <3>3, <5>1
      <4>2. CASE hi <= x
        <5>1. hi <= y
          BY <1>3, <1>4, <1>7, <3>1, <3>2, <4>2
        <5> QED
          BY <1>8, <3>3, <5>1
      <4>3. x < lo \/ hi <= x
        BY <1>4, <1>7, <1>8, <2>2
      <4> QED
        BY <4>1, <4>2, <4>3
    <3> QED
      BY <1>4, <3>1, <3>2, <3>4
  <2> QED
    BY <2>1, <2>2
<1>12. ASSUME NEW x \in E, NEW y \in E, x < y PROVE x + zs[x] <= y
  <2>1. CASE x = lo
    <3>1. zs[x] = hi - lo /\ hi <= y
      BY <1>4, <1>7, <1>8, <1>9, <1>12, <2>1
    <3> QED
      BY <1>4, <1>7, <1>8, <2>1, <3>1
  <2>2. CASE x # lo
    BY <1>5, <1>8, <1>9, <1>12, <2>2
  <2> QED
    BY <2>1, <2>2
<1>13. ASSUME NEW y \in (E \cup {brk}) \ {prol} PROVE \E x \in E : x + zs[x] = y
  <2>1. CASE y = hi
    BY <1>7, <1>8, <1>9, <2>1
  <2>2. CASE y # hi
    <3>1. PICK x \in D : x + sz[x] = y
      BY <1>6, <1>8
    <3>2. x \in Nat /\ sz[x] \in Nat /\ sz[x] >= 8 /\ y \in Nat
      BY <1>3, <1>4, <3>1
    <3>3. ~(lo <= x /\ x < hi)
      <4> SUFFICES ASSUME lo <= x, x < hi PROVE FALSE
        OBVIOUS
      <4>1. y <= hi
        <5>1. CASE hi = brk
          BY <1>4, <1>3, <3>1, <3>2, <5>1
        <5>2. CASE hi \in D
          BY <1>5, <3>1, <5>2
        <5> QED
          BY <5>1, <5>2
      <4>2. y < hi /\ lo < y
        BY <1>7, <2>2, <3>1, <3>2, <4>1
      <4>3. y \in E
        BY <1>3, <1>7, <3>2, <4>2
      <4> QED
        BY <1>7, <1>8, <3>2, <4>2, <4>3
    <3>4. x \in E /\ x # lo
      BY <1>7, <1>8, <3>2, <3>3
    <3> QED
      BY <1>9, <3>1, <3>4
  <2> QED
    BY <2>1, <2>2
<1>14. Layout(prol, brk, E, zs)
  BY <1>3, <1>8, <1>10, <1>11, <1>12, <1>13 DEF Layout
<1> QED
  BY <1>1, <1>2, <1>14

\* The block lo is cut in two, behind its first n bytes.
CutSizes(D, sz, lo, n) ==
    [x \in D \cup {lo + n} |-> IF x = lo THEN n
                               ELSE IF x = lo + n THEN sz[lo] - n ELSE sz[x]]

LEMMA LayoutCut ==
  ASSUME NEW prol, NEW brk, NEW D, NEW sz, Layout(prol, brk, D, sz),
         NEW lo \in D, lo # prol, NEW n \in Nat, n % 8 = 0, n >= 16, n + 16 <= sz[lo]
  PROVE  Layout(prol, brk, D \cup {lo + n}, CutSizes(D, sz, lo, n)) /\ lo + n \notin D
<1>1. PICK mid, E : mid = lo + n /\ E = D \cup {mid}
  OBVIOUS
<1>2. PICK zs : zs = CutSizes(D, sz, lo, n)
  OBVIOUS
<1>3. /\ prol = Start + 8 /\ prol \in D /\ sz \in [D -> Nat]
      /\ brk \in Nat /\ brk % 8 = 0 /\ brk <= Start + MAX_HEAP
  BY DEF Layout
<1>4. \A x \in D : /\ x \in Nat /\ x % 8 = 0 /\ prol <= x /\ x < brk
                   /\ sz[x] % 8 = 0 /\ sz[x] >= 8 /\ (x # prol => sz[x] >= 16)
                   /\ x + sz[x] \in D \cup {brk}
  BY DEF Layout
<1>5. \A x, y \in D : x < y => x + sz[x] <= y
  BY DEF Layout
<1>6. \A y \in (D \cup {brk}) \ {prol} : \E x \in D : x + sz[x] = y
  BY DEF Layout
<1>7. PICK hi, m : hi = lo + sz[lo] /\ m = sz[lo] - n
  OBVIOUS
<1>8. /\ lo \in Nat /\ mid \in Nat /\ hi \in Nat /\ m \in Nat /\ m >= 16 /\ m % 8 = 0
      /\ lo % 8 = 0 /\ mid % 8 = 0 /\ lo < mid /\ mid < hi /\ mid + m = hi /\ lo + n = mid
      /\ prol <= lo /\ hi <= brk /\ hi \in D \cup {brk}
  BY <1>1, <1>3, <1>4, <1>7
<1>9. mid \notin D
  BY <1>4, <1>5, <1>7, <1>8
<1>10. zs = [x \in E |-> IF x = lo THEN n ELSE IF x = mid THEN m ELSE sz[x]]
  BY <1>1, <1>2, <1>7 DEF CutSizes
<1>11. /\ zs[lo] = n /\ zs[mid] = m
       /\ \A x \in D \ {lo} : zs[x] = sz[x]
  BY <1>1, <1>8, <1>9, <1>10
<1>12. zs \in [E -> Nat]
  BY <1>1, <1>3, <1>8, <1>9, <1>10
<1>13. ASSUME NEW x \in E
       PROVE  /\ x \in Nat /\ x % 8 = 0 /\ prol <= x /\ x < brk
              /\ zs[x] % 8 = 0 /\ zs[x] >= 8 /\ (x # prol => zs[x] >= 16)
              /\ x + zs[x] \in E \cup {brk}
  <2>1. CASE x = lo
    <3>1. x + zs[x] = mid /\ zs[x] = n
      BY <1>8, <1>11, <2>1
    <3> QED
      BY <1>1, <1>4, <2>1, <3>1
  <2>2. CASE x = mid
    <3>1. x + zs[x] = hi /\ zs[x] = m
      BY <1>8, <1>11, <2>2
    <3>2. x \in Nat /\ x % 8 = 0 /\ prol <= x /\ x < brk
      BY <1>3, <1>4, <1>8, <2>2
    <3> QED
      BY <1>1, <1>8, <3>1, <3>2
  <2>3. CASE x \in D \ {lo}
    BY <1>1, <1>4, <1>11, <2>3
  <2> QED
    BY <1>1, <2>1, <2>2, <2>3
<1>14. ASSUME NEW x \in E, NEW y \in E, x < y PROVE x + zs[x] <= y
  <2>1. CASE x = lo
    <3>1. x + zs[x] = mid
      BY <1>8, <1>11, <2>1
    <3>2. y = mid \/ y \in D
      BY <1>1
    <3>3. y \in D => hi <= y /\ y \in Nat
      BY <1>4, <1>5, <1>7, <1>14, <2>1
    <3> QED
      BY <1>8, <3>1, <3>2, <3>3
  <2>2. CASE x = mid
    <3>1. x + zs[x] = hi /\ y \in D
      BY <1>1, <1>8, <1>11, <1>14, <2>2
    <3>2. lo < y
      BY <1>4, <1>8, <1>14, <2>2, <3>1
    <3> QED
      BY <1>5, <1>7, <3>1, <3>2
  <2>3. CASE x \in D \ {lo}
    <3>1. zs[x] = sz[x] /\ x \in Nat
      BY <1>4, <1>11, <2>3
    <3>2. CASE y \in D
      BY <1>5, <1>14, <2>3, <3>1, <3>2
    <3>3. CASE y = mid
      <4>1. x < lo
        <5>1. lo < x => hi <= x
          BY <1>5, <1>7, <2>3
        <5> QED
          BY <1>8, <1>14, <2>3, <3>1, <3>3, <5>1
      <4>2. x + sz[x] <= lo
        BY <1>5, <2>3, <4>1
      <4>3. sz[x] \in Nat
        BY <1>3, <2>3
      <4> QED
        BY <1>8, <3>1, <3>3, <4>2, <4>3
    <3> QED
      BY <1>1, <3>2, <3>3
  <2> QED
    BY <1>1, <2>1, <2>2, <2>3
<1>15. ASSUME NEW y \in (E \cup {brk}) \ {prol} PROVE \E x \in E : x + zs[x] = y
  <2>1. CASE y = mid
    BY <1>1, <1>8, <1>11, <2>1
  <2>2. CASE y # mid
    <3>1. PICK x \in D : x + sz[x] = y
      BY <1>1, <1>6, <2>2
    <3>2. CASE x = lo
      BY <1>1, <1>7, <1>8, <1>11, <3>1, <3>2
    <3>3. CASE x # lo
      BY <1>1, <1>11, <3>1, <3>3
    <3> QED
      BY <3>2, <3>3
  <2> QED
    BY <2>1, <2>2
<1>16. Layout(prol, brk, E, zs)
  BY <1>1, <1>3, <1>12, <1>13, <1>14, <1>15 DEF Layout
<1> QED
  BY <1>1, <1>2, <1>9, <1>16

\* The heap grows by a block of n bytes.
GrownSizes(D, sz, brk, n) == [x \in D \cup {brk} |-> IF x = brk THEN n ELSE sz[x]]

LEMMA LayoutGrown ==
  ASSUME NEW prol, NEW brk, NEW D, NEW sz, Layout(prol, brk, D, sz),
         NEW n \in Nat, n % 8 = 0, n >= 16, brk + n <= Start + MAX_HEAP
  PROVE  Layout(prol, brk + n, D \cup {brk}, GrownSizes(D, sz, brk, n)) /\ brk \notin D
<1>1. PICK top, E : top = brk + n /\ E = D \cup {brk}
  OBVIOUS
<1>2. PICK zs : zs = GrownSizes(D, sz, brk, n)
  OBVIOUS
<1>3. /\ prol = Start + 8 /\ prol \in D /\ sz \in [D -> Nat]
      /\ brk \in Nat /\ brk % 8 = 0 /\ brk <= Start + MAX_HEAP
  BY DEF Layout
<1>4. \A x \in D : /\ x \in Nat /\ x % 8 = 0 /\ prol <= x /\ x < brk
                   /\ sz[x] % 8 = 0 /\ sz[x] >= 8 /\ (x # prol => sz[x] >= 16)
                   /\ x + sz[x] \in D \cup {brk}
  BY DEF Layout
<1>5. \A x, y \in D : x < y => x + sz[x] <= y
  BY DEF Layout
<1>6. \A y \in (D \cup {brk}) \ {prol} : \E x \in D : x + sz[x] = y
  BY DEF Layout
<1>7. /\ top \in Nat /\ top % 8 = 0 /\ top <= Start + MAX_HEAP /\ brk < top
      /\ prol < brk /\ brk \notin D
  BY <1>1, <1>3, <1>4
<1>8. zs \in [E -> Nat] /\ zs[brk] = n /\ \A x \in D : zs[x] = sz[x]
  BY <1>1, <1>2, <1>3, <1>7 DEF GrownSizes
<1>9. ASSUME NEW x \in E
      PROVE  /\ x \in Nat /\ x % 8 = 0 /\ prol <= x /\ x < top
             /\ zs[x] % 8 = 0 /\ zs[x] >= 8 /\ (x # prol => zs[x] >= 16)
             /\ x + zs[x] \in E \cup {top}
  <2>1. CASE x = brk
    <3>1. x + zs[x] = top /\ zs[x] = n
      BY <1>1, <1>8, <2>1
    <3>2. x \in Nat /\ x % 8 = 0 /\ prol <= x /\ x < top
      BY <1>3, <1>4, <1>7, <2>1
    <3> QED
      BY <3>1, <3>2
  <2>2. CASE x \in D
    <3>1. zs[x] = sz[x] /\ x + zs[x] \in E
      BY <1>1, <1>4, <1>8, <2>2
    <3>2. x < top
      BY <1>3, <1>4, <1>7, <2>2
    <3> QED
      BY <1>4, <2>2, <3>1, <3>2
  <2> QED
    BY <1>1, <2>1, <2>2
<1>10. ASSUME NEW x \in E, NEW y \in E, x < y PROVE x + zs[x] <= y
  <2>1. x \in D
    BY <1>1, <1>3, <1>4, <1>10
  <2>2. CASE y \in D
    BY <1>5, <1>8, <1>10, <2>1, <2>2
  <2>3. CASE y = brk
    <3>1. x + sz[x] = brk \/ x + sz[x] < brk
      BY <1>4, <2>1
    <3>2. x \in Nat /\ sz[x] \in Nat
      BY <1>3, <1>4, <2>1
    <3> QED
      BY <1>3, <1>8, <2>1, <2>3, <3>1, <3>2
  <2> QED
    BY <1>1, <2>2, <2>3
<1>11. ASSUME NEW y \in (E \cup {top}) \ {prol} PROVE \E x \in E : x + zs[x] = y
  <2>1. CASE y = top
    BY <1>1, <1>8, <2>1
  <2>2. CASE y # top
    <3>1. PICK x \in D : x + sz[x] = y
      BY <1>1, <1>6, <2>2
    <3> QED
      BY <1>1, <1>8, <3>1
  <2> QED
    BY <2>1, <2>2
<1>12. Layout(prol, top, E, zs)
  BY <1>1, <1>3, <1>7, <1>8, <1>9, <1>10, <1>11 DEF Layout
<1> QED
  BY <1>1, <1>2, <1>7, <1>12

-----------------------------------------------------------------------------
(* Writes to the memory.                                                   *)

\* Header and footer are written and nothing else.
PutsTags(h, g, bp, n, tag) ==
    /\ g \in Heaps /\ g.brk = h.brk /\ g.prol = h.prol /\ g.root = h.root
    /\ g.mem[bp - 4] = tag /\ g.mem[bp + n - 8] = tag
    /\ \A a \in Addr \ {bp - 4, bp + n - 8} : g.mem[a] = h.mem[a]

LEMMA PutTagsIs ==
  ASSUME NEW h \in Heaps, NEW bp \in Int, NEW n \in Nat, n % 8 = 0, NEW e \in {0, 1},
         bp - 4 \in Addr, bp + n - 8 \in Addr
  PROVE  PutsTags(h, PutTags(h, bp, n, e), bp, n, n + e)
<1>1. n + e \in Nat /\ ((n + e) \div 8) * 8 = n
  BY TagFields
<1>2. PICK d : d = PUT(h, bp - 4, n + e)
  OBVIOUS
<1>3. /\ d \in Heaps /\ d.brk = h.brk /\ d.prol = h.prol /\ d.root = h.root
      /\ d.mem[bp - 4] = n + e /\ \A a \in Addr \ {bp - 4} : d.mem[a] = h.mem[a]
  BY <1>1, <1>2 DEF PUT, Heaps
<1>4. FTRP(d, bp) = bp + n - 8
  BY <1>1, <1>3 DEF FTRP, GET_SIZE, HDRP, WSIZE, DSIZE
<1>5. PICK g : g = PUT(d, bp + n - 8, n + e)
  OBVIOUS
<1>6. /\ g \in Heaps /\ g.brk = d.brk /\ g.prol = d.prol /\ g.root = d.root
      /\ g.mem[bp + n - 8] = n + e /\ \A a \in Addr \ {bp + n - 8} : g.mem[a] = d.mem[a]
  BY <1>1, <1>3, <1>5 DEF PUT, Heaps
<1>7. PutTags(h, bp, n, e) = g
  BY <1>2, <1>4, <1>5 DEF PutTags, PutFooter, PACK, HDRP, WSIZE
<1>8. g.mem[bp - 4] = n + e
  BY <1>3, <1>6
<1>9. PutsTags(h, g, bp, n, n + e)
  BY <1>3, <1>6, <1>8 DEF PutsTags
<1> QED
  BY <1>7, <1>9

\* What the tags of the block x say.
Reads(h, sz, al, x) ==
    /\ GET_SIZE(h, HDRP(x)) = sz[x] /\ NEXT_BLKP(h, x) = x + sz[x]
    /\ FTRP(h, x) = x + sz[x] - 8 /\ GET_SIZE(h, FTRP(h, x)) = sz[x]
    /\ GET_ALLOC(h, HDRP(x)) = 0 <=> x \notin al
    /\ GET_ALLOC(h, FTRP(h, x)) = 0 <=> x \notin al
    /\ PREV_BLKP(h, x + sz[x]) = x

LEMMA TagsRead ==
  ASSUME NEW h, NEW D, NEW sz, NEW al, Layout(h.prol, h.brk, D, sz), Tagged(h, D, sz, al),
         NEW x \in D
  PROVE  Reads(h, sz, al, x)
<1>1. x \in Nat /\ sz[x] \in Nat /\ sz[x] % 8 = 0
  BY DEF Layout
<1>2. PICK n \in Nat : n = sz[x]
  BY <1>1
<1>3. PICK e \in {0, 1} : (e = 0 <=> x \notin al) /\ Tag(sz, al, x) = n + e
  BY <1>2 DEF Tag
<1>4. h.mem[x - 4] = n + e /\ h.mem[x + n - 8] = n + e
  BY <1>2, <1>3 DEF Tagged
<1>5. ((n + e) \div 8) * 8 = n /\ (n + e) % 2 = e
  BY <1>1, <1>2, TagFields
<1>6. GET_SIZE(h, x - 4) = n /\ GET_SIZE(h, x + n - 8) = n
      /\ GET_ALLOC(h, x - 4) = e /\ GET_ALLOC(h, x + n - 8) = e
  BY <1>4, <1>5 DEF GET_SIZE, GET_ALLOC
<1>7. HDRP(x) = x - 4 /\ FTRP(h, x) = x + n - 8 /\ NEXT_BLKP(h, x) = x + n
  BY <1>6 DEF HDRP, FTRP, NEXT_BLKP, WSIZE, DSIZE
<1>8. PREV_BLKP(h, x + n) = x
  BY <1>1, <1>2, <1>6 DEF PREV_BLKP, DSIZE
<1> QED
  BY <1>2, <1>3, <1>6, <1>7, <1>8 DEF Reads

LEMMA EpilogueReads ==
  ASSUME NEW h, NEW D, NEW sz, NEW al, Tagged(h, D, sz, al)
  PROVE  GET_SIZE(h, HDRP(h.brk)) = 0 /\ GET_ALLOC(h, HDRP(h.brk)) # 0
BY DEF Tagged, GET_SIZE, GET_ALLOC, HDRP, WSIZE

\* What differs is from lo on and before hi, or in the payload of blocks of X.
Touches(h, g, sz, lo, hi, X) ==
    \A a \in Addr : \/ g.mem[a] = h.mem[a]
                    \/ lo - 4 <= a /\ a < hi - 4
                    \/ \E x \in X : x <= a /\ a < x + sz[x] - 8

LEMMA TouchesOn ==
  ASSUME NEW h, NEW g, NEW k, NEW sz, NEW lo, NEW hi, NEW X,
         Touches(h, g, sz, lo, hi, X), Touches(g, k, sz, lo, hi, X)
  PROVE  Touches(h, k, sz, lo, hi, X)
BY DEF Touches

\* The tags of the blocks outside of a region, and the epilogue.
TagsSame(h, g, D, sz, brk, lo, hi) ==
    /\ \A x \in D : x < lo \/ hi <= x => /\ g.mem[x - 4] = h.mem[x - 4]
                                        /\ g.mem[x + sz[x] - 8] = h.mem[x + sz[x] - 8]
    /\ g.mem[brk - 4] = h.mem[brk - 4]

\* Tags outside are as they were.
LEMMA TagsUntouched ==
  ASSUME NEW h, NEW g, NEW D, NEW sz, NEW lo \in Nat, NEW hi \in Nat,
         NEW prol, NEW brk, Layout(prol, brk, D, sz), Touches(h, g, sz, lo, hi, D),
         hi <= brk, lo <= hi, lo \in D \cup {brk}
  PROVE  TagsSame(h, g, D, sz, brk, lo, hi)
<1>1. brk \in Nat /\ \A x \in D : x \in Nat /\ sz[x] \in Nat /\ sz[x] >= 8 /\ x + sz[x] <= brk
  BY DEF Layout
<1>2. ASSUME NEW x \in D, x < lo \/ hi <= x
      PROVE  /\ g.mem[x - 4] = h.mem[x - 4] /\ g.mem[x + sz[x] - 8] = h.mem[x + sz[x] - 8]
  <2>1. x - 4 \in Addr /\ x + sz[x] - 8 \in Addr
    BY BlockWords
  <2>2. PICK z \in Nat : z = sz[x] /\ z >= 8
    BY <1>1
  <2>3. ASSUME NEW y \in D, NEW a \in {x - 4, x + z - 8}, y <= a, a < y + sz[y] - 8 PROVE FALSE
    BY <1>1, <2>2, <2>3, PayloadApart
  <2>4. x < lo => x + z <= lo
    <3>1. lo \in D => (x < lo => x + sz[x] <= lo)
      BY DEF Layout
    <3> QED
      BY <1>1, <2>2, <3>1
  <2>5. \A a \in {x - 4, x + z - 8} : ~(lo - 4 <= a /\ a < hi - 4)
    BY <1>1, <1>2, <2>2, <2>4
  <2> QED
    BY <2>1, <2>2, <2>3, <2>5 DEF Touches
<1>3. g.mem[brk - 4] = h.mem[brk - 4]
  <2>1. PICK x \in D : TRUE
    BY DEF Layout
  <2>2. brk - 4 \in Addr
    BY BlockWords
  <2>3. ASSUME NEW y \in D, y <= brk - 4, brk - 4 < y + sz[y] - 8 PROVE FALSE
    BY <1>1, <2>3
  <2>4. ~(brk - 4 < hi - 4)
    BY <1>1
  <2> QED
    BY <2>2, <2>3, <2>4 DEF Touches
<1> QED
  BY <1>2, <1>3 DEF TagsSame

\* Blocks outside keep their contents.
LEMMA ContentsUntouched ==
  ASSUME NEW h, NEW g, NEW D, NEW sz, NEW lo \in Nat, NEW hi \in Nat,
         NEW prol, NEW brk, Layout(prol, brk, D, sz), lo <= hi, lo \in D \cup {brk},
         NEW X \in SUBSET D, Touches(h, g, sz, lo, hi, X),
         NEW Y \in SUBSET (D \ X), \A y \in Y : y < lo \/ hi <= y,
         NEW zs, \A y \in Y : zs[y] = sz[y]
  PROVE  Kept(h, g, sz, zs, Y)
<1>1. brk \in Nat /\ \A x \in D : x \in Nat /\ sz[x] \in Nat /\ sz[x] >= 8 /\ x + sz[x] <= brk
  BY DEF Layout
<1>2. ASSUME NEW y \in Y, NEW a \in Addr, y <= a, a < y + sz[y] - 8
      PROVE  g.mem[a] = h.mem[a]
  <2>1. a \in Int
    BY AddrIsNat
  <2>2. ASSUME NEW x \in X, x <= a, a < x + sz[x] - 8 PROVE FALSE
    BY <1>2, <2>1, <2>2, PayloadApart
  <2>3. y < lo => y + sz[y] <= lo
    <3>1. lo \in D => (y < lo => y + sz[y] <= lo)
      BY DEF Layout
    <3> QED
      BY <1>1, <3>1
  <2>4. ~(lo - 4 <= a /\ a < hi - 4)
    BY <1>1, <1>2, <2>1, <2>3
  <2> QED
    BY <2>2, <2>4 DEF Touches
<1> QED
  BY <1>2 DEF Kept

LEMMA TiledJoined ==
  ASSUME NEW h, NEW D, NEW sz, NEW al, Tiled(h, D, sz, al),
         NEW lo \in D, NEW hi \in D \cup {h.brk}, lo < hi, lo # h.prol, NEW e \in {0, 1},
         NEW g \in Heaps, g.brk = h.brk, g.prol = h.prol, Touches(h, g, sz, lo, hi, D),
         g.mem[lo - 4] = hi - lo + e, g.mem[hi - 8] = hi - lo + e,
         NEW al2, al2 = {x \in al : x < lo \/ hi <= x} \cup (IF e = 1 THEN {lo} ELSE {})
  PROVE  Tiled(g, JoinedTo(D, lo, hi), JoinedSizes(D, sz, lo, hi), al2)
<1>1. PICK E : E = JoinedTo(D, lo, hi)
  OBVIOUS
<1>2. PICK zs : zs = JoinedSizes(D, sz, lo, hi)
  OBVIOUS
<1>3. Layout(h.prol, h.brk, D, sz) /\ Tagged(h, D, sz, al) /\ h.prol \in al /\ al \subseteq D
  BY DEF Tiled
<1>4. Layout(g.prol, g.brk, E, zs)
  BY <1>1, <1>2, <1>3, LayoutJoined, Zenon
<1>5. /\ lo \in Nat /\ hi \in Nat /\ hi <= h.brk /\ h.brk \in Nat /\ h.prol <= lo /\ h.prol \in Nat
      /\ \A x \in D : x \in Nat /\ sz[x] \in Nat
  <2>1. /\ h.prol \in Nat /\ h.brk \in Nat
        /\ \A x \in D : x \in Nat /\ h.prol <= x /\ x < h.brk /\ sz[x] \in Nat
    BY <1>3, LayoutFacts
  <2> QED
    BY <2>1
<1>6. /\ \A x \in D : x < lo \/ hi <= x => /\ g.mem[x - 4] = h.mem[x - 4]
                                          /\ g.mem[x + sz[x] - 8] = h.mem[x + sz[x] - 8]
      /\ g.mem[h.brk - 4] = h.mem[h.brk - 4]
  <2>1. lo <= hi /\ lo \in D \cup {h.brk}
    BY <1>5
  <2>2. TagsSame(h, g, D, sz, h.brk, lo, hi)
    BY <1>3, <1>5, <2>1, TagsUntouched, Zenon
  <2> QED
    BY <2>2, Zenon DEF TagsSame
<1>7. /\ E = {x \in D : x <= lo \/ hi <= x} /\ zs[lo] = hi - lo
      /\ \A x \in E \ {lo} : zs[x] = sz[x] /\ (x < lo \/ hi <= x)
  <2>1. E = {x \in D : x <= lo \/ hi <= x}
    BY <1>1 DEF JoinedTo
  <2>2. zs = [x \in E |-> IF x = lo THEN hi - lo ELSE sz[x]]
    BY <1>1, <1>2 DEF JoinedSizes
  <2>3. lo \in E /\ \A x \in E \ {lo} : x < lo \/ hi <= x
    BY <1>5, <2>1
  <2> QED
    BY <2>1, <2>2, <2>3
<1>8. ASSUME NEW x \in E
      PROVE  g.mem[x - 4] = Tag(zs, al2, x) /\ g.mem[x + zs[x] - 8] = Tag(zs, al2, x)
  <2>1. CASE x = lo
    <3>1. lo \in al2 <=> e = 1
      BY <1>5
    <3>2. Tag(zs, al2, x) = hi - lo + e
      BY <1>5, <1>7, <2>1, <3>1 DEF Tag
    <3>3. x + zs[x] - 8 = hi - 8
      BY <1>5, <1>7, <2>1
    <3> QED
      BY <2>1, <3>2, <3>3
  <2>2. CASE x # lo
    <3>1. zs[x] = sz[x] /\ (x < lo \/ hi <= x) /\ x \in D
      BY <1>7, <2>2
    <3>2. x \in al2 <=> x \in al
      BY <2>2, <3>1
    <3>3. Tag(zs, al2, x) = Tag(sz, al, x)
      BY <3>1, <3>2 DEF Tag
    <3>4. h.mem[x - 4] = Tag(sz, al, x) /\ h.mem[x + sz[x] - 8] = Tag(sz, al, x)
      BY <1>3, <3>1 DEF Tagged
    <3> QED
      BY <1>6, <3>1, <3>3, <3>4
  <2> QED
    BY <2>1, <2>2
<1>9. Tagged(g, E, zs, al2)
  <2>1. g.mem[g.brk - 4] = 1
    BY <1>3, <1>6 DEF Tagged
  <2> QED
    BY <1>8, <2>1 DEF Tagged
<1>10. g.prol \in al2 /\ al2 \subseteq E
  <2>1. h.prol < lo /\ lo \in E
    BY <1>5, <1>7
  <2>2. \A x \in al : x < lo \/ hi <= x => x \in E
    BY <1>3, <1>5, <1>7
  <2> QED
    BY <1>3, <2>1, <2>2
<1> QED
  BY <1>1, <1>2, <1>4, <1>9, <1>10 DEF Tiled

\* From lo to hi there is an allocated block of n bytes and a free one.
SplitTo(D, lo, hi, n) == JoinedTo(D, lo, hi) \cup {lo + n}
SplitSizes(D, sz, lo, hi, n) == CutSizes(JoinedTo(D, lo, hi), JoinedSizes(D, sz, lo, hi), lo, n)

SplitIs(E, cs, D, sz, lo, hi, n) ==
    /\ E = {x \in D : x <= lo \/ hi <= x} \cup {lo + n}
    /\ cs[lo] = n /\ cs[lo + n] = hi - lo - n
    /\ \A x \in D : x < lo \/ hi <= x => cs[x] = sz[x]

LEMMA SplitBlocks ==
  ASSUME NEW D, NEW sz, NEW lo \in D, NEW hi \in Int, NEW n \in Nat, n > 0, n < hi - lo,
         D \subseteq Nat
  PROVE  SplitIs(SplitTo(D, lo, hi, n), SplitSizes(D, sz, lo, hi, n), D, sz, lo, hi, n)
<1>1. PICK E, zs : E = JoinedTo(D, lo, hi) /\ zs = JoinedSizes(D, sz, lo, hi)
  OBVIOUS
<1>2. /\ E = {x \in D : x <= lo \/ hi <= x} /\ lo \in E /\ lo \in Nat
      /\ zs[lo] = hi - lo /\ \A x \in E \ {lo} : zs[x] = sz[x]
  BY <1>1 DEF JoinedTo, JoinedSizes
<1>3. PICK cs : cs = CutSizes(E, zs, lo, n)
  OBVIOUS
<1>4. cs[lo] = n /\ cs[lo + n] = zs[lo] - n
  BY <1>2, <1>3 DEF CutSizes
<1>5. ASSUME NEW x \in D, x < lo \/ hi <= x PROVE cs[x] = sz[x]
  <2>1. x \in E /\ x # lo /\ x # lo + n
    BY <1>2, <1>5
  <2> QED
    BY <1>2, <1>3, <2>1 DEF CutSizes
<1> QED
  BY <1>1, <1>2, <1>3, <1>4, <1>5 DEF SplitTo, SplitSizes, SplitIs

LEMMA TiledSplit ==
  ASSUME NEW h, NEW D, NEW sz, NEW al, Tiled(h, D, sz, al),
         NEW lo \in D, NEW hi \in D \cup {h.brk}, lo # h.prol,
         NEW n \in Nat, n % 8 = 0, n >= 16, lo + n + 16 <= hi,
         NEW g \in Heaps, g.brk = h.brk, g.prol = h.prol, Touches(h, g, sz, lo, hi, D),
         g.mem[lo - 4] = n + 1, g.mem[lo + n - 8] = n + 1,
         g.mem[lo + n - 4] = hi - lo - n, g.mem[hi - 8] = hi - lo - n,
         NEW al2, al2 = {x \in al : x < lo \/ hi <= x} \cup {lo}
  PROVE  Tiled(g, SplitTo(D, lo, hi, n), SplitSizes(D, sz, lo, hi, n), al2)
<1>1. PICK E, cs, mid : /\ E = SplitTo(D, lo, hi, n) /\ cs = SplitSizes(D, sz, lo, hi, n)
                        /\ mid = lo + n
  OBVIOUS
<1>2. Layout(h.prol, h.brk, D, sz) /\ Tagged(h, D, sz, al) /\ h.prol \in al /\ al \subseteq D
  BY DEF Tiled
<1>3. /\ lo \in Nat /\ hi \in Nat /\ hi <= h.brk /\ h.brk \in Nat /\ h.prol <= lo /\ h.prol \in Nat
      /\ \A x \in D : x \in Nat /\ sz[x] \in Nat
  <2>1. /\ h.prol \in Nat /\ h.brk \in Nat
        /\ \A x \in D : x \in Nat /\ h.prol <= x /\ x < h.brk /\ sz[x] \in Nat
    BY <1>2, LayoutFacts
  <2> QED
    BY <2>1
<1>4. lo < hi /\ n < hi - lo /\ n > 0 /\ hi \in Int /\ D \subseteq Nat /\ n + 16 <= hi - lo
  BY <1>3
<1>5. Layout(g.prol, g.brk, E, cs) /\ mid \notin JoinedTo(D, lo, hi)
  <2>1. Layout(h.prol, h.brk, JoinedTo(D, lo, hi), JoinedSizes(D, sz, lo, hi))
    BY <1>2, <1>4, LayoutJoined, Zenon
  <2>2. lo \in JoinedTo(D, lo, hi) /\ JoinedSizes(D, sz, lo, hi)[lo] = hi - lo
    BY <1>3 DEF JoinedTo, JoinedSizes
  <2>3. n + 16 <= JoinedSizes(D, sz, lo, hi)[lo]
    BY <1>4, <2>2
  <2>4. Layout(h.prol, h.brk, JoinedTo(D, lo, hi) \cup {lo + n},
               CutSizes(JoinedTo(D, lo, hi), JoinedSizes(D, sz, lo, hi), lo, n))
        /\ lo + n \notin JoinedTo(D, lo, hi)
    BY <2>1, <2>2, <2>3, LayoutCut, Zenon
  <2> QED
    BY <1>1, <2>4 DEF SplitTo, SplitSizes
<1>6. /\ E = {x \in D : x <= lo \/ hi <= x} \cup {mid} /\ cs[lo] = n /\ cs[mid] = hi - lo - n
      /\ \A x \in D : x < lo \/ hi <= x => cs[x] = sz[x]
  <2>1. SplitIs(SplitTo(D, lo, hi, n), SplitSizes(D, sz, lo, hi, n), D, sz, lo, hi, n)
    BY <1>4, SplitBlocks, Zenon
  <2> QED
    BY <1>1, <2>1, Zenon DEF SplitIs
<1>7. /\ \A x \in D : x < lo \/ hi <= x => /\ g.mem[x - 4] = h.mem[x - 4]
                                          /\ g.mem[x + sz[x] - 8] = h.mem[x + sz[x] - 8]
      /\ g.mem[h.brk - 4] = h.mem[h.brk - 4]
  <2>1. lo <= hi /\ lo \in D \cup {h.brk}
    BY <1>3, <1>4
  <2>2. TagsSame(h, g, D, sz, h.brk, lo, hi)
    BY <1>2, <1>3, <2>1, TagsUntouched, Zenon
  <2> QED
    BY <2>2, Zenon DEF TagsSame
<1>8. ASSUME NEW x \in E
      PROVE  g.mem[x - 4] = Tag(cs, al2, x) /\ g.mem[x + cs[x] - 8] = Tag(cs, al2, x)
  <2>1. CASE x = lo
    BY <1>3, <1>6, <2>1 DEF Tag
  <2>2. CASE x = mid
    <3>1. mid \notin al2 /\ mid - 4 = lo + n - 4 /\ mid + (hi - lo - n) - 8 = hi - 8
      BY <1>1, <1>2, <1>3, <1>4
    <3> QED
      BY <1>1, <1>6, <2>2, <3>1 DEF Tag
  <2>3. CASE x # lo /\ x # mid
    <3>0. x \in D /\ (x <= lo \/ hi <= x)
      BY <1>6, <2>3
    <3>1. x \in D /\ (x < lo \/ hi <= x)
      <4>1. x \in Nat /\ lo \in Nat
        BY <1>3, <3>0
      <4> QED
        BY <3>0, <4>1, <2>3
    <3>2. cs[x] = sz[x]
      BY <1>6, <3>1
    <3>3. x \in al2 <=> x \in al
      BY <2>3, <3>1
    <3>4. Tag(cs, al2, x) = Tag(sz, al, x)
      BY <3>2, <3>3 DEF Tag
    <3>5. h.mem[x - 4] = Tag(sz, al, x) /\ h.mem[x + sz[x] - 8] = Tag(sz, al, x)
      BY <1>2, <3>1 DEF Tagged
    <3> QED
      BY <1>7, <3>1, <3>2, <3>4, <3>5
  <2> QED
    BY <2>1, <2>2, <2>3
<1>9. Tagged(g, E, cs, al2)
  <2>1. g.mem[g.brk - 4] = 1
    BY <1>2, <1>7 DEF Tagged
  <2> QED
    BY <1>8, <2>1 DEF Tagged
<1>10. g.prol \in al2 /\ al2 \subseteq E
  <2>1. h.prol < lo /\ lo \in E
    BY <1>3, <1>6
  <2>2. \A x \in al : x < lo \/ hi <= x => x \in E
    BY <1>2, <1>3, <1>6
  <2> QED
    BY <1>2, <2>1, <2>2
<1> QED
  BY <1>1, <1>5, <1>9, <1>10 DEF Tiled

-----------------------------------------------------------------------------
(* The free list.                                                          *)

\* The two words of a block that the list uses.
Cells(X) == \A x \in X : x \in Nat /\ x % 8 = 0 /\ x > 0 /\ x \in Addr /\ x + 4 \in Addr

\* g is h with other links in the blocks X.
Relinks(h, g, X) ==
    /\ g \in Heaps /\ g.brk = h.brk /\ g.prol = h.prol
    /\ \A a \in Addr : g.mem[a] = h.mem[a] \/ \E x \in X : a = x \/ a = x + 4

LEMMA CutFirst ==
  ASSUME NEW h \in Heaps, NEW F, Cells(F \cup {h.prol}), h.prol \notin F,
         NEW n, NEW s, Chain(h, F, n, s), NEW bp \in F, bp = h.root
  PROVE  Linked(cut_out(h, bp), F \ {bp}) /\ Relinks(h, cut_out(h, bp), F \cup {h.prol})
<1>1. n \in Nat /\ n > 0
  BY DEF Chain
<1>2. s[0] = bp /\ s[1] = h.mem[bp] /\ s[1] \in F \cup {h.prol}
  BY <1>1 DEF Chain
<1>3. PICK m \in Nat : m = n - 1
  BY <1>1
<1>4. PICK t : t = [k \in 0 .. m |-> s[k + 1]]
  OBVIOUS
<1>5. PICK g : g = [h EXCEPT !.root = s[1], !.mem[s[1] + 4] = NULL]
  OBVIOUS
<1>6. cut_out(h, bp) = g
  BY <1>2, <1>5 DEF cut_out, GET, SUCCP, PREDP, WSIZE
<1>7. /\ g \in Heaps /\ g.brk = h.brk /\ g.prol = h.prol /\ g.root = s[1]
      /\ g.mem[s[1] + 4] = 0 /\ \A a \in Addr \ {s[1] + 4} : g.mem[a] = h.mem[a]
  BY <1>2, <1>5 DEF Heaps, Cells, NULL
<1>8. Chain(g, F \ {bp}, m, t)
  <2>1. t \in [0 .. m -> (F \ {bp}) \cup {g.prol}]
    <3>1. ASSUME NEW k \in 0 .. m PROVE s[k + 1] \in (F \ {bp}) \cup {h.prol}
      <4>1. k + 1 \in 0 .. n /\ k + 1 # 0 /\ 0 \in 0 .. n
        BY <1>1, <1>3
      <4>2. s[k + 1] \in F \cup {h.prol} /\ s[k + 1] # s[0]
        BY <4>1 DEF Chain
      <4> QED
        BY <1>2, <4>2
    <3> QED
      BY <1>4, <1>7, <3>1
  <2>2. t[0] = g.root /\ t[m] = g.prol
    BY <1>1, <1>3, <1>4, <1>7 DEF Chain
  <2>3. ASSUME NEW k \in 0 .. m - 1
        PROVE  t[k] \in F \ {bp} /\ g.mem[t[k]] = t[k + 1] /\ g.mem[t[k + 1] + 4] = t[k]
    <3>1. k + 1 \in 0 .. n - 1 /\ k + 1 \in 0 .. n /\ k + 2 \in 0 .. n /\ 0 \in 0 .. n /\ 1 \in 0 .. n
      BY <1>1, <1>3
    <3>2. /\ s[k + 1] \in F /\ h.mem[s[k + 1]] = s[(k + 1) + 1] /\ h.mem[s[(k + 1) + 1] + 4] = s[k + 1]
      BY <3>1 DEF Chain
    <3>3. s[k + 1] # s[0] /\ s[k + 2] # s[1]
      BY <3>1 DEF Chain
    <3>4. (k + 1) + 1 = k + 2 /\ k \in 0 .. m /\ k + 1 \in 0 .. m
      BY <1>3
    <3>5. t[k] = s[k + 1] /\ t[k + 1] = s[k + 2]
      BY <1>4, <3>4
    <3>6. s[k + 2] \in F \cup {h.prol}
      BY <3>1 DEF Chain
    <3>7. /\ s[k + 1] \in Addr /\ s[k + 1] # s[1] + 4
          /\ s[k + 2] + 4 \in Addr /\ s[k + 2] + 4 # s[1] + 4
      BY <1>2, <3>2, <3>3, <3>6 DEF Cells
    <3> QED
      BY <1>2, <1>7, <3>2, <3>3, <3>4, <3>5, <3>7
  <2>4. ASSUME NEW x \in F \ {bp} PROVE \E k \in 0 .. m - 1 : t[k] = x
    <3>1. PICK k \in 0 .. n - 1 : s[k] = x
      BY DEF Chain
    <3>2. k # 0
      BY <1>2, <3>1
    <3>3. k - 1 \in 0 .. m - 1 /\ k - 1 \in 0 .. m /\ (k - 1) + 1 = k
      BY <1>1, <1>3, <3>2
    <3>4. t[k - 1] = x
      BY <1>4, <3>1, <3>3
    <3> QED
      BY <3>3, <3>4
  <2>5. ASSUME NEW j \in 0 .. m, NEW k \in 0 .. m, t[j] = t[k] PROVE j = k
    <3>1. j + 1 \in 0 .. n /\ k + 1 \in 0 .. n /\ s[j + 1] = s[k + 1]
      BY <1>1, <1>3, <1>4, <2>5
    <3>2. j + 1 = k + 1
      BY <3>1 DEF Chain
    <3> QED
      BY <3>2
  <2>6. g.mem[t[0] + 4] = NULL
    BY <1>4, <1>7 DEF NULL
  <2> QED
    BY <2>1, <2>2, <2>3, <2>4, <2>5, <2>6 DEF Chain
<1>9. Relinks(h, g, F \cup {h.prol})
  BY <1>2, <1>7 DEF Relinks
<1> QED
  BY <1>6, <1>8, <1>9 DEF Linked

LEMMA CutLater ==
  ASSUME NEW h \in Heaps, NEW F, Cells(F \cup {h.prol}), h.prol \notin F,
         NEW n, NEW s, Chain(h, F, n, s), NEW bp \in F, bp # h.root
  PROVE  Linked(cut_out(h, bp), F \ {bp}) /\ Relinks(h, cut_out(h, bp), F \cup {h.prol})
<1>1. PICK j \in 0 .. n - 1 : s[j] = bp
  BY DEF Chain
<1>2. n \in Nat /\ j \in Nat /\ j > 0 /\ j < n
  <2>1. n \in Nat /\ s[0] = h.root
    BY DEF Chain
  <2> QED
    BY <1>1, <2>1
<1>3. /\ s[j - 1] \in F /\ s[j + 1] \in F \cup {h.prol} /\ h.mem[bp] = s[j + 1]
      /\ h.mem[bp + 4] = s[j - 1] /\ s[j - 1] # s[j + 1]
  <2>1. /\ j - 1 \in 0 .. n - 1 /\ (j - 1) + 1 = j /\ j + 1 \in 0 .. n /\ j - 1 \in 0 .. n
        /\ j - 1 # j + 1
    BY <1>2
  <2>2. s[j - 1] \in F /\ h.mem[s[(j - 1) + 1] + 4] = s[j - 1]
    BY <2>1 DEF Chain
  <2>3. s[j + 1] \in F \cup {h.prol} /\ h.mem[s[j]] = s[j + 1] /\ s[j - 1] # s[j + 1]
    BY <1>1, <2>1 DEF Chain
  <2> QED
    BY <1>1, <2>1, <2>2, <2>3
<1>4. PICK m \in Nat : m = n - 1
  BY <1>2
<1>5. PICK t : t = [k \in 0 .. m |-> IF k < j THEN s[k] ELSE s[k + 1]]
  OBVIOUS
<1>6. PICK p, q : p = s[j - 1] /\ q = s[j + 1]
  OBVIOUS
<1>7. PICK g : g = [h EXCEPT !.mem[p] = q, !.mem[q + 4] = p]
  OBVIOUS
<1>8. cut_out(h, bp) = g
  BY <1>3, <1>6, <1>7 DEF cut_out, GET, SUCCP, PREDP, WSIZE
<1>9. /\ p \in Nat /\ q \in Nat /\ p % 8 = 0 /\ q % 8 = 0 /\ p \in Addr /\ q + 4 \in Addr /\ p # q + 4
  BY <1>3, <1>6 DEF Cells
<1>10. /\ g \in Heaps /\ g.brk = h.brk /\ g.prol = h.prol /\ g.root = h.root
       /\ g.mem[p] = q /\ g.mem[q + 4] = p
       /\ \A a \in Addr \ {p, q + 4} : g.mem[a] = h.mem[a]
  BY <1>7, <1>9 DEF Heaps
<1>11. ASSUME NEW k \in 0 .. m
       PROVE  /\ k \in 0 .. n /\ k + 1 \in 0 .. n
              /\ k < j => t[k] = s[k]
              /\ k >= j => t[k] = s[k + 1]
  BY <1>2, <1>4, <1>5
<1>12. Chain(g, F \ {bp}, m, t)
  <2>1. ASSUME NEW k \in 0 .. m PROVE t[k] \in (F \ {bp}) \cup {h.prol}
    <3>1. PICK i \in 0 .. n : i # j /\ t[k] = s[i]
      <4>1. CASE k < j
        BY <1>2, <1>11, <4>1
      <4>2. CASE k >= j
        BY <1>2, <1>11, <4>2
      <4> QED
        BY <1>2, <4>1, <4>2
    <3>2. s[i] \in F \cup {h.prol} /\ s[i] # s[j]
      BY <1>2, <3>1 DEF Chain
    <3> QED
      BY <1>1, <3>1, <3>2
  <2>2. t \in [0 .. m -> (F \ {bp}) \cup {g.prol}]
    BY <1>5, <1>10, <2>1
  <2>3. t[0] = g.root /\ t[m] = g.prol
    <3>1. 0 \in 0 .. m /\ m \in 0 .. m /\ m >= j /\ m + 1 = n
      BY <1>2, <1>4
    <3>2. t[0] = s[0] /\ t[m] = s[n]
      BY <1>2, <1>11, <3>1
    <3> QED
      BY <1>10, <3>2 DEF Chain
  <2>4. ASSUME NEW k \in 0 .. m - 1
        PROVE  t[k] \in F \ {bp} /\ g.mem[t[k]] = t[k + 1] /\ g.mem[t[k + 1] + 4] = t[k]
    <3>1. k \in 0 .. m /\ k + 1 \in 0 .. m /\ (k + 1) + 1 = k + 2 /\ k + 2 \in 0 .. n
          /\ k \in 0 .. n - 1 /\ k + 1 \in 0 .. n - 1
      BY <1>2, <1>4
    <3>2. CASE k + 1 = j
      <4>1. t[k] = p /\ t[k + 1] = q
        BY <1>2, <1>6, <1>11, <3>1, <3>2
      <4>2. p \in F \ {bp}
        BY <1>3, <1>6, <2>1, <3>1, <4>1
      <4> QED
        BY <1>10, <4>1, <4>2
    <3>3. ASSUME NEW i \in 0 .. n - 1, i # j, i # j - 1, t[k] = s[i], t[k + 1] = s[i + 1]
          PROVE  t[k] \in F \ {bp} /\ g.mem[t[k]] = t[k + 1] /\ g.mem[t[k + 1] + 4] = t[k]
      <4>1. s[i] \in F /\ h.mem[s[i]] = s[i + 1] /\ h.mem[s[i + 1] + 4] = s[i]
        BY <3>3 DEF Chain
      <4>2. /\ i + 1 \in 0 .. n /\ i \in 0 .. n /\ i + 1 # j + 1 /\ j + 1 \in 0 .. n /\ j - 1 \in 0 .. n
            /\ j \in 0 .. n
        BY <1>2, <3>3
      <4>3. s[i] # p /\ s[i + 1] # q /\ s[i + 1] \in F \cup {h.prol} /\ s[i] # s[j]
        BY <1>6, <3>3, <4>2 DEF Chain
      <4>4. /\ s[i] \in Addr \ {p, q + 4} /\ s[i + 1] + 4 \in Addr \ {p, q + 4}
        BY <1>9, <4>1, <4>3 DEF Cells
      <4> QED
        BY <1>1, <1>10, <3>3, <4>1, <4>3, <4>4
    <3>4. CASE k + 1 < j
      BY <1>2, <1>11, <3>1, <3>3, <3>4
    <3>5. CASE k >= j
      <4>1. t[k] = s[k + 1] /\ t[k + 1] = s[(k + 1) + 1] /\ k + 1 # j /\ k + 1 # j - 1
        BY <1>2, <1>11, <3>1, <3>5
      <4> QED
        BY <3>1, <3>3, <4>1
    <3> QED
      BY <1>2, <3>2, <3>4, <3>5
  <2>5. ASSUME NEW x \in F \ {bp} PROVE \E k \in 0 .. m - 1 : t[k] = x
    <3>1. PICK i \in 0 .. n - 1 : s[i] = x
      BY DEF Chain
    <3>2. i # j
      BY <1>1, <3>1
    <3>3. CASE i < j
      BY <1>2, <1>4, <1>11, <3>1, <3>3
    <3>4. CASE i > j
      <4>1. i - 1 \in 0 .. m - 1 /\ i - 1 \in 0 .. m /\ (i - 1) + 1 = i /\ i - 1 >= j
        BY <1>2, <1>4, <3>4
      <4>2. t[i - 1] = x
        BY <1>11, <3>1, <4>1
      <4> QED
        BY <4>1, <4>2
    <3> QED
      BY <1>2, <3>2, <3>3, <3>4
  <2>6. ASSUME NEW i \in 0 .. m, NEW k \in 0 .. m, t[i] = t[k] PROVE i = k
    <3>1. \A a, b \in 0 .. n : s[a] = s[b] => a = b
      BY DEF Chain
    <3> QED
      BY <1>2, <1>11, <2>6, <3>1
  <2>7. g.mem[t[0] + 4] = NULL
    <3>1. 0 \in 0 .. m /\ 0 \in 0 .. n /\ j + 1 \in 0 .. n /\ 0 # j + 1
      BY <1>2, <1>4
    <3>2. t[0] = s[0] /\ s[0] # q /\ h.mem[s[0] + 4] = NULL /\ s[0] \in F
      BY <1>2, <1>6, <1>11, <3>1 DEF Chain
    <3>3. s[0] + 4 \in Addr \ {p, q + 4}
      BY <1>9, <3>2 DEF Cells
    <3> QED
      BY <1>10, <3>2, <3>3
  <2> QED
    BY <2>2, <2>3, <2>4, <2>5, <2>6, <2>7 DEF Chain
<1>13. Relinks(h, g, F \cup {h.prol})
  BY <1>3, <1>6, <1>10 DEF Relinks
<1> QED
  BY <1>8, <1>12, <1>13 DEF Linked

\* cut_out takes a block out of the list.
LEMMA CutsOut ==
  ASSUME NEW h \in Heaps, NEW F, Cells(F \cup {h.prol}), h.prol \notin F, Linked(h, F), NEW bp \in F
  PROVE  Linked(cut_out(h, bp), F \ {bp}) /\ Relinks(h, cut_out(h, bp), F \cup {h.prol})
BY CutFirst, CutLater, Zenon DEF Linked

\* set_root puts a block in front of the list.
LEMMA SetsRoot ==
  ASSUME NEW h \in Heaps, NEW F, Cells(F \cup {h.prol}), h.prol \notin F, Linked(h, F),
         NEW bp, bp \notin F, bp # h.prol, Cells({bp})
  PROVE  Linked(set_root(h, bp), F \cup {bp}) /\ Relinks(h, set_root(h, bp), F \cup {h.prol, bp})
<1>1. PICK n, s : Chain(h, F, n, s)
  BY DEF Linked
<1>2. n \in Nat /\ s[0] = h.root /\ h.root \in F \cup {h.prol}
  <2>1. n \in Nat /\ s[0] = h.root /\ \A k \in 0 .. n : s[k] \in F \cup {h.prol}
    BY <1>1 DEF Chain
  <2>2. 0 \in 0 .. n
    BY <2>1
  <2> QED
    BY <2>1, <2>2
<1>3. PICK r : r = h.root
  OBVIOUS
<1>4. PICK g : g = [h EXCEPT !.mem[r + 4] = bp, !.mem[bp] = r, !.mem[bp + 4] = NULL, !.root = bp]
  OBVIOUS
<1>5. set_root(h, bp) = g
  BY <1>2, <1>3, <1>4 DEF set_root, SUCCP, PREDP, WSIZE
<1>6. /\ r \in Nat /\ r % 8 = 0 /\ r + 4 \in Addr /\ bp \in Addr /\ bp + 4 \in Addr /\ bp \in Nat
      /\ bp % 8 = 0 /\ r # bp
  BY <1>2, <1>3 DEF Cells
<1>7. /\ g \in Heaps /\ g.brk = h.brk /\ g.prol = h.prol /\ g.root = bp
      /\ g.mem[r + 4] = bp /\ g.mem[bp] = r /\ g.mem[bp + 4] = 0
      /\ \A a \in Addr \ {r + 4, bp, bp + 4} : g.mem[a] = h.mem[a]
  <2>1. h.mem \in [Addr -> Nat]
    BY DEF Heaps
  <2>2. PICK m : m = [[[h.mem EXCEPT ![r + 4] = bp] EXCEPT ![bp] = r] EXCEPT ![bp + 4] = 0]
    OBVIOUS
  <2>3. /\ m \in [Addr -> Nat] /\ m[r + 4] = bp /\ m[bp] = r /\ m[bp + 4] = 0
        /\ \A a \in Addr \ {r + 4, bp, bp + 4} : m[a] = h.mem[a]
    BY <1>6, <2>1, <2>2
  <2>4. g = [mem |-> m, brk |-> h.brk, prol |-> h.prol, root |-> bp]
    BY <1>4, <2>2 DEF Heaps, NULL
  <2> QED
    BY <1>6, <2>3, <2>4 DEF Heaps
<1>8. PICK t : t = [k \in 0 .. n + 1 |-> IF k = 0 THEN bp ELSE s[k - 1]]
  OBVIOUS
<1>9. t[0] = bp /\ \A k \in 1 .. n + 1 : k - 1 \in 0 .. n /\ t[k] = s[k - 1]
  BY <1>2, <1>8
<1>10. Chain(g, F \cup {bp}, n + 1, t)
  <2>1. \A k \in 0 .. n : s[k] \in F \cup {h.prol}
    BY <1>1 DEF Chain
  <2>2. t \in [0 .. n + 1 -> (F \cup {bp}) \cup {g.prol}]
    BY <1>2, <1>7, <1>8, <2>1
  <2>3. t[0] = g.root /\ t[n + 1] = g.prol
    BY <1>1, <1>2, <1>7, <1>9 DEF Chain
  <2>4. ASSUME NEW k \in 0 .. (n + 1) - 1
        PROVE  t[k] \in F \cup {bp} /\ g.mem[t[k]] = t[k + 1] /\ g.mem[t[k + 1] + 4] = t[k]
    <3>1. CASE k = 0
      BY <1>2, <1>3, <1>7, <1>9, <3>1
    <3>2. CASE k # 0
      <4>1. k - 1 \in 0 .. n - 1 /\ (k - 1) + 1 = k /\ k \in 1 .. n + 1 /\ k + 1 \in 1 .. n + 1
            /\ (k + 1) - 1 = k /\ k \in 0 .. n /\ 0 \in 0 .. n
        BY <1>2, <3>2
      <4>2. t[k] = s[k - 1] /\ t[k + 1] = s[k]
        BY <1>9, <4>1
      <4>3. s[k - 1] \in F /\ h.mem[s[k - 1]] = s[(k - 1) + 1] /\ h.mem[s[(k - 1) + 1] + 4] = s[k - 1]
        BY <1>1, <4>1 DEF Chain
      <4>4. s[k] # r
        BY <1>1, <1>2, <1>3, <3>2, <4>1 DEF Chain
      <4>5. s[k] \in F \cup {h.prol} /\ s[k] # bp /\ s[k - 1] # bp
        BY <2>1, <4>1, <4>3
      <4>6. s[k - 1] \in Addr \ {r + 4, bp, bp + 4} /\ s[k] + 4 \in Addr \ {r + 4, bp, bp + 4}
        BY <1>6, <4>3, <4>4, <4>5 DEF Cells
      <4> QED
        BY <1>7, <4>1, <4>2, <4>3, <4>6
    <3> QED
      BY <3>1, <3>2
  <2>5. ASSUME NEW x \in F \cup {bp} PROVE \E k \in 0 .. (n + 1) - 1 : t[k] = x
    <3>1. CASE x = bp
      BY <1>2, <1>9, <3>1
    <3>2. CASE x \in F
      <4>1. PICK i \in 0 .. n - 1 : s[i] = x
        BY <1>1, <3>2 DEF Chain
      <4>2. i + 1 \in 1 .. n + 1 /\ i + 1 \in 0 .. (n + 1) - 1 /\ (i + 1) - 1 = i
        BY <1>2
      <4> QED
        BY <1>9, <4>1, <4>2
    <3> QED
      BY <3>1, <3>2
  <2>6. ASSUME NEW i \in 0 .. n + 1, NEW k \in 0 .. n + 1, t[i] = t[k] PROVE i = k
    <3>1. \A a, b \in 0 .. n : s[a] = s[b] => a = b
      BY <1>1 DEF Chain
    <3>2. \A a \in 1 .. n + 1 : t[a] # t[0]
      BY <1>9, <2>1
    <3> QED
      BY <1>2, <1>9, <2>6, <3>1, <3>2
  <2>7. g.mem[t[0] + 4] = NULL
    BY <1>7, <1>9 DEF NULL
  <2>8. n + 1 \in Nat
    BY <1>2
  <2> QED
    BY <2>2, <2>3, <2>4, <2>5, <2>6, <2>7, <2>8 DEF Chain
<1>11. Relinks(h, g, F \cup {h.prol, bp})
  BY <1>2, <1>3, <1>7 DEF Relinks
<1> QED
  BY <1>5, <1>10, <1>11 DEF Linked

\* The list is where its words are.
LEMMA ListSame ==
  ASSUME NEW h, NEW g, NEW F, Linked(h, F), g.root = h.root, g.prol = h.prol,
         \A x \in F \cup {h.prol} : g.mem[x] = h.mem[x] /\ g.mem[x + 4] = h.mem[x + 4]
  PROVE  Linked(g, F)
<1>1. PICK n, s : Chain(h, F, n, s)
  BY DEF Linked
<1>2. n \in Nat /\ \A k \in 0 .. n : s[k] \in F \cup {h.prol}
  BY <1>1 DEF Chain
<1>3. \A k \in 0 .. n - 1 : k \in 0 .. n /\ k + 1 \in 0 .. n
  BY <1>2
<1>4. Chain(g, F, n, s)
  BY <1>1, <1>2, <1>3 DEF Chain
<1> QED
  BY <1>4 DEF Linked

-----------------------------------------------------------------------------
(* A call works on the blocks from lo to hi: they leave the list, and then *)
(* only words of theirs and links of other free blocks change.  F is the   *)
(* list at the start.                                                      *)

Outside(X, lo, hi) == {x \in X : x < lo \/ hi <= x}

Works(h, g, sz, F, lo, hi) ==
    /\ g \in Heaps /\ g.brk = h.brk /\ g.prol = h.prol
    /\ Touches(h, g, sz, lo, hi, F \cup {h.prol})
    /\ Linked(g, Outside(F, lo, hi))

ListLayout(prol, brk, D, sz, F) ==
    Layout(prol, brk, D, sz) /\ sz[prol] = 16 /\ F \subseteq D \ {prol}

LEMMA ListCells ==
  ASSUME NEW prol, NEW brk, NEW D, NEW sz, NEW F, ListLayout(prol, brk, D, sz, F)
  PROVE  /\ Cells(F \cup {prol})
         /\ \A x \in F \cup {prol} : x \in D /\ x \in Nat /\ sz[x] \in Nat /\ sz[x] >= 16
<1>1. /\ Layout(prol, brk, D, sz)
      /\ \A x \in F \cup {prol} : x \in D /\ x \in Nat /\ x % 8 = 0 /\ prol <= x /\ sz[x] \in Nat /\ sz[x] >= 16
  BY DEF Layout, ListLayout
<1>2. \A x \in F \cup {prol} : x \in Addr /\ x + 4 \in Addr
  BY <1>1, BlockWords
<1>3. prol \in Nat /\ prol > 0
  BY <1>1, MemAssumption DEF Layout
<1> QED
  BY <1>1, <1>2, <1>3 DEF Cells

LEMMA RelinksTouch ==
  ASSUME NEW h, NEW g, NEW X, Relinks(h, g, X), NEW sz, NEW lo, NEW hi,
         \A x \in X : x \in Nat /\ sz[x] \in Nat /\ sz[x] >= 16
  PROVE  Touches(h, g, sz, lo, hi, X)
<1>1. ASSUME NEW a \in Addr, NEW x \in X, a = x \/ a = x + 4
      PROVE  x <= a /\ a < x + sz[x] - 8
  BY <1>1
<1> QED
  BY <1>1 DEF Relinks, Touches

LEMMA TouchesMore ==
  ASSUME NEW h, NEW g, NEW sz, NEW lo \in Nat, NEW hi \in Nat, NEW X, Touches(h, g, sz, lo, hi, X),
         NEW lo2 \in Nat, NEW hi2 \in Nat, lo2 <= lo, hi <= hi2, NEW Y, X \subseteq Y
  PROVE  Touches(h, g, sz, lo2, hi2, Y)
<1>1. ASSUME NEW a \in Addr, lo - 4 <= a, a < hi - 4 PROVE lo2 - 4 <= a /\ a < hi2 - 4
  BY <1>1, AddrIsNat
<1> QED
  BY <1>1 DEF Touches

LEMMA WorksStart ==
  ASSUME NEW h \in Heaps, NEW sz, NEW F, F \subseteq Nat, Linked(h, F), NEW lo \in Nat
  PROVE  Works(h, h, sz, F, lo, lo)
<1>1. Outside(F, lo, lo) = F
  <2>1. \A x \in F : x \in Nat /\ (x < lo \/ lo <= x)
    OBVIOUS
  <2> QED
    BY <2>1 DEF Outside
<1> QED
  BY <1>1 DEF Works, Touches

\* The block bp leaves the list and joins the region.
LEMMA WorksCut ==
  ASSUME NEW h, NEW g, NEW D, NEW sz, NEW F, ListLayout(h.prol, h.brk, D, sz, F),
         NEW lo \in Nat, NEW hi \in Nat, Works(h, g, sz, F, lo, hi),
         NEW bp \in Outside(F, lo, hi), NEW lo2 \in Nat, NEW hi2 \in Nat, lo2 <= lo, hi <= hi2,
         Outside(F, lo2, hi2) = Outside(F, lo, hi) \ {bp}
  PROVE  Works(h, cut_out(g, bp), sz, F, lo2, hi2) /\ Relinks(g, cut_out(g, bp), F \cup {h.prol})
<1>1. PICK k : k = cut_out(g, bp)
  OBVIOUS
<1>2. PICK G : G = Outside(F, lo, hi)
  OBVIOUS
<1>3. /\ g \in Heaps /\ g.prol = h.prol /\ g.brk = h.brk /\ Linked(g, G) /\ G \subseteq F /\ bp \in G
      /\ Touches(h, g, sz, lo, hi, F \cup {h.prol})
  BY <1>2 DEF Works, Outside
<1>4. /\ Cells(F \cup {h.prol}) /\ h.prol \notin F
      /\ \A x \in F \cup {h.prol} : x \in D /\ x \in Nat /\ sz[x] \in Nat /\ sz[x] >= 16
  <2>1. h.prol \notin F
    BY DEF ListLayout
  <2> QED
    BY <2>1, ListCells, Zenon
<1>5. Cells(G \cup {g.prol}) /\ g.prol \notin G
  BY <1>3, <1>4 DEF Cells
<1>6. Linked(k, G \ {bp}) /\ Relinks(g, k, G \cup {g.prol})
  BY <1>1, <1>3, <1>5, CutsOut, Zenon
<1>7. Touches(g, k, sz, lo2, hi2, F \cup {h.prol})
  <2>1. Touches(g, k, sz, lo, hi, G \cup {g.prol})
    BY <1>3, <1>4, <1>6, RelinksTouch
  <2>2. G \cup {g.prol} \subseteq F \cup {h.prol}
    BY <1>3
  <2> QED
    BY <2>1, <2>2, TouchesMore, Zenon
<1>8. Touches(h, g, sz, lo2, hi2, F \cup {h.prol})
  BY <1>3, TouchesMore, Zenon
<1>9. Touches(h, k, sz, lo2, hi2, F \cup {h.prol})
  BY <1>7, <1>8, TouchesOn, Zenon
<1>10. Relinks(g, k, F \cup {h.prol})
  BY <1>3, <1>6 DEF Relinks
<1> QED
  BY <1>1, <1>2, <1>3, <1>6, <1>9, <1>10 DEF Works, Relinks

\* k is g with other words from lo to hi.
Writes(g, k, lo, hi) ==
    /\ k \in Heaps /\ k.brk = g.brk /\ k.prol = g.prol /\ k.root = g.root
    /\ \A a \in Addr : k.mem[a] = g.mem[a] \/ (lo - 4 <= a /\ a < hi - 4)

LEMMA WorksWrite ==
  ASSUME NEW h, NEW g, NEW D, NEW sz, NEW F, ListLayout(h.prol, h.brk, D, sz, F),
         NEW lo \in D \cup {h.brk}, NEW hi \in Nat, lo # h.prol, Works(h, g, sz, F, lo, hi),
         NEW k, Writes(g, k, lo, hi)
  PROVE  Works(h, k, sz, F, lo, hi)
<1>1. PICK G : G = Outside(F, lo, hi)
  OBVIOUS
<1>2. /\ Layout(h.prol, h.brk, D, sz) /\ F \subseteq D /\ h.prol \in D
      /\ \A x \in F \cup {h.prol} : x \in D /\ x \in Nat /\ sz[x] \in Nat /\ sz[x] >= 16 /\ x \in Addr /\ x + 4 \in Addr
  <2>1. Layout(h.prol, h.brk, D, sz) /\ F \subseteq D /\ h.prol \in D
    BY DEF ListLayout, Layout
  <2>2. /\ Cells(F \cup {h.prol})
        /\ \A x \in F \cup {h.prol} : x \in D /\ x \in Nat /\ sz[x] \in Nat /\ sz[x] >= 16
    BY ListCells, Zenon
  <2> QED
    BY <2>1, <2>2, Zenon DEF Cells
<1>3. lo \in Nat /\ h.prol \in Nat /\ h.prol < lo
  BY <1>2, LayoutFacts
<1>4. ASSUME NEW x \in G \cup {h.prol}
      PROVE  k.mem[x] = g.mem[x] /\ k.mem[x + 4] = g.mem[x + 4]
  <2>1. x \in D /\ x \in Nat /\ sz[x] \in Nat /\ sz[x] >= 16 /\ x \in Addr /\ x + 4 \in Addr
    BY <1>1, <1>2, <1>4 DEF Outside
  <2>2. x < lo \/ hi <= x
    BY <1>1, <1>3, <1>4 DEF Outside
  <2>3. x < lo => x + sz[x] <= lo
    <3>1. x < lo /\ lo \in D => x + sz[x] <= lo
      BY <1>2, <2>1 DEF Layout
    <3>2. x + sz[x] <= h.brk
      BY <1>2, <2>1, LayoutFacts
    <3> QED
      BY <3>1, <3>2
  <2>4. \A a \in {x, x + 4} : ~(lo - 4 <= a /\ a < hi - 4)
    BY <1>3, <2>1, <2>2, <2>3
  <2> QED
    BY <2>1, <2>4 DEF Writes
<1>5. g.prol = h.prol /\ Linked(g, G)
  BY <1>1 DEF Works
<1>6. Linked(k, G)
  BY <1>4, <1>5, ListSame DEF Writes
<1>7. Touches(g, k, sz, lo, hi, F \cup {h.prol})
  BY DEF Touches, Writes
<1>8. Touches(h, k, sz, lo, hi, F \cup {h.prol})
  BY <1>7, TouchesOn, Zenon DEF Works
<1> QED
  BY <1>1, <1>6, <1>8 DEF Works, Writes

\* What the call leaves alone.
Spares(h, g, D, sz, F, lo, hi) ==
    /\ TagsSame(h, g, D, sz, h.brk, lo, hi)
    /\ Touches(h, g, sz, lo, hi, D)
    /\ \A Y \in SUBSET (D \ (F \cup {h.prol})) : \A zs :
           (\A y \in Y : (y < lo \/ hi <= y) /\ zs[y] = sz[y]) => Kept(h, g, sz, zs, Y)

LEMMA WorksSame ==
  ASSUME NEW h, NEW g, NEW D, NEW sz, NEW F, ListLayout(h.prol, h.brk, D, sz, F),
         NEW lo \in D \cup {h.brk}, NEW hi \in D \cup {h.brk}, lo <= hi, Works(h, g, sz, F, lo, hi)
  PROVE  Spares(h, g, D, sz, F, lo, hi)
<1>1. Layout(h.prol, h.brk, D, sz) /\ F \cup {h.prol} \subseteq D
  BY DEF ListLayout, Layout
<1>2. lo \in Nat /\ hi \in Nat /\ hi <= h.brk
  <2>1. h.brk \in Nat /\ \A x \in D : x \in Nat /\ x < h.brk
    BY <1>1, LayoutFacts
  <2> QED
    BY <2>1
<1>3. Touches(h, g, sz, lo, hi, F \cup {h.prol})
  BY DEF Works
<1>4. lo <= lo /\ hi <= hi
  BY <1>2
<1>5. Touches(h, g, sz, lo, hi, D)
  BY <1>1, <1>2, <1>3, <1>4, TouchesMore, Zenon
<1>6. TagsSame(h, g, D, sz, h.brk, lo, hi)
  BY <1>1, <1>2, <1>5, TagsUntouched, Zenon
<1>7. ASSUME NEW Y \in SUBSET (D \ (F \cup {h.prol})), NEW zs, \A y \in Y : (y < lo \/ hi <= y) /\ zs[y] = sz[y]
      PROVE  Kept(h, g, sz, zs, Y)
  <2>1. (\A y \in Y : y < lo \/ hi <= y) /\ (\A y \in Y : zs[y] = sz[y]) /\ F \cup {h.prol} \in SUBSET D
    BY <1>1, <1>7
  <2> QED
    BY <1>1, <1>2, <1>3, <2>1, ContentsUntouched, Zenon
<1> QED
  BY <1>5, <1>6, <1>7, Zenon DEF Spares

\* New links leave the tags and the contents of other blocks alone.
LEMMA TiledRelinked ==
  ASSUME NEW h, NEW g, NEW D, NEW sz, NEW al, Tiled(h, D, sz, al),
         NEW X \in SUBSET D, Relinks(h, g, X), \A x \in X : sz[x] >= 16
  PROVE  /\ Tiled(g, D, sz, al)
         /\ \A Y \in SUBSET (D \ X) : Kept(h, g, sz, sz, Y)
<1>1. /\ Layout(h.prol, h.brk, D, sz) /\ Tagged(h, D, sz, al) /\ h.prol \in al /\ al \subseteq D
      /\ h.brk \in Nat /\ \A x \in D : x \in Nat /\ sz[x] \in Nat /\ x < h.brk
  BY LayoutFacts DEF Tiled
<1>2. PICK b \in Nat : b = h.brk
  BY <1>1
<1>3. Touches(h, g, sz, b, b, X)
  BY <1>1, RelinksTouch
<1>4. b <= b /\ b \in D \cup {h.brk} /\ X \subseteq D /\ b <= h.brk
  BY <1>2
<1>5. Touches(h, g, sz, b, b, D)
  BY <1>3, <1>4, TouchesMore, Zenon
<1>6. TagsSame(h, g, D, sz, h.brk, b, b)
  BY <1>1, <1>4, <1>5, TagsUntouched, Zenon
<1>7. \A x \in D : x < b \/ b <= x
  BY <1>1
<1>8. Tagged(g, D, sz, al)
  <2>1. g.brk = h.brk
    BY DEF Relinks
  <2> QED
    BY <1>1, <1>6, <1>7, <2>1 DEF TagsSame, Tagged
<1>9. ASSUME NEW Y \in SUBSET (D \ X) PROVE Kept(h, g, sz, sz, Y)
  <2>1. (\A y \in Y : y < b \/ b <= y) /\ (\A y \in Y : sz[y] = sz[y])
    BY <1>7
  <2> QED
    BY <1>1, <1>3, <1>4, <2>1, ContentsUntouched, Zenon
<1> QED
  BY <1>1, <1>8, <1>9 DEF Tiled, Relinks

-----------------------------------------------------------------------------
(* coalesce and set_root.                                                  *)

\* The block bp is free but not in the list; it may have free neighbours.
Loose(h, D, sz, al, bp) ==
    /\ Tiled(h, D, sz, al) /\ sz[h.prol] = 16
    /\ bp \in D \ al /\ Linked(h, (D \ al) \ {bp})
    /\ \A x \in D \ al : x + sz[x] \in D \ al => x = bp \/ x + sz[x] = bp

\* What a call leaves when the blocks al are allocated after it: p is a free
\* block of at least n bytes.
Freed(h, g, sz, al, p, n) ==
    \E E, zs : /\ ListHeap(g, E, zs, al) /\ Kept(h, g, sz, zs, al \ {h.prol})
               /\ p \in E \ al /\ zs[p] >= n /\ g.prol = h.prol

LEMMA KeptOn ==
  ASSUME NEW h, NEW g, NEW k, NEW sz, NEW zs, NEW us, NEW X,
         Kept(h, g, sz, zs, X), Kept(g, k, zs, us, X)
  PROVE  Kept(h, k, sz, us, X)
BY DEF Kept

LooseIs(h, D, sz, al, bp) ==
    /\ ListLayout(h.prol, h.brk, D, sz, (D \ al) \ {bp}) /\ h.prol \in al /\ al \subseteq D
    /\ h.prol \in Nat /\ h.brk \in Nat /\ h.brk \notin D /\ h \in Heaps
    /\ bp \in D /\ bp \notin al /\ bp # h.prol /\ h.prol \in D
    /\ \A x \in D : /\ x \in Nat /\ h.prol <= x /\ x < h.brk /\ sz[x] \in Nat /\ sz[x] >= 16
                    /\ x + sz[x] <= h.brk /\ x + sz[x] \in D \cup {h.brk}
    /\ \A x, y \in D : x < y => x + sz[x] <= y
    /\ Layout(h.prol, h.brk, D, sz)

LEMMA LooseFacts ==
  ASSUME NEW h, NEW D, NEW sz, NEW al, NEW bp, Loose(h, D, sz, al, bp)
  PROVE  LooseIs(h, D, sz, al, bp)
<1>1. /\ Layout(h.prol, h.brk, D, sz) /\ sz[h.prol] = 16 /\ h.prol \in al /\ al \subseteq D
      /\ bp \in D /\ bp \notin al /\ h \in Heaps
  BY DEF Loose, Tiled
<1>2. \A x, y \in D : x < y => x + sz[x] <= y
  BY <1>1 DEF Layout
<1>3. \A x \in D : sz[x] >= 16
  BY <1>1 DEF Layout
<1>4. ListLayout(h.prol, h.brk, D, sz, (D \ al) \ {bp})
  BY <1>1 DEF ListLayout
<1> QED
  BY <1>1, <1>2, <1>3, <1>4, LayoutFacts DEF LooseIs

\* The blocks from lo to hi become one free block, in front of the list.
LEMMA JoinCloses ==
  ASSUME NEW h, NEW D, NEW sz, NEW al, NEW bp, Loose(h, D, sz, al, bp),
         NEW lo \in D, NEW hi \in D \cup {h.brk}, lo <= bp, bp + sz[bp] <= hi, lo # h.prol,
         \A x \in al : x < lo \/ hi <= x,
         \A x \in D : x + sz[x] = lo => x \in al,
         hi \notin D \ al,
         NEW k, Works(h, k, sz, (D \ al) \ {bp}, lo, hi),
         k.mem[lo - 4] = hi - lo, k.mem[hi - 8] = hi - lo
  PROVE  Freed(h, set_root(k, lo), sz, al, lo, sz[bp])
<1>1. PICK F, E, zs, r : /\ F = (D \ al) \ {bp} /\ E = JoinedTo(D, lo, hi)
                         /\ zs = JoinedSizes(D, sz, lo, hi) /\ r = set_root(k, lo)
  OBVIOUS
<1>2. /\ ListLayout(h.prol, h.brk, D, sz, F) /\ h.prol \in al /\ al \subseteq D
      /\ h.prol \in Nat /\ h.brk \in Nat /\ bp \in D /\ bp \notin al /\ h.prol \in D
      /\ \A x \in D : /\ x \in Nat /\ h.prol <= x /\ sz[x] \in Nat /\ sz[x] >= 16
                      /\ x + sz[x] \in D \cup {h.brk}
  <2>1. LooseIs(h, D, sz, al, bp)
    BY LooseFacts, Zenon
  <2> QED
    BY <1>1, <2>1, Zenon DEF LooseIs
<1>3. /\ lo \in Nat /\ hi \in Nat /\ lo < hi /\ hi - lo >= 16 /\ hi - lo >= sz[bp] /\ h.prol < lo
      /\ lo <= hi /\ h.prol < hi
  <2>1. bp \in Nat /\ sz[bp] \in Nat /\ sz[bp] >= 16 /\ lo \in Nat /\ h.prol <= lo /\ hi \in Nat
    BY <1>2
  <2> QED
    BY <1>2, <2>1
<1>4. /\ k \in Heaps /\ k.brk = h.brk /\ k.prol = h.prol /\ Linked(k, Outside(F, lo, hi))
  BY <1>1 DEF Works
<1>5. /\ Touches(h, k, sz, lo, hi, D)
      /\ \A Y \in SUBSET (D \ (F \cup {h.prol})) : \A us :
             (\A y \in Y : (y < lo \/ hi <= y) /\ us[y] = sz[y]) => Kept(h, k, sz, us, Y)
  <2>1. Spares(h, k, D, sz, F, lo, hi)
    BY <1>1, <1>2, <1>3, WorksSame, Zenon
  <2> QED
    BY <2>1, Zenon DEF Spares
<1>6. Tiled(k, E, zs, al)
  <2>1. PICK e \in {0, 1} : e = 0
    OBVIOUS
  <2>2. k.mem[lo - 4] = hi - lo + e /\ k.mem[hi - 8] = hi - lo + e
    BY <1>3, <2>1
  <2>3. al = {x \in al : x < lo \/ hi <= x} \cup (IF e = 1 THEN {lo} ELSE {})
    BY <2>1
  <2>4. Tiled(h, D, sz, al)
    BY DEF Loose
  <2> QED
    BY <1>1, <1>3, <1>4, <1>5, <2>2, <2>3, <2>4, TiledJoined, Zenon
<1>7. PICK G : G = Outside(F, lo, hi)
  OBVIOUS
<1>8. /\ E = Outside(D, lo, hi) \cup {lo} /\ zs[lo] = hi - lo
      /\ \A x \in Outside(D, lo, hi) : zs[x] = sz[x]
  <2>1. E = Outside(D, lo, hi) \cup {lo}
    BY <1>1, <1>2, <1>3 DEF JoinedTo, Outside
  <2>2. zs = [x \in E |-> IF x = lo THEN hi - lo ELSE sz[x]]
    BY <1>1 DEF JoinedSizes
  <2>3. lo \in E /\ \A x \in Outside(D, lo, hi) : x \in E /\ x # lo
    BY <1>3, <2>1 DEF Outside
  <2> QED
    BY <2>1, <2>2, <2>3
<1>9. E \ al = G \cup {lo} /\ lo \notin G /\ lo \notin al
  <2>1. lo \notin al
    BY <1>3
  <2>2. bp \notin Outside(D, lo, hi)
    BY <1>2, <1>3 DEF Outside
  <2>3. G = Outside(D, lo, hi) \ al
    BY <1>1, <1>7, <2>2 DEF Outside
  <2>4. lo \notin Outside(D, lo, hi)
    BY <1>3 DEF Outside
  <2> QED
    BY <1>8, <2>1, <2>3, <2>4
<1>10. Cells(G \cup {k.prol}) /\ k.prol \notin G /\ Cells({lo})
  <2>1. Cells(F \cup {h.prol})
    BY <1>2, ListCells, Zenon
  <2>2. G \subseteq F /\ h.prol \notin F
    BY <1>1, <1>2, <1>7 DEF Outside
  <2>3. Cells({lo})
    <3>1. ListLayout(h.prol, h.brk, D, sz, {lo})
      BY <1>2 DEF ListLayout
    <3>2. Cells({lo} \cup {h.prol})
      BY <3>1, ListCells, Zenon
    <3> QED
      BY <3>2 DEF Cells
  <2> QED
    BY <1>4, <2>1, <2>2, <2>3 DEF Cells
<1>11. Linked(r, G \cup {lo}) /\ Relinks(k, r, G \cup {k.prol, lo})
  BY <1>1, <1>3, <1>4, <1>7, <1>9, <1>10, SetsRoot
<1>12. h.prol \in Outside(D, lo, hi) /\ zs[h.prol] = 16
  BY <1>2, <1>3, <1>8 DEF Outside, ListLayout
<1>13. /\ Tiled(r, E, zs, al)
       /\ \A Y \in SUBSET (E \ (G \cup {k.prol, lo})) : Kept(k, r, zs, zs, Y)
  <2>1. G \subseteq Outside(D, lo, hi)
    BY <1>1, <1>7 DEF Outside
  <2>2. (G \cup {k.prol, lo}) \in SUBSET E
    BY <1>4, <1>8, <1>12, <2>1
  <2>3. \A x \in G \cup {k.prol, lo} : zs[x] >= 16
    <3>1. \A x \in Outside(D, lo, hi) : zs[x] >= 16
      BY <1>2, <1>8 DEF Outside
    <3> QED
      BY <1>3, <1>4, <1>8, <1>12, <2>1, <3>1
  <2> QED
    BY <1>6, <1>11, <2>2, <2>3, TiledRelinked, Zenon
<1>14. Kept(h, r, sz, zs, al \ {h.prol})
  <2>1. PICK Y : Y = al \ {h.prol}
    OBVIOUS
  <2>2. Y \in SUBSET (D \ (F \cup {h.prol})) /\ \A y \in Y : y < lo \/ hi <= y
    BY <1>1, <1>2, <2>1
  <2>3. \A y \in Y : y \in Outside(D, lo, hi)
    BY <2>2 DEF Outside
  <2>4. \A y \in Y : (y < lo \/ hi <= y) /\ zs[y] = sz[y]
    BY <1>8, <2>2, <2>3
  <2>5. Kept(h, k, sz, zs, Y)
    BY <1>5, <2>2, <2>4, Zenon
  <2>6. Y \in SUBSET (E \ (G \cup {k.prol, lo}))
    BY <1>4, <1>7, <1>8, <1>9, <2>1, <2>2, <2>3 DEF Outside
  <2>7. Kept(k, r, zs, zs, Y)
    BY <1>13, <2>6, Zenon
  <2> QED
    BY <2>1, <2>5, <2>7, KeptOn, Zenon
<1>15. Apart(E, zs, al)
  <2>1. ASSUME NEW x \in E \ al, x + zs[x] \in E \ al PROVE FALSE
    <3>1. CASE x = lo
      <4>1. x + zs[x] = hi
        BY <1>3, <1>8, <3>1
      <4> QED
        BY <1>3, <1>8, <2>1, <4>1 DEF Outside
    <3>2. CASE x # lo
      <4>1. x \in D \ al /\ (x < lo \/ hi <= x) /\ zs[x] = sz[x]
        BY <1>8, <2>1, <3>2 DEF Outside
      <4>2. CASE x + sz[x] = lo
        BY <4>1, <4>2
      <4>3. CASE x + sz[x] # lo
        <5>1. x + sz[x] \in D \ al /\ (x + sz[x] < lo \/ hi <= x + sz[x])
          BY <1>8, <2>1, <4>1, <4>3 DEF Outside
        <5>2. x = bp \/ x + sz[x] = bp
          BY <4>1, <5>1 DEF Loose
        <5> QED
          BY <1>2, <1>3, <4>1, <5>1, <5>2
      <4> QED
        BY <4>2, <4>3
    <3> QED
      BY <3>1, <3>2
  <2> QED
    BY <2>1 DEF Apart
<1>16. r.brk = h.brk /\ r.prol = h.prol
  BY <1>4, <1>11 DEF Relinks
<1>17. ListHeap(r, E, zs, al)
  BY <1>9, <1>11, <1>12, <1>13, <1>15, <1>16 DEF ListHeap
<1>18. lo \in E \ al /\ zs[lo] >= sz[bp]
  BY <1>3, <1>8, <1>9
<1> QED
  BY <1>1, <1>14, <1>16, <1>17, <1>18, Zenon DEF Freed

\* Only links have changed, and the list has no block from lo to hi.
Unlinks(h, g, sz, F, lo, hi) ==
    Works(h, g, sz, F, lo, hi) /\ Relinks(h, g, F \cup {h.prol})

OutsideIs(F, sz, lo, hi, x) ==
    /\ x + sz[x] = lo => Outside(F, x, hi) = Outside(F, lo, hi) \ {x}
    /\ x = hi => Outside(F, lo, x + sz[x]) = Outside(F, lo, hi) \ {x}

LEMMA OutsideMore ==
  ASSUME NEW prol, NEW brk, NEW D, NEW sz, Layout(prol, brk, D, sz), NEW F \in SUBSET D,
         NEW lo \in Nat, NEW hi \in Nat, lo <= hi, NEW x \in D
  PROVE  OutsideIs(F, sz, lo, hi, x)
<1>1. /\ x \in Nat /\ sz[x] \in Nat /\ sz[x] >= 8
      /\ \A y \in F : y \in Nat /\ sz[y] \in Nat /\ sz[y] >= 8
  BY LayoutFacts
<1>2. \A y \in F : (y < x => y + sz[y] <= x) /\ (x < y => x + sz[x] <= y)
  BY DEF Layout
<1>3. ASSUME x + sz[x] = lo, NEW y \in F PROVE y \in Outside(F, x, hi) <=> y \in Outside(F, lo, hi) \ {x}
  BY <1>1, <1>2, <1>3 DEF Outside
<1>4. ASSUME x = hi, NEW y \in F
      PROVE  y \in Outside(F, lo, x + sz[x]) <=> y \in Outside(F, lo, hi) \ {x}
  BY <1>1, <1>2, <1>4 DEF Outside
<1>5. \A a, b : Outside(F, a, b) \subseteq F
  BY DEF Outside
<1> QED
  BY <1>3, <1>4, <1>5 DEF OutsideIs

LEMMA UnlinksCut ==
  ASSUME NEW h, NEW g, NEW D, NEW sz, NEW F, ListLayout(h.prol, h.brk, D, sz, F),
         NEW lo \in Nat, NEW hi \in Nat, lo <= hi, Unlinks(h, g, sz, F, lo, hi),
         NEW x \in F
  PROVE  /\ x + sz[x] = lo => Unlinks(h, cut_out(g, x), sz, F, x, hi)
         /\ x = hi => Unlinks(h, cut_out(g, x), sz, F, lo, x + sz[x])
<1>1. /\ Layout(h.prol, h.brk, D, sz) /\ F \in SUBSET D /\ x \in D /\ x \in Nat /\ sz[x] \in Nat
      /\ sz[x] >= 8 /\ x + sz[x] \in Nat
  BY LayoutFacts DEF ListLayout
<1>2. Works(h, g, sz, F, lo, hi) /\ Relinks(h, g, F \cup {h.prol})
  BY DEF Unlinks
<1>3. ASSUME NEW lo2 \in Nat, NEW hi2 \in Nat, lo2 <= lo, hi <= hi2, x \in Outside(F, lo, hi),
             Outside(F, lo2, hi2) = Outside(F, lo, hi) \ {x}
      PROVE  Unlinks(h, cut_out(g, x), sz, F, lo2, hi2)
  <2>1. Works(h, cut_out(g, x), sz, F, lo2, hi2) /\ Relinks(g, cut_out(g, x), F \cup {h.prol})
    BY <1>2, <1>3, WorksCut, Zenon
  <2>2. Relinks(h, cut_out(g, x), F \cup {h.prol})
    BY <1>2, <2>1 DEF Relinks
  <2> QED
    BY <2>1, <2>2 DEF Unlinks
<1>6. OutsideIs(F, sz, lo, hi, x)
  BY <1>1, OutsideMore, Zenon
<1>4. ASSUME x + sz[x] = lo PROVE Unlinks(h, cut_out(g, x), sz, F, x, hi)
  <2>1. x <= lo /\ hi <= hi /\ x \in Outside(F, lo, hi)
    BY <1>1, <1>4 DEF Outside
  <2>2. Outside(F, x, hi) = Outside(F, lo, hi) \ {x}
    BY <1>4, <1>6, Zenon DEF OutsideIs
  <2> QED
    BY <1>1, <1>3, <2>1, <2>2, Zenon
<1>5. ASSUME x = hi PROVE Unlinks(h, cut_out(g, x), sz, F, lo, x + sz[x])
  <2>1. lo <= lo /\ hi <= x + sz[x] /\ x \in Outside(F, lo, hi)
    BY <1>1, <1>5 DEF Outside
  <2>2. Outside(F, lo, x + sz[x]) = Outside(F, lo, hi) \ {x}
    BY <1>5, <1>6, Zenon DEF OutsideIs
  <2> QED
    BY <1>1, <1>3, <2>1, <2>2, Zenon
<1> QED
  BY <1>4, <1>5

\* Only links have changed, so the tags read as before.
LEMMA UnlinksReads ==
  ASSUME NEW h, NEW g, NEW D, NEW sz, NEW al, Tiled(h, D, sz, al), NEW F,
         ListLayout(h.prol, h.brk, D, sz, F), NEW lo, NEW hi, Unlinks(h, g, sz, F, lo, hi)
  PROVE  Tiled(g, D, sz, al) /\ \A x \in D : Reads(g, sz, al, x)
<1>1. /\ (F \cup {h.prol}) \in SUBSET D /\ \A x \in F \cup {h.prol} : sz[x] >= 16
  <2>1. \A x \in F \cup {h.prol} : x \in D /\ sz[x] >= 16
    BY ListCells
  <2> QED
    BY <2>1
<1>2. Relinks(h, g, F \cup {h.prol})
  BY DEF Unlinks
<1>3. Tiled(g, D, sz, al)
  BY <1>1, <1>2, TiledRelinked, Zenon
<1>4. Layout(g.prol, g.brk, D, sz) /\ Tagged(g, D, sz, al)
  BY <1>3 DEF Tiled
<1> QED
  BY <1>3, <1>4, TagsRead, Zenon

WritesTags(g, k, lo, hi, tag) ==
    Writes(g, k, lo, hi) /\ k.mem[lo - 4] = tag /\ k.mem[hi - 8] = tag

LEMMA PutsTagsWrites ==
  ASSUME NEW g, NEW k, NEW lo \in Nat, NEW hi \in Nat, hi - lo >= 8, NEW tag,
         PutsTags(g, k, lo, hi - lo, tag)
  PROVE  WritesTags(g, k, lo, hi, tag)
<1>1. lo + (hi - lo) - 8 = hi - 8
  OBVIOUS
<1>2. \A a \in {lo - 4, hi - 8} : lo - 4 <= a /\ a < hi - 4
  OBVIOUS
<1> QED
  BY <1>1, <1>2 DEF PutsTags, Writes, WritesTags

\* What the tags of any heap say.
TiledIs(h, D, sz, al) ==
    /\ Layout(h.prol, h.brk, D, sz) /\ Tagged(h, D, sz, al) /\ h \in Heaps
    /\ h.prol \in al /\ al \subseteq D /\ h.prol \in D /\ sz \in [D -> Nat] /\ h.prol = Start + 8
    /\ h.prol \in Nat /\ h.brk \in Nat /\ h.brk \notin D /\ h.brk <= Start + MAX_HEAP /\ h.brk % 8 = 0
    /\ \A x \in D : /\ x \in Nat /\ h.prol <= x /\ x < h.brk /\ sz[x] \in Nat /\ sz[x] >= 8
                    /\ x # h.prol => sz[x] >= 16
                    /\ x % 8 = 0 /\ sz[x] % 8 = 0
                    /\ x + sz[x] \in Nat /\ x + sz[x] <= h.brk /\ x + sz[x] \in D \cup {h.brk}
    /\ \A x, y \in D : x < y => x + sz[x] <= y
    /\ \A x \in D : Reads(h, sz, al, x)

LEMMA TiledFacts ==
  ASSUME NEW h, NEW D, NEW sz, NEW al, Tiled(h, D, sz, al)
  PROVE  TiledIs(h, D, sz, al)
<1>1. /\ Layout(h.prol, h.brk, D, sz) /\ h.prol \in al /\ al \subseteq D
      /\ h \in Heaps /\ Tagged(h, D, sz, al)
  BY DEF Tiled
<1>2. \A x, y \in D : x < y => x + sz[x] <= y
  BY <1>1 DEF Layout
<1>3. sz \in [D -> Nat] /\ \A x \in D : (x # h.prol => sz[x] >= 16) /\ x % 8 = 0 /\ sz[x] % 8 = 0
  BY <1>1 DEF Layout
<1>4. h.brk <= Start + MAX_HEAP /\ h.brk % 8 = 0 /\ h.prol = Start + 8
  BY <1>1 DEF Layout
<1>5. \A x \in D : Reads(h, sz, al, x)
  BY <1>1, TagsRead, Zenon
<1>6. /\ h.prol \in Nat /\ h.prol \in D /\ h.brk \in Nat /\ D \subseteq Nat /\ h.brk \notin D
      /\ \A x \in D : /\ x \in Nat /\ h.prol <= x /\ x < h.brk /\ sz[x] \in Nat /\ sz[x] >= 8
                      /\ x + sz[x] \in Nat /\ x + sz[x] <= h.brk /\ x + sz[x] \in D \cup {h.brk}
  BY <1>1, LayoutFacts
<1> QED
  BY <1>1, <1>2, <1>3, <1>4, <1>5, <1>6, Zenon DEF TiledIs

\* bp is free and may have free neighbours.
Uncoalesced(h, D, sz, al, bp) ==
    /\ Tiled(h, D, sz, al) /\ bp \in D \ al
    /\ \A x \in D \ al : x + sz[x] \in D \ al => x = bp \/ x + sz[x] = bp

\* What coalesce reads: the block p before bp, the block or the epilogue behind.
LEMMA CoalesceReads ==
  ASSUME NEW h, NEW D, NEW sz, NEW al, NEW bp, Uncoalesced(h, D, sz, al, bp)
  PROVE  \E p \in D : /\ p + sz[p] = bp /\ p # bp /\ PREV_BLKP(h, bp) = p
                      /\ GET_ALLOC(h, FTRP(h, p)) = 0 <=> p \notin al
                      /\ NEXT_BLKP(h, bp) = bp + sz[bp] /\ GET_SIZE(h, HDRP(bp)) = sz[bp]
                      /\ GET_ALLOC(h, HDRP(bp + sz[bp])) = 0 <=> bp + sz[bp] \in D \ al
<1>1. TiledIs(h, D, sz, al) /\ Layout(h.prol, h.brk, D, sz) /\ Tagged(h, D, sz, al) /\ bp \in D \ al
  BY TiledFacts DEF Uncoalesced, Tiled
<1>2. PICK p \in D : p + sz[p] = bp
  BY <1>1 DEF TiledIs, Layout
<1>3. Reads(h, sz, al, p) /\ Reads(h, sz, al, bp)
  BY <1>1 DEF TiledIs
<1>4. p # bp
  BY <1>1, <1>2 DEF TiledIs
<1>5. GET_ALLOC(h, HDRP(bp + sz[bp])) = 0 <=> bp + sz[bp] \in D \ al
  <2>1. CASE bp + sz[bp] \in D
    <3>1. Reads(h, sz, al, bp + sz[bp])
      BY <1>1, <2>1, TagsRead, Zenon
    <3> QED
      BY <2>1, <3>1 DEF Reads
  <2>2. CASE bp + sz[bp] \notin D
    <3>1. bp + sz[bp] = h.brk
      BY <1>1, <2>2 DEF TiledIs
    <3>2. GET_ALLOC(h, HDRP(h.brk)) # 0
      BY <1>1, EpilogueReads
    <3> QED
      BY <2>2, <3>1, <3>2
  <2> QED
    BY <2>1, <2>2
<1> QED
  BY <1>2, <1>3, <1>4, <1>5 DEF Reads

\* The blocks around bp in the layout.
AroundIs(D, sz, al, bp, p, nx) ==
    /\ \A x \in D : /\ x < p \/ x = p \/ x = bp \/ x >= nx
                    /\ x + sz[x] = bp => x = p
                    /\ nx \in D => (x = nx \/ x < nx \/ x >= nx + sz[nx])
                    /\ (p \notin al /\ x + sz[x] = p) => x \in al
    /\ (nx \in D \ al /\ nx + sz[nx] \in D) => nx + sz[nx] \in al

LEMMA Around ==
  ASSUME NEW h, NEW D, NEW sz, NEW al, NEW bp, Uncoalesced(h, D, sz, al, bp),
         NEW p \in D, p + sz[p] = bp, NEW nx, nx = bp + sz[bp]
  PROVE  AroundIs(D, sz, al, bp, p, nx)
<1>1. TiledIs(h, D, sz, al) /\ bp \in D /\ bp \notin al
  BY TiledFacts DEF Uncoalesced
<1>2. /\ \A x \in D : /\ x \in Nat /\ h.prol <= x /\ x < h.brk /\ sz[x] \in Nat /\ sz[x] >= 8
                      /\ x + sz[x] <= h.brk /\ x + sz[x] \in D \cup {h.brk}
      /\ \A x, y \in D : x < y => x + sz[x] <= y
      /\ bp \in D /\ bp \notin al
  BY <1>1, Zenon DEF TiledIs
<1>3. ASSUME NEW x \in D
      PROVE /\ x < p \/ x = p \/ x = bp \/ x >= nx
            /\ x + sz[x] = bp => x = p
            /\ nx \in D => (x = nx \/ x < nx \/ x >= nx + sz[nx])
  BY <1>2
<1>4. ASSUME NEW x \in D, p \notin al, x + sz[x] = p PROVE x \in al
  <2>1. x # bp /\ x + sz[x] # bp
    BY <1>2, <1>4
  <2> QED
    BY <1>4, <2>1 DEF Uncoalesced
<1>5. ASSUME nx \in D \ al, nx + sz[nx] \in D PROVE nx + sz[nx] \in al
  <2>1. nx # bp /\ nx + sz[nx] # bp
    BY <1>2, <1>5
  <2> QED
    BY <1>5, <2>1 DEF Uncoalesced
<1> QED
  BY <1>3, <1>4, <1>5 DEF AroundIs

\* The free neighbours of bp leave the list.
LEMMA NeighboursCut ==
  ASSUME NEW h, NEW D, NEW sz, NEW al, NEW bp, Loose(h, D, sz, al, bp),
         NEW p \in D, p + sz[p] = bp, p # bp, NEW nx, nx = bp + sz[bp],
         NEW lo, lo = IF p \notin al THEN p ELSE bp,
         NEW hi, hi = IF nx \in D \ al THEN nx + sz[nx] ELSE nx,
         NEW g, g = Unlinked(Unlinked(h, p, p \notin al), nx, nx \in D \ al)
  PROVE  Unlinks(h, g, sz, (D \ al) \ {bp}, lo, hi)
<1>1. LooseIs(h, D, sz, al, bp)
  BY LooseFacts
<1>2. PICK F : F = (D \ al) \ {bp}
  OBVIOUS
<1>3. /\ ListLayout(h.prol, h.brk, D, sz, F) /\ F \in SUBSET D /\ Layout(h.prol, h.brk, D, sz)
      /\ bp \in Nat /\ nx \in Nat /\ bp < nx /\ bp \in D /\ F \subseteq Nat /\ h \in Heaps /\ nx # bp
      /\ p \in Nat /\ lo \in Nat /\ lo <= nx /\ sz[bp] \in Nat /\ bp <= bp /\ bp <= nx
  <2>1. /\ \A x \in D : x \in Nat /\ sz[x] \in Nat /\ sz[x] >= 16
        /\ ListLayout(h.prol, h.brk, D, sz, F) /\ F \in SUBSET D /\ Layout(h.prol, h.brk, D, sz)
        /\ bp \in D /\ h \in Heaps
    BY <1>1, <1>2 DEF LooseIs
  <2>2. p < bp
    BY <2>1
  <2> QED
    BY <2>1, <2>2
<1>4. Unlinks(h, h, sz, F, bp, nx)
  <2>1. Linked(h, F)
    BY <1>2 DEF Loose
  <2>2. Works(h, h, sz, F, bp, bp)
    BY <1>3, <2>1, WorksStart, Zenon
  <2>3. OutsideIs(F, sz, bp, bp, bp)
    BY <1>3, OutsideMore, Zenon
  <2>4. Outside(F, bp, nx) = Outside(F, bp, bp)
    BY <1>2, <2>3 DEF OutsideIs, Outside
  <2>5. Works(h, h, sz, F, bp, nx)
    BY <2>2, <2>4 DEF Works, Touches
  <2> QED
    BY <1>3, <2>5 DEF Unlinks, Relinks
<1>5. PICK f : f = Unlinked(h, p, p \notin al)
  OBVIOUS
<1>6. Unlinks(h, f, sz, F, lo, nx)
  <2>1. CASE p \notin al
    <3>1. p \in F /\ f = cut_out(h, p) /\ lo = p
      BY <1>2, <1>5, <2>1 DEF Unlinked
    <3>2. Unlinks(h, cut_out(h, p), sz, F, p, nx)
      BY <1>3, <1>4, <3>1, UnlinksCut, Zenon
    <3> QED
      BY <3>1, <3>2
  <2>2. CASE p \in al
    BY <1>4, <1>5, <2>2 DEF Unlinked
  <2> QED
    BY <2>1, <2>2
<1>7. CASE nx \in D \ al
  <2>1. nx \in F /\ g = cut_out(f, nx) /\ hi = nx + sz[nx]
    BY <1>2, <1>3, <1>5, <1>7 DEF Unlinked
  <2>2. Unlinks(h, cut_out(f, nx), sz, F, lo, nx + sz[nx])
    BY <1>3, <1>6, <2>1, UnlinksCut, Zenon
  <2> QED
    BY <1>2, <2>1, <2>2
<1>8. CASE nx \notin D \ al
  BY <1>2, <1>5, <1>6, <1>8 DEF Unlinked
<1> QED
  BY <1>7, <1>8

\* set_root(coalesce(bp)).
LEMMA Releases ==
  ASSUME NEW h, NEW D, NEW sz, NEW al, NEW bp, Loose(h, D, sz, al, bp)
  PROVE  Freed(h, Release(h, bp).heap, sz, al, Release(h, bp).ptr, sz[bp])
<1>1. LooseIs(h, D, sz, al, bp) /\ Tiled(h, D, sz, al)
  BY LooseFacts DEF Loose
<1>2. PICK p \in D : /\ p + sz[p] = bp /\ p # bp /\ PREV_BLKP(h, bp) = p
                     /\ GET_ALLOC(h, FTRP(h, p)) = 0 <=> p \notin al
                     /\ NEXT_BLKP(h, bp) = bp + sz[bp] /\ GET_SIZE(h, HDRP(bp)) = sz[bp]
                     /\ GET_ALLOC(h, HDRP(bp + sz[bp])) = 0 <=> bp + sz[bp] \in D \ al
  BY CoalesceReads DEF Loose, Uncoalesced
<1>3. PICK nx, F : nx = bp + sz[bp] /\ F = (D \ al) \ {bp}
  OBVIOUS
<1>4. PICK lo : lo = IF p \notin al THEN p ELSE bp
  OBVIOUS
<1>5. PICK hi : hi = IF nx \in D \ al THEN nx + sz[nx] ELSE nx
  OBVIOUS
<1>6. PICK g : g = Unlinked(Unlinked(h, p, p \notin al), nx, nx \in D \ al)
  OBVIOUS
<1>7. Unlinks(h, g, sz, F, lo, hi)
  BY <1>2, <1>3, <1>4, <1>5, <1>6, NeighboursCut, Zenon
<1>8. /\ \A x \in D : /\ x < p \/ x = p \/ x = bp \/ x >= nx
                      /\ x + sz[x] = bp => x = p
                      /\ nx \in D => (x = nx \/ x < nx \/ x >= nx + sz[nx])
                      /\ (p \notin al /\ x + sz[x] = p) => x \in al
      /\ (nx \in D \ al /\ nx + sz[nx] \in D) => nx + sz[nx] \in al
  <2>1. AroundIs(D, sz, al, bp, p, nx)
    <3>1. Uncoalesced(h, D, sz, al, bp)
      BY DEF Loose, Uncoalesced
    <3> QED
      BY <1>2, <1>3, <3>1, Around, Zenon
  <2> QED
    BY <2>1, Zenon DEF AroundIs
<1>9. /\ \A x \in D : /\ x \in Nat /\ h.prol <= x /\ x < h.brk /\ sz[x] \in Nat /\ sz[x] >= 16
                      /\ x + sz[x] \in Nat /\ x + sz[x] <= h.brk /\ x + sz[x] \in D \cup {h.brk}
      /\ bp \in D /\ bp \notin al /\ bp # h.prol /\ h.prol \in al /\ al \subseteq D
      /\ ListLayout(h.prol, h.brk, D, sz, F) /\ Layout(h.prol, h.brk, D, sz)
      /\ h.brk \in Nat /\ h.brk \notin D
  BY <1>1, <1>3 DEF LooseIs
<1>10. /\ lo \in D /\ hi \in D \cup {h.brk} /\ lo <= bp /\ bp + sz[bp] <= hi /\ lo # h.prol
       /\ lo \in Nat /\ hi \in Nat /\ hi - lo >= 16 /\ hi - lo \in Nat
  BY <1>2, <1>3, <1>4, <1>5, <1>9
<1>11. \A x \in al : x < lo \/ hi <= x
  <2>1. ASSUME NEW x \in al PROVE x < lo \/ hi <= x
    <3>1. x \in D /\ x # bp
      BY <1>9, <2>1
    <3>2. x < lo \/ x >= nx
      BY <1>2, <1>4, <1>8, <1>9, <3>1, <2>1
    <3>3. nx \in D \ al => (x < nx \/ x >= nx + sz[nx])
      BY <1>8, <3>1, <2>1
    <3> QED
      BY <1>3, <1>5, <1>9, <1>10, <3>1, <3>2, <3>3
  <2> QED
    BY <2>1
<1>12. (\A x \in D : x + sz[x] = lo => x \in al) /\ hi \notin D \ al
  <2>1. ASSUME NEW x \in D, x + sz[x] = lo PROVE x \in al
    BY <1>4, <1>8, <2>1
  <2>2. hi \notin D \ al
    BY <1>5, <1>8
  <2> QED
    BY <2>1, <2>2
<1>13. ASSUME NEW k, Works(h, k, sz, F, lo, hi), k.mem[lo - 4] = hi - lo, k.mem[hi - 8] = hi - lo
       PROVE  Freed(h, set_root(k, lo), sz, al, lo, sz[bp])
  BY <1>3, <1>10, <1>11, <1>12, <1>13, JoinCloses, Zenon
<1>14. CASE p \in al /\ nx \notin D \ al
  <2>1. Release(h, bp) = Result(set_root(h, bp), bp)
    BY <1>2, <1>3, <1>14 DEF Release, Rooted, coalesce, Result
  <2>2. g = h /\ lo = bp /\ hi = nx
    BY <1>4, <1>5, <1>6, <1>14 DEF Unlinked
  <2>3. h.mem[bp - 4] = sz[bp] /\ h.mem[bp + sz[bp] - 8] = sz[bp]
    BY <1>1, <1>9 DEF Tiled, Tagged, Tag
  <2>4. hi - lo = sz[bp] /\ hi - 8 = bp + sz[bp] - 8
    BY <1>3, <1>9, <2>2
  <2>5. Freed(h, set_root(h, lo), sz, al, lo, sz[bp])
    BY <1>7, <1>13, <2>2, <2>3, <2>4 DEF Unlinks
  <2> QED
    BY <2>1, <2>2, <2>5 DEF Result
<1>15. CASE p \notin al \/ nx \in D \ al
  <2>1. Tiled(g, D, sz, al) /\ \A x \in D : Reads(g, sz, al, x)
    BY <1>1, <1>7, <1>9, UnlinksReads, Zenon
  <2>2. PICK k : k = PutTags(g, lo, hi - lo, 0)
    OBVIOUS
  <2>3. Release(h, bp) = Result(set_root(k, lo), lo)
    <3>1. coalesce(h, bp) = Merged(g, bp, sz[bp], p, p \notin al, nx, nx \in D \ al)
      BY <1>2, <1>3, <1>6, <1>15 DEF coalesce
    <3>2. hi - lo = sz[bp] + (IF p \notin al THEN sz[p] ELSE 0) + (IF nx \in D \ al THEN sz[nx] ELSE 0)
      BY <1>2, <1>3, <1>4, <1>5, <1>9
    <3>3. /\ GET_SIZE(g, HDRP(p)) = sz[p]
          /\ nx \in D \ al => GET_SIZE(g, FTRP(g, nx)) = sz[nx]
      BY <2>1 DEF Reads
    <3>4. Merged(g, bp, sz[bp], p, p \notin al, nx, nx \in D \ al) = Result(k, lo)
      BY <1>4, <2>2, <3>2, <3>3 DEF Merged
    <3> QED
      BY <3>1, <3>4 DEF Release, Rooted, Result
  <2>4. PutsTags(g, k, lo, hi - lo, hi - lo + 0)
    <3>1. g \in Heaps
      BY <2>1 DEF Tiled
    <3>2. lo - 4 \in Addr
      BY <1>9, <1>10, BlockWords
    <3>3. PICK y \in D : y + sz[y] = hi
      BY <1>3, <1>5, <1>9
    <3>4. lo + (hi - lo) - 8 = y + sz[y] - 8 /\ (hi - lo) % 8 = 0
      <4>1. lo % 8 = 0 /\ hi % 8 = 0
        BY <1>9, <1>10 DEF Layout
      <4> QED
        BY <1>9, <1>10, <3>3, <4>1
    <3>5. lo + (hi - lo) - 8 \in Addr
      BY <1>9, <3>3, <3>4, BlockWords
    <3>6. PICK e \in {0, 1} : e = 0
      OBVIOUS
    <3>7. PutsTags(g, PutTags(g, lo, hi - lo, e), lo, hi - lo, hi - lo + e)
      BY <1>10, <3>1, <3>2, <3>4, <3>5, PutTagsIs
    <3> QED
      BY <2>2, <3>6, <3>7
  <2>5. Writes(g, k, lo, hi) /\ k.mem[lo - 4] = hi - lo + 0 /\ k.mem[hi - 8] = hi - lo + 0
    <3>1. hi - lo >= 8
      BY <1>10
    <3>2. WritesTags(g, k, lo, hi, hi - lo + 0)
      BY <1>10, <2>4, <3>1, PutsTagsWrites
    <3> QED
      BY <3>2, Zenon DEF WritesTags
  <2>6. Works(h, k, sz, F, lo, hi)
    <3>1. lo \in D \cup {h.brk} /\ Works(h, g, sz, F, lo, hi)
      BY <1>7, <1>10 DEF Unlinks
    <3> QED
      BY <1>9, <1>10, <2>5, <3>1, WorksWrite, Zenon
  <2>7. hi - lo + 0 = hi - lo
    BY <1>10
  <2>8. Freed(h, set_root(k, lo), sz, al, lo, sz[bp])
    BY <1>13, <2>5, <2>6, <2>7
  <2> QED
    BY <2>3, <2>8 DEF Result
<1> QED
  BY <1>14, <1>15

-----------------------------------------------------------------------------
(* mm_free.                                                                *)

ListIs(h, D, sz, al) ==
    /\ ListLayout(h.prol, h.brk, D, sz, D \ al) /\ Layout(h.prol, h.brk, D, sz)
    /\ h.prol \in al /\ al \subseteq D /\ h.prol \in D /\ sz \in [D -> Nat]
    /\ h.prol \in Nat /\ h.brk \in Nat /\ h.brk \notin D /\ h \in Heaps
    /\ \A x \in D : /\ x \in Nat /\ h.prol <= x /\ x < h.brk /\ sz[x] \in Nat /\ sz[x] >= 16
                    /\ x % 8 = 0 /\ sz[x] % 8 = 0
                    /\ x + sz[x] \in Nat /\ x + sz[x] <= h.brk /\ x + sz[x] \in D \cup {h.brk}
    /\ \A x, y \in D : x < y => x + sz[x] <= y
    /\ \A x \in D : Reads(h, sz, al, x)

LEMMA ListFacts ==
  ASSUME NEW h, NEW D, NEW sz, NEW al, ListHeap(h, D, sz, al)
  PROVE  ListIs(h, D, sz, al)
<1>1. /\ Layout(h.prol, h.brk, D, sz) /\ sz[h.prol] = 16 /\ h.prol \in al /\ al \subseteq D
      /\ h \in Heaps /\ Tagged(h, D, sz, al)
  BY DEF ListHeap, Tiled
<1>2. \A x, y \in D : x < y => x + sz[x] <= y
  BY <1>1 DEF Layout
<1>3. sz \in [D -> Nat] /\ \A x \in D : sz[x] >= 16 /\ x % 8 = 0 /\ sz[x] % 8 = 0
  BY <1>1 DEF Layout
<1>4. ListLayout(h.prol, h.brk, D, sz, D \ al)
  BY <1>1 DEF ListLayout
<1>5. \A x \in D : Reads(h, sz, al, x)
  BY <1>1, TagsRead, Zenon
<1>6. /\ h.prol \in Nat /\ h.prol \in D /\ h.brk \in Nat /\ D \subseteq Nat /\ h.brk \notin D
      /\ \A x \in D : /\ x \in Nat /\ h.prol <= x /\ x < h.brk /\ sz[x] \in Nat /\ sz[x] >= 8
                      /\ x + sz[x] \in Nat /\ x + sz[x] <= h.brk /\ x + sz[x] \in D \cup {h.brk}
  BY <1>1, LayoutFacts
<1> QED
  BY <1>1, <1>2, <1>3, <1>4, <1>5, <1>6, Zenon DEF ListIs

JoinedIs(D, sz, x) ==
    /\ JoinedTo(D, x, x + sz[x]) = D /\ JoinedSizes(D, sz, x, x + sz[x]) = sz
    /\ \A F \in SUBSET D : Outside(F, x, x + sz[x]) = F \ {x}

LEMMA JoinedSelf ==
  ASSUME NEW prol, NEW brk, NEW D, NEW sz, Layout(prol, brk, D, sz), NEW x \in D
  PROVE  JoinedIs(D, sz, x)
<1>1. /\ \A y \in D : y \in Nat /\ sz[y] \in Nat /\ sz[y] >= 8 /\ (x < y => x + sz[x] <= y)
      /\ sz \in [D -> Nat]
  BY DEF Layout
<1>2. \A y \in D : y <= x \/ x + sz[x] <= y
  BY <1>1
<1>3. JoinedTo(D, x, x + sz[x]) = D
  BY <1>2 DEF JoinedTo
<1>4. JoinedSizes(D, sz, x, x + sz[x]) = sz
  <2>1. (x + sz[x]) - x = sz[x]
    BY <1>1
  <2>2. \A y \in D : sz[y] = IF y = x THEN sz[x] ELSE sz[y]
    OBVIOUS
  <2> QED
    BY <1>1, <1>3, <2>1, <2>2 DEF JoinedSizes
<1>5. ASSUME NEW F \in SUBSET D PROVE Outside(F, x, x + sz[x]) = F \ {x}
  <2>1. \A y \in F : (y < x \/ x + sz[x] <= y) <=> y # x
    BY <1>1
  <2> QED
    BY <2>1 DEF Outside
<1> QED
  BY <1>3, <1>4, <1>5 DEF JoinedIs

\* An allocated block is not in the list.
LEMMA WorksAllocated ==
  ASSUME NEW h, NEW D, NEW sz, NEW al, ListHeap(h, D, sz, al), NEW x \in al
  PROVE  Unlinks(h, h, sz, D \ al, x, x + sz[x])
<1>1. ListIs(h, D, sz, al) /\ x \in D
  BY ListFacts DEF ListIs
<1>2. Outside(D \ al, x, x + sz[x]) = (D \ al) \ {x}
  <2>1. JoinedIs(D, sz, x)
    BY <1>1, JoinedSelf, Zenon DEF ListIs
  <2> QED
    BY <2>1 DEF JoinedIs
<1>3. (D \ al) \ {x} = D \ al
  OBVIOUS
<1>4. Works(h, h, sz, D \ al, x, x + sz[x])
  BY <1>1, <1>2, <1>3 DEF Works, Touches, ListHeap, ListIs
<1> QED
  BY <1>1, <1>4 DEF Unlinks, Relinks, ListIs

\* The tags of a block that is the whole region.
WholeIs(h, k, D, sz, al, x, al2) ==
    /\ Tiled(k, D, sz, al2) /\ Linked(k, (D \ al) \ {x}) /\ k.prol = h.prol
    /\ Kept(h, k, sz, sz, al \ {h.prol, x})

LEMMA TagsWhole ==
  ASSUME NEW h, NEW D, NEW sz, NEW al, ListHeap(h, D, sz, al), NEW x \in D, x # h.prol,
         NEW g, Unlinks(h, g, sz, D \ al, x, x + sz[x]), NEW e \in {0, 1},
         NEW k, k = PutTags(g, x, sz[x], e),
         NEW al2, al2 = (al \ {x}) \cup (IF e = 1 THEN {x} ELSE {})
  PROVE  WholeIs(h, k, D, sz, al, x, al2)
<1>1. ListIs(h, D, sz, al)
  BY ListFacts
<1>2. PICK hi, F : hi = x + sz[x] /\ F = D \ al
  OBVIOUS
<1>3. /\ hi \in Nat /\ x \in Nat /\ hi \in D \cup {h.brk} /\ x < hi /\ hi - x = sz[x] /\ x <= hi
      /\ x \in D \cup {h.brk} /\ sz[x] \in Nat /\ sz[x] % 8 = 0 /\ sz[x] >= 8 /\ x \in Int
  BY <1>1, <1>2 DEF ListIs
<1>4. PutsTags(g, k, x, sz[x], sz[x] + e)
  <2>1. g \in Heaps
    BY DEF Unlinks, Works
  <2>2. x - 4 \in Addr /\ x + sz[x] - 8 \in Addr
    BY <1>1, BlockWords DEF ListIs
  <2> QED
    BY <1>3, <2>1, <2>2, PutTagsIs, Zenon
<1>5. WritesTags(g, k, x, hi, hi - x + e)
  BY <1>3, <1>4, PutsTagsWrites
<1>6. Works(h, k, sz, F, x, hi)
  BY <1>1, <1>2, <1>3, <1>5, WorksWrite, Zenon DEF ListIs, WritesTags, Unlinks
<1>7. Spares(h, k, D, sz, F, x, hi)
  BY <1>1, <1>2, <1>3, <1>6, WorksSame, Zenon DEF ListIs
<1>8. JoinedTo(D, x, hi) = D /\ JoinedSizes(D, sz, x, hi) = sz /\ Outside(F, x, hi) = F \ {x}
      /\ Outside(al, x, hi) = al \ {x}
  <2>1. Layout(h.prol, h.brk, D, sz) /\ F \in SUBSET D /\ al \in SUBSET D
    BY <1>1, <1>2 DEF ListIs
  <2>2. JoinedIs(D, sz, x)
    BY <2>1, JoinedSelf, Zenon
  <2> QED
    BY <1>2, <2>1, <2>2 DEF JoinedIs
<1>9. Tiled(k, D, sz, al2)
  <2>1. al2 = {y \in al : y < x \/ hi <= y} \cup (IF e = 1 THEN {x} ELSE {})
    BY <1>8 DEF Outside
  <2>2. /\ k \in Heaps /\ k.brk = h.brk /\ k.prol = h.prol /\ Touches(h, k, sz, x, hi, D)
        /\ k.mem[x - 4] = hi - x + e /\ k.mem[hi - 8] = hi - x + e
    BY <1>5, <1>6, <1>7 DEF WritesTags, Works, Spares
  <2>3. Tiled(h, D, sz, al)
    BY DEF ListHeap
  <2>4. Tiled(k, JoinedTo(D, x, hi), JoinedSizes(D, sz, x, hi), al2)
    <3>1. x < hi /\ hi \in D \cup {h.brk}
      BY <1>3
    <3> QED
      BY <2>1, <2>2, <2>3, <3>1, TiledJoined
  <2> QED
    BY <1>8, <2>4
<1>10. Linked(k, F \ {x}) /\ k.prol = h.prol
  BY <1>6, <1>8 DEF Works
<1>11. Kept(h, k, sz, sz, al \ {h.prol, x})
  <2>1. PICK Y : Y = al \ {h.prol, x}
    OBVIOUS
  <2>2. Y \in SUBSET (D \ (F \cup {h.prol}))
    BY <1>1, <1>2, <2>1 DEF ListIs
  <2>3. \A y \in Y : (y < x \/ hi <= y) /\ sz[y] = sz[y]
    BY <1>8, <2>1 DEF Outside
  <2> QED
    BY <1>7, <2>1, <2>2, <2>3, Zenon DEF Spares
<1> QED
  BY <1>2, <1>9, <1>10, <1>11 DEF WholeIs

\* What mm_free leaves.
FreeDone(h, g, sz, al, ptr) ==
    \E E, zs : ListHeap(g, E, zs, al \ {ptr}) /\ Kept(h, g, sz, zs, al \ {h.prol, ptr})

LEMMA FreeContract ==
  ASSUME NEW h, NEW D, NEW sz, NEW al, ListHeap(h, D, sz, al), NEW ptr \in al, ptr # h.prol
  PROVE  FreeDone(h, mm_free(h, ptr), sz, al, ptr)
<1>1. ListIs(h, D, sz, al)
  BY ListFacts
<1>2. PICK al2 : al2 = al \ {ptr}
  OBVIOUS
<1>3. PICK k : k = PutTags(h, ptr, sz[ptr], 0)
  OBVIOUS
<1>4. ptr \in D /\ ptr # 0 /\ GET_SIZE(h, HDRP(ptr)) = sz[ptr]
  <2>1. ptr \in D /\ h.prol \in Nat /\ h.prol <= ptr /\ ptr \in Nat /\ h.prol = Start + 8 /\ Reads(h, sz, al, ptr)
    BY <1>1 DEF ListIs, Layout
  <2> QED
    BY <2>1, MemAssumption DEF Reads
<1>5. mm_free(h, ptr) = Release(k, ptr).heap
  BY <1>3, <1>4 DEF mm_free, NULL
<1>6. /\ Tiled(k, D, sz, al2) /\ Linked(k, (D \ al) \ {ptr}) /\ k.prol = h.prol
      /\ Kept(h, k, sz, sz, al \ {h.prol, ptr})
  <2>1. Unlinks(h, h, sz, D \ al, ptr, ptr + sz[ptr])
    BY WorksAllocated
  <2>2. PICK e \in {0, 1} : e = 0
    OBVIOUS
  <2>3. al2 = (al \ {ptr}) \cup (IF e = 1 THEN {ptr} ELSE {}) /\ k = PutTags(h, ptr, sz[ptr], e)
    BY <1>2, <1>3, <2>2
  <2>4. WholeIs(h, k, D, sz, al, ptr, al2)
    BY <1>4, <2>1, <2>3, TagsWhole, Zenon
  <2> QED
    BY <2>4, Zenon DEF WholeIs
<1>7. Loose(k, D, sz, al2, ptr)
  <2>1. (D \ al) \ {ptr} = (D \ al2) \ {ptr} /\ ptr \in D \ al2
    BY <1>2, <1>4
  <2>2. \A x \in D \ al2 : x + sz[x] \in D \ al2 => x = ptr \/ x + sz[x] = ptr
    BY <1>2 DEF ListHeap, Apart
  <2> QED
    BY <1>6, <2>1, <2>2 DEF Loose, ListHeap
<1>8. PICK g, p : g = Release(k, ptr).heap /\ p = Release(k, ptr).ptr
  OBVIOUS
<1>9. Freed(k, g, sz, al2, p, sz[ptr])
  BY <1>7, <1>8, Releases
<1>10. PICK E, zs : ListHeap(g, E, zs, al2) /\ Kept(k, g, sz, zs, al2 \ {k.prol})
  BY <1>9 DEF Freed
<1>11. al2 \ {k.prol} = al \ {h.prol, ptr}
  BY <1>2, <1>6
<1>12. Kept(h, g, sz, zs, al \ {h.prol, ptr})
  BY <1>6, <1>10, <1>11, KeptOn, Zenon
<1> QED
  BY <1>2, <1>5, <1>8, <1>10, <1>12 DEF FreeDone

-----------------------------------------------------------------------------
(* A region is split into an allocated block and a free one.               *)

\* Header and footer of both parts.
SplitIn(g, k, lo, hi, n) ==
    /\ Writes(g, k, lo, hi) /\ k.mem[lo - 4] = n + 1 /\ k.mem[lo + n - 8] = n + 1
    /\ k.mem[lo + n - 4] = hi - lo - n /\ k.mem[hi - 8] = hi - lo - n
    /\ \A a \in Addr : lo <= a /\ a < lo + n - 8 => k.mem[a] = g.mem[a]

LEMMA SplitPuts ==
  ASSUME NEW g \in Heaps, NEW lo \in Nat, NEW hi \in Nat, NEW n \in Nat, n % 8 = 0, n >= 16,
         lo + n + 16 <= hi, (hi - lo) % 8 = 0,
         lo - 4 \in Addr, lo + n - 8 \in Addr, lo + n - 4 \in Addr, hi - 8 \in Addr,
         NEW k, k = Split(g, lo, n, hi - lo - n)
  PROVE  SplitIn(g, k, lo, hi, n)
<1>1. PICK f : f = PutTags(g, lo, n, 1)
  OBVIOUS
<1>2. PutsTags(g, f, lo, n, n + 1)
  <2>1. PICK e \in {0, 1} : e = 1
    OBVIOUS
  <2>2. PutsTags(g, PutTags(g, lo, n, e), lo, n, n + e)
    BY PutTagsIs
  <2> QED
    BY <1>1, <2>1, <2>2
<1>3. PICK mid, m : mid = lo + n /\ m = hi - lo - n
  OBVIOUS
<1>4. /\ mid \in Nat /\ m \in Nat /\ m % 8 = 0 /\ m >= 16 /\ mid - 4 \in Addr /\ mid + m - 8 = hi - 8
      /\ mid + m - 8 \in Addr /\ mid \in Int
  BY <1>3
<1>5. NEXT_BLKP(f, lo) = mid
  <2>1. ((n + 1) \div 8) * 8 = n
    OBVIOUS
  <2> QED
    BY <1>2, <1>3, <2>1 DEF NEXT_BLKP, GET_SIZE, HDRP, WSIZE, PutsTags
<1>6. k = PutTags(f, mid, m, 0)
  BY <1>1, <1>3, <1>5 DEF Split, PutRest
<1>7. PutsTags(f, k, mid, m, m + 0)
  <2>1. PICK e \in {0, 1} : e = 0
    OBVIOUS
  <2>2. f \in Heaps
    BY <1>2 DEF PutsTags
  <2>3. PutsTags(f, PutTags(f, mid, m, e), mid, m, m + e)
    BY <1>4, <2>2, PutTagsIs
  <2> QED
    BY <1>6, <2>1, <2>3
<1>8. m + 0 = m
  BY <1>4
<1>9. /\ k \in Heaps /\ k.brk = g.brk /\ k.prol = g.prol /\ k.root = g.root
      /\ k.mem[mid - 4] = m /\ k.mem[hi - 8] = m
      /\ \A a \in Addr \ {lo - 4, lo + n - 8, mid - 4, hi - 8} : k.mem[a] = g.mem[a]
      /\ f.mem[lo - 4] = n + 1 /\ f.mem[lo + n - 8] = n + 1
      /\ \A a \in Addr \ {mid - 4, hi - 8} : k.mem[a] = f.mem[a]
  BY <1>2, <1>4, <1>7, <1>8 DEF PutsTags
<1>10. /\ lo - 4 # mid - 4 /\ lo - 4 # hi - 8 /\ lo + n - 8 # mid - 4 /\ lo + n - 8 # hi - 8
       /\ \A a \in {lo - 4, lo + n - 8, mid - 4, hi - 8} : lo - 4 <= a /\ a < hi - 4
       /\ \A a \in {lo - 4, lo + n - 8, mid - 4, hi - 8} : ~(lo <= a /\ a < lo + n - 8)
  <2>1. PICK w : w = lo + n - 8
    OBVIOUS
  <2>2. /\ w \in Int /\ lo + 8 <= w /\ w + 8 = mid /\ w + 24 <= hi
    BY <1>3, <2>1
  <2>3. /\ lo - 4 # mid - 4 /\ lo - 4 # hi - 8 /\ w # mid - 4 /\ w # hi - 8
    BY <1>4, <2>2
  <2>4. ASSUME NEW a \in {lo - 4, w, mid - 4, hi - 8} PROVE lo - 4 <= a /\ a < hi - 4 /\ ~(lo <= a /\ a < w)
    BY <1>4, <2>2, <2>4
  <2> QED
    BY <2>1, <2>3, <2>4
<1>11. k.mem[lo - 4] = n + 1 /\ k.mem[lo + n - 8] = n + 1
  BY <1>9, <1>10
<1>12. Writes(g, k, lo, hi)
  BY <1>9, <1>10 DEF Writes
<1>13. ASSUME NEW a \in Addr, lo <= a, a < lo + n - 8 PROVE k.mem[a] = g.mem[a]
  <2>1. a \notin {lo - 4, lo + n - 8, mid - 4, hi - 8}
    BY <1>10, <1>13, Zenon
  <2> QED
    BY <1>9, <2>1, Zenon
<1> QED
  BY <1>3, <1>9, <1>11, <1>12, <1>13 DEF SplitIn

SplitLeaves(h, g, k, D, sz, al, lo, hi, n, E, cs, al2) ==
    /\ Loose(k, E, cs, al2, lo + n) /\ SplitIs(E, cs, D, sz, lo, hi, n) /\ k.prol = h.prol
    /\ Kept(h, k, sz, cs, Outside(al, lo, hi) \ {h.prol})
    /\ \A a \in Addr : lo <= a /\ a < lo + n - 8 => k.mem[a] = g.mem[a]

LEMMA SplitLoose ==
  ASSUME NEW h, NEW D, NEW sz, NEW al, ListHeap(h, D, sz, al),
         NEW lo \in D, NEW hi \in D \cup {h.brk}, lo # h.prol,
         NEW n \in Nat, n % 8 = 0, n >= 16, lo + n + 16 <= hi,
         NEW g, Works(h, g, sz, D \ al, lo, hi), NEW k, k = Split(g, lo, n, hi - lo - n),
         NEW E, NEW cs, E = SplitTo(D, lo, hi, n), cs = SplitSizes(D, sz, lo, hi, n),
         NEW al2, al2 = Outside(al, lo, hi) \cup {lo}
  PROVE  SplitLeaves(h, g, k, D, sz, al, lo, hi, n, E, cs, al2)
<1>1. ListIs(h, D, sz, al)
  BY ListFacts
<1>2. /\ \A x \in D : x \in Nat /\ h.prol <= x /\ x < h.brk /\ sz[x] \in Nat /\ sz[x] >= 16 /\ x % 8 = 0
      /\ h.prol \in Nat /\ h.prol \in D /\ h.prol \in al /\ al \subseteq D
      /\ h.brk \in Nat /\ D \subseteq Nat /\ h.brk % 8 = 0
      /\ ListLayout(h.prol, h.brk, D, sz, D \ al) /\ Layout(h.prol, h.brk, D, sz)
  BY <1>1 DEF ListIs, Layout
<1>3. PICK mid : mid = lo + n
  OBVIOUS
<1>4. /\ lo \in Nat /\ hi \in Nat /\ lo < hi /\ lo <= hi /\ lo + n < hi /\ n > 0 /\ n < hi - lo /\ mid \in Nat
      /\ lo < mid /\ mid < hi /\ h.prol < lo /\ hi \in Int /\ (hi - lo) % 8 = 0 /\ lo \in D \cup {h.brk}
      /\ n + 16 <= hi - lo
  <2>1. lo \in Nat /\ hi \in Nat /\ lo % 8 = 0 /\ hi % 8 = 0 /\ h.prol <= lo
    BY <1>2
  <2>2. (hi - lo) % 8 = 0
    BY <2>1
  <2> QED
    BY <1>2, <1>3, <2>1, <2>2
<1>5. SplitIs(E, cs, D, sz, lo, hi, n)
  <2>1. SplitIs(SplitTo(D, lo, hi, n), SplitSizes(D, sz, lo, hi, n), D, sz, lo, hi, n)
    BY <1>2, <1>4, SplitBlocks
  <2> QED
    BY <2>1
<1>6. /\ E = Outside(D, lo, hi) \cup {lo, mid} /\ cs[lo] = n /\ cs[mid] = hi - lo - n
      /\ \A x \in Outside(D, lo, hi) : cs[x] = sz[x]
  <2>1. {x \in D : x <= lo \/ hi <= x} = Outside(D, lo, hi) \cup {lo}
    <3>1. \A x \in D : (x <= lo \/ hi <= x) <=> (x < lo \/ hi <= x \/ x = lo)
      BY <1>2, <1>4
    <3> QED
      BY <3>1 DEF Outside
  <2> QED
    BY <1>3, <1>5, <2>1 DEF SplitIs, Outside
<1>7. mid \notin Outside(D, lo, hi) /\ lo \notin Outside(D, lo, hi) /\ mid # lo
  BY <1>4 DEF Outside
<1>8. Layout(h.prol, h.brk, E, cs)
  <2>1. Layout(h.prol, h.brk, JoinedTo(D, lo, hi), JoinedSizes(D, sz, lo, hi))
    BY <1>2, <1>4, LayoutJoined, Zenon
  <2>2. lo \in JoinedTo(D, lo, hi) /\ JoinedSizes(D, sz, lo, hi)[lo] = hi - lo
    BY <1>4 DEF JoinedTo, JoinedSizes
  <2>3. n + 16 <= JoinedSizes(D, sz, lo, hi)[lo]
    BY <1>4, <2>2
  <2>4. Layout(h.prol, h.brk, JoinedTo(D, lo, hi) \cup {lo + n},
               CutSizes(JoinedTo(D, lo, hi), JoinedSizes(D, sz, lo, hi), lo, n))
    BY <2>1, <2>2, <2>3, LayoutCut, Zenon
  <2> QED
    BY <2>4 DEF SplitTo, SplitSizes
<1>9. lo - 4 \in Addr /\ lo + n - 8 \in Addr /\ lo + n - 4 \in Addr /\ hi - 8 \in Addr
  <2>1. lo \in E /\ mid \in E /\ mid + cs[mid] - 8 = hi - 8
    BY <1>3, <1>4, <1>6
  <2>2. lo - 4 \in Addr /\ lo + cs[lo] - 8 \in Addr /\ mid - 4 \in Addr /\ mid + cs[mid] - 8 \in Addr
    BY <1>8, <2>1, BlockWords
  <2> QED
    BY <1>3, <1>6, <2>1, <2>2
<1>10. SplitIn(g, k, lo, hi, n)
  BY <1>4, <1>9, SplitPuts, Zenon DEF Works
<1>11. Works(h, k, sz, D \ al, lo, hi)
  BY <1>2, <1>4, <1>10, WorksWrite, Zenon DEF SplitIn
<1>12. Spares(h, k, D, sz, D \ al, lo, hi)
  BY <1>2, <1>4, <1>11, WorksSame, Zenon
<1>13. Tiled(k, E, cs, al2)
  <2>1. al2 = {x \in al : x < lo \/ hi <= x} \cup {lo}
    BY DEF Outside
  <2>2. /\ k \in Heaps /\ k.brk = h.brk /\ k.prol = h.prol /\ Touches(h, k, sz, lo, hi, D)
    BY <1>11, <1>12 DEF Works, Spares
  <2>3. /\ k.mem[lo - 4] = n + 1 /\ k.mem[lo + n - 8] = n + 1
        /\ k.mem[lo + n - 4] = hi - lo - n /\ k.mem[hi - 8] = hi - lo - n
    BY <1>10 DEF SplitIn
  <2>4. Tiled(h, D, sz, al)
    BY DEF ListHeap
  <2>5. Tiled(k, SplitTo(D, lo, hi, n), SplitSizes(D, sz, lo, hi, n), al2)
    BY <2>1, <2>2, <2>3, <2>4, TiledSplit
  <2> QED
    BY <2>5
<1>14. cs[k.prol] = 16 /\ k.prol = h.prol
  <2>1. h.prol \in Outside(D, lo, hi) /\ sz[h.prol] = 16
    BY <1>2, <1>4 DEF Outside, ListLayout
  <2> QED
    BY <1>6, <1>11, <2>1 DEF Works
<1>15. (E \ al2) \ {mid} = Outside(D \ al, lo, hi) /\ mid \in E \ al2
  <2>1. Outside(al, lo, hi) \subseteq Outside(D, lo, hi)
    BY <1>2 DEF Outside
  <2>2. Outside(D \ al, lo, hi) = Outside(D, lo, hi) \ Outside(al, lo, hi)
    BY DEF Outside
  <2> QED
    BY <1>6, <1>7, <2>1, <2>2
<1>16. \A x \in E \ al2 : x + cs[x] \in E \ al2 => x = mid \/ x + cs[x] = mid
  <2>1. ASSUME NEW x \in E \ al2, x + cs[x] \in E \ al2, x # mid, x + cs[x] # mid PROVE FALSE
    <3>1. x \in Outside(D \ al, lo, hi) /\ x + cs[x] \in Outside(D \ al, lo, hi)
      BY <1>15, <2>1
    <3>2. x \in D \ al /\ x + sz[x] \in D \ al
      BY <1>6, <3>1 DEF Outside
    <3> QED
      BY <3>2 DEF ListHeap, Apart
  <2> QED
    BY <2>1
<1>17. Loose(k, E, cs, al2, mid)
  BY <1>11, <1>13, <1>14, <1>15, <1>16 DEF Loose, Works
<1>18. Kept(h, k, sz, cs, Outside(al, lo, hi) \ {h.prol})
  <2>1. PICK Y : Y = Outside(al, lo, hi) \ {h.prol}
    OBVIOUS
  <2>2. Y \in SUBSET (D \ ((D \ al) \cup {h.prol}))
    BY <1>2, <2>1 DEF Outside
  <2>3. \A y \in Y : (y < lo \/ hi <= y) /\ cs[y] = sz[y]
    BY <1>2, <1>6, <2>1 DEF Outside
  <2> QED
    BY <1>12, <2>1, <2>2, <2>3, Zenon DEF Spares
<1> QED
  BY <1>3, <1>5, <1>10, <1>14, <1>17, <1>18, Zenon DEF SplitIn, SplitLeaves

\* After set_root(coalesce()) of the free part.
SplitDone(h, g, r, sz, al, lo, hi, n) ==
    \E E, zs : /\ ListHeap(r, E, zs, Outside(al, lo, hi) \cup {lo}) /\ zs[lo] = n
               /\ Kept(h, r, sz, zs, Outside(al, lo, hi) \ {h.prol}) /\ r.prol = h.prol
               /\ \A a \in Addr : lo <= a /\ a < lo + n - 8 => r.mem[a] = g.mem[a]

LEMMA SplitReleased ==
  ASSUME NEW h, NEW D, NEW sz, NEW al, ListHeap(h, D, sz, al),
         NEW lo \in D, NEW hi \in D \cup {h.brk}, lo # h.prol,
         NEW n \in Nat, n % 8 = 0, n >= 16, lo + n + 16 <= hi,
         NEW g, Works(h, g, sz, D \ al, lo, hi), NEW k, k = Split(g, lo, n, hi - lo - n)
  PROVE  /\ SplitDone(h, g, ReleaseRest(k, lo), sz, al, lo, hi, n)
         /\ hi \notin D \ al => SplitDone(h, g, RootRest(k, lo), sz, al, lo, hi, n)
<1>1. PICK E, cs : E = SplitTo(D, lo, hi, n) /\ cs = SplitSizes(D, sz, lo, hi, n)
  OBVIOUS
<1>2. PICK al2 : al2 = Outside(al, lo, hi) \cup {lo}
  OBVIOUS
<1>3. SplitLeaves(h, g, k, D, sz, al, lo, hi, n, E, cs, al2)
  BY <1>1, <1>2, SplitLoose, Zenon
<1>4. PICK mid : mid = lo + n
  OBVIOUS
<1>5. /\ Loose(k, E, cs, al2, mid) /\ SplitIs(E, cs, D, sz, lo, hi, n) /\ k.prol = h.prol
      /\ Kept(h, k, sz, cs, Outside(al, lo, hi) \ {h.prol})
      /\ \A a \in Addr : lo <= a /\ a < lo + n - 8 => k.mem[a] = g.mem[a]
  BY <1>3, <1>4, Zenon DEF SplitLeaves
<1>6. /\ lo \in Nat /\ hi \in Nat /\ h.prol \in Nat /\ h.prol < lo /\ lo < mid /\ mid < hi /\ mid \in Nat
      /\ \A x \in D : x \in Nat
  <2>1. ListIs(h, D, sz, al)
    BY ListFacts
  <2> QED
    BY <1>4, <2>1 DEF ListIs
<1>7. cs[lo] = n /\ lo \in E /\ cs[mid] = hi - mid /\ mid + cs[mid] = hi
  BY <1>4, <1>5, <1>6 DEF SplitIs
<1>8. PICK m, p, r : m = cs[mid] /\ p = Release(k, mid).ptr /\ r = Release(k, mid).heap
  OBVIOUS
<1>9. Freed(k, r, cs, al2, p, m)
  BY <1>5, <1>8, Releases
<1>10. PICK W, zs : /\ ListHeap(r, W, zs, al2) /\ Kept(k, r, cs, zs, al2 \ {k.prol}) /\ r.prol = k.prol
  BY <1>9 DEF Freed
<1>11. LooseIs(k, E, cs, al2, mid)
  BY <1>5, LooseFacts
<1>12. SplitDone(h, g, r, sz, al, lo, hi, n)
  <2>1. lo \in al2 \ {k.prol} /\ Outside(al, lo, hi) \ {h.prol} \subseteq al2 \ {k.prol}
    BY <1>2, <1>5
  <2>2. Kept(k, r, cs, zs, Outside(al, lo, hi) \ {h.prol})
    BY <1>10, <2>1, Zenon DEF Kept
  <2>3. Kept(h, r, sz, zs, Outside(al, lo, hi) \ {h.prol})
    <3>1. Kept(h, k, sz, cs, Outside(al, lo, hi) \ {h.prol})
      BY <1>5, Zenon
    <3> QED
      BY <2>2, <3>1, KeptOn
  <2>4. zs[lo] = n /\ \A a \in Addr : lo <= a /\ a < lo + n - 8 => r.mem[a] = k.mem[a]
    <3>1. /\ zs[lo] = cs[lo]
          /\ \A a \in Addr : lo <= a /\ a < lo + cs[lo] - 8 => r.mem[a] = k.mem[a]
      BY <1>10, <2>1, Zenon DEF Kept
    <3> QED
      BY <1>7, <3>1
  <2>5. \A a \in Addr : lo <= a /\ a < lo + n - 8 => r.mem[a] = g.mem[a]
    BY <1>5, <2>4
  <2> QED
    BY <1>2, <1>5, <1>10, <2>3, <2>4, <2>5 DEF SplitDone
<1>13. NEXT_BLKP(k, lo) = mid
  <2>1. Reads(k, cs, al2, lo)
    BY <1>5, <1>7, TagsRead DEF Loose, Tiled
  <2> QED
    BY <1>4, <1>7, <2>1 DEF Reads
<1>14. SplitDone(h, g, ReleaseRest(k, lo), sz, al, lo, hi, n)
  BY <1>8, <1>12, <1>13 DEF ReleaseRest
<1>15. ASSUME hi \notin D \ al PROVE SplitDone(h, g, RootRest(k, lo), sz, al, lo, hi, n)
  <2>1. PICK q \in E : /\ q + cs[q] = mid /\ q # mid /\ PREV_BLKP(k, mid) = q
                       /\ GET_ALLOC(k, FTRP(k, q)) = 0 <=> q \notin al2
                       /\ NEXT_BLKP(k, mid) = mid + cs[mid] /\ GET_SIZE(k, HDRP(mid)) = cs[mid]
                       /\ GET_ALLOC(k, HDRP(mid + cs[mid])) = 0 <=> mid + cs[mid] \in E \ al2
    <3>1. Uncoalesced(k, E, cs, al2, mid)
      BY <1>5 DEF Loose, Uncoalesced
    <3> QED
      BY <3>1, CoalesceReads
  <2>2. q = lo
    <3>1. AroundIs(E, cs, al2, mid, q, mid + cs[mid])
      <4>1. Uncoalesced(k, E, cs, al2, mid)
        BY <1>5 DEF Loose, Uncoalesced
      <4> QED
        BY <2>1, <4>1, Around, Zenon
    <3>2. lo + cs[lo] = mid
      BY <1>4, <1>7
    <3> QED
      BY <1>7, <3>1, <3>2 DEF AroundIs
  <2>3. hi \notin E \ al2
    <3>1. hi \in E => hi \in D
      BY <1>4, <1>5, <1>6 DEF SplitIs
    <3>2. hi \in al => hi \in al2
      BY <1>2, <1>6 DEF Outside
    <3> QED
      BY <1>15, <3>1, <3>2
  <2>4. Release(k, mid).heap = set_root(k, mid)
    BY <1>2, <1>7, <2>1, <2>2, <2>3 DEF Release, Rooted, coalesce, Result
  <2> QED
    BY <1>8, <1>12, <1>13, <2>4 DEF RootRest
<1> QED
  BY <1>14, <1>15

-----------------------------------------------------------------------------
(* place.                                                                  *)

\* A block p of at least n bytes is allocated besides the blocks al.
Allocated(h, g, sz, al, p, n) ==
    \E E, zs : /\ ListHeap(g, E, zs, al \cup {p}) /\ p \notin al /\ zs[p] >= n
               /\ Kept(h, g, sz, zs, al \ {h.prol}) /\ g.prol = h.prol

LEMMA WorksFree ==
  ASSUME NEW h, NEW D, NEW sz, NEW al, ListHeap(h, D, sz, al), NEW x \in D \ al
  PROVE  Unlinks(h, cut_out(h, x), sz, D \ al, x, x + sz[x])
<1>1. ListIs(h, D, sz, al)
  BY ListFacts
<1>2. PICK F : F = D \ al
  OBVIOUS
<1>3. x \in Nat /\ F \subseteq Nat /\ h \in Heaps /\ Linked(h, F) /\ x <= x /\ x \in F
  BY <1>1, <1>2 DEF ListIs, ListHeap
<1>4. Works(h, h, sz, F, x, x)
  BY <1>3, WorksStart, Zenon
<1>5. Unlinks(h, h, sz, F, x, x)
  BY <1>3, <1>4 DEF Unlinks, Relinks
<1>6. ListLayout(h.prol, h.brk, D, sz, F)
  BY <1>1, <1>2 DEF ListIs
<1>7. Unlinks(h, cut_out(h, x), sz, F, x, x + sz[x])
  BY <1>3, <1>5, <1>6, UnlinksCut, Zenon
<1> QED
  BY <1>2, <1>7

LEMMA PlaceContract ==
  ASSUME NEW h, NEW D, NEW sz, NEW al, ListHeap(h, D, sz, al), NEW bp \in D \ al,
         NEW n \in Nat, n % 8 = 0, n >= 16, n <= sz[bp]
  PROVE  Allocated(h, place(h, bp, n), sz, al, bp, n)
<1>1. ListIs(h, D, sz, al)
  BY ListFacts
<1>2. /\ bp \in D /\ bp \in Nat /\ sz[bp] \in Nat /\ GET_SIZE(h, HDRP(bp)) = sz[bp] /\ bp # h.prol
      /\ bp + sz[bp] \in D \cup {h.brk} /\ h.prol \in al /\ al \subseteq D /\ Layout(h.prol, h.brk, D, sz)
  BY <1>1 DEF ListIs, Reads
<1>3. PICK g, hi : g = cut_out(h, bp) /\ hi = bp + sz[bp]
  OBVIOUS
<1>4. Unlinks(h, g, sz, D \ al, bp, hi)
  BY <1>3, WorksFree
<1>5. CASE sz[bp] < n + 16
  <2>1. PICK k : k = PutTags(g, bp, sz[bp], 1)
    OBVIOUS
  <2>2. place(h, bp, n) = k
    BY <1>2, <1>3, <1>5, <2>1 DEF place, MIN_BSIZE, DSIZE
  <2>3. WholeIs(h, k, D, sz, al, bp, al \cup {bp})
    <3>1. PICK e \in {0, 1} : e = 1
      OBVIOUS
    <3>2. al \cup {bp} = (al \ {bp}) \cup (IF e = 1 THEN {bp} ELSE {}) /\ k = PutTags(g, bp, sz[bp], e)
      BY <2>1, <3>1
    <3> QED
      BY <1>2, <1>3, <1>4, <3>2, TagsWhole
  <2>4. /\ Tiled(k, D, sz, al \cup {bp}) /\ Linked(k, (D \ al) \ {bp}) /\ k.prol = h.prol
        /\ Kept(h, k, sz, sz, al \ {h.prol, bp})
    BY <2>3, Zenon DEF WholeIs
  <2>5. (D \ al) \ {bp} = D \ (al \cup {bp}) /\ al \ {h.prol, bp} = al \ {h.prol}
    BY <1>2
  <2>6. Apart(D, sz, al \cup {bp})
    BY DEF ListHeap, Apart
  <2>7. ListHeap(k, D, sz, al \cup {bp})
    BY <2>4, <2>5, <2>6 DEF ListHeap
  <2> QED
    BY <2>2, <2>4, <2>5, <2>7 DEF Allocated
<1>6. CASE sz[bp] >= n + 16
  <2>1. PICK k : k = Split(g, bp, n, hi - bp - n)
    OBVIOUS
  <2>2. place(h, bp, n) = RootRest(k, bp)
    <3>1. hi - bp - n = sz[bp] - n /\ ~(sz[bp] < n + 16)
      BY <1>2, <1>3, <1>6
    <3> QED
      BY <1>2, <1>3, <2>1, <3>1 DEF place, MIN_BSIZE, DSIZE
  <2>3. hi \notin D \ al
    BY <1>3 DEF ListHeap, Apart
  <2>4. bp + n + 16 <= hi /\ hi \in D \cup {h.brk}
    BY <1>2, <1>3, <1>6
  <2>5. SplitDone(h, g, RootRest(k, bp), sz, al, bp, hi, n)
    BY <1>2, <1>4, <2>1, <2>3, <2>4, SplitReleased, Zenon DEF Unlinks
  <2>6. PICK E, zs : /\ ListHeap(RootRest(k, bp), E, zs, Outside(al, bp, hi) \cup {bp}) /\ zs[bp] = n
                     /\ Kept(h, RootRest(k, bp), sz, zs, Outside(al, bp, hi) \ {h.prol})
                     /\ RootRest(k, bp).prol = h.prol
    BY <2>5 DEF SplitDone
  <2>7. Outside(al, bp, hi) = al
    <3>1. JoinedIs(D, sz, bp)
      BY <1>2, JoinedSelf, Zenon
    <3> QED
      BY <1>2, <1>3, <3>1 DEF JoinedIs
  <2>8. zs[bp] >= n
    BY <2>6
  <2> QED
    BY <2>2, <2>6, <2>7, <2>8 DEF Allocated
<1> QED
  BY <1>2, <1>5, <1>6

-----------------------------------------------------------------------------
(* extend_heap.                                                            *)

\* g is h with a free block of n bytes from b on.
GrowsTo(h, g, b, n) ==
    /\ g \in Heaps /\ g.brk = b + n /\ g.prol = h.prol /\ g.root = h.root
    /\ g.mem[b - 4] = n /\ g.mem[b + n - 8] = n /\ g.mem[b + n - 4] = 1
    /\ \A a \in Addr : a < b - 4 => g.mem[a] = h.mem[a]

GrownTags(h, g, D, sz, al, b, n, zs) ==
    /\ Tiled(g, D \cup {b}, zs, al) /\ Kept(h, g, sz, zs, D) /\ b \notin D
    /\ zs[b] = n /\ \A x \in D : zs[x] = sz[x]

LEMMA GrownTiled ==
  ASSUME NEW h, NEW D, NEW sz, NEW al, Tiled(h, D, sz, al),
         NEW b, b = h.brk, NEW n \in Nat, n % 8 = 0, n >= 16, b + n <= Start + MAX_HEAP,
         NEW g, GrowsTo(h, g, b, n)
  PROVE  GrownTags(h, g, D, sz, al, b, n, GrownSizes(D, sz, b, n))
<1>1. TiledIs(h, D, sz, al)
  BY TiledFacts
<1>2. PICK E, zs : E = D \cup {b} /\ zs = GrownSizes(D, sz, b, n)
  OBVIOUS
<1>3. /\ Layout(h.prol, h.brk, D, sz) /\ Tagged(h, D, sz, al) /\ h.prol \in al /\ al \subseteq D
      /\ b \in Nat /\ h.prol \in D
      /\ \A x \in D : /\ x \in Nat /\ sz[x] \in Nat /\ sz[x] >= 8 /\ x + sz[x] \in Nat
                      /\ x + sz[x] <= b /\ x + sz[x] \in D \cup {b} /\ x < b
  BY <1>1 DEF TiledIs
<1>4. Layout(g.prol, g.brk, E, zs) /\ b \notin D
  <2>1. Layout(h.prol, b, D, sz)
    BY <1>3
  <2>2. Layout(h.prol, b + n, D \cup {b}, GrownSizes(D, sz, b, n)) /\ b \notin D
    BY <2>1, LayoutGrown, Zenon
  <2> QED
    BY <1>2, <2>2 DEF GrowsTo
<1>5. zs[b] = n /\ \A x \in D : zs[x] = sz[x]
  <2>1. \A x \in D : x # b
    BY <1>4
  <2> QED
    BY <1>2, <2>1 DEF GrownSizes
<1>6. b \notin al
  BY <1>3, <1>4
<1>7. Tagged(g, E, zs, al)
  <2>1. ASSUME NEW x \in D PROVE g.mem[x - 4] = Tag(zs, al, x) /\ g.mem[x + zs[x] - 8] = Tag(zs, al, x)
    <3>1. x - 4 \in Addr /\ x + sz[x] - 8 \in Addr
      BY <1>3, BlockWords
    <3>2. x - 4 < b - 4 /\ x + sz[x] - 8 < b - 4
      BY <1>3
    <3>3. g.mem[x - 4] = h.mem[x - 4] /\ g.mem[x + sz[x] - 8] = h.mem[x + sz[x] - 8]
      BY <3>1, <3>2 DEF GrowsTo
    <3> QED
      BY <1>3, <1>5, <3>3 DEF Tagged, Tag
  <2>2. g.mem[b - 4] = Tag(zs, al, b) /\ g.mem[b + zs[b] - 8] = Tag(zs, al, b)
    BY <1>5, <1>6 DEF Tag, GrowsTo
  <2>3. g.mem[g.brk - 4] = 1
    BY <1>3 DEF GrowsTo
  <2> QED
    BY <1>2, <2>1, <2>2, <2>3, Zenon DEF Tagged
<1>8. Tiled(g, E, zs, al)
  BY <1>2, <1>3, <1>4, <1>7 DEF Tiled, GrowsTo
<1>9. Kept(h, g, sz, zs, D)
  <2>1. ASSUME NEW x \in D, NEW a \in Addr, x <= a, a < x + sz[x] - 8 PROVE g.mem[a] = h.mem[a]
    <3>1. a < b - 4
      BY <1>3, <2>1, AddrIsNat
    <3> QED
      BY <3>1 DEF GrowsTo
  <2> QED
    BY <1>5, <2>1 DEF Kept
<1> QED
  BY <1>2, <1>4, <1>5, <1>8, <1>9 DEF GrownTags

LEMMA GrownLoose ==
  ASSUME NEW h, NEW D, NEW sz, NEW al, ListHeap(h, D, sz, al),
         NEW b, b = h.brk, NEW g, NEW n, NEW zs, GrownTags(h, g, D, sz, al, b, n, zs), GrowsTo(h, g, b, n)
  PROVE  Loose(g, D \cup {b}, zs, al, b)
<1>1. ListIs(h, D, sz, al) /\ Linked(h, D \ al)
  BY ListFacts DEF ListHeap
<1>2. Tiled(g, D \cup {b}, zs, al) /\ b \notin D /\ \A x \in D : zs[x] = sz[x]
  BY DEF GrownTags
<1>3. /\ Layout(h.prol, h.brk, D, sz) /\ h.prol \in al /\ al \subseteq D /\ b \in Nat /\ h.prol \in D
      /\ \A x \in D : x \in Nat /\ sz[x] \in Nat /\ sz[x] >= 16 /\ x + sz[x] <= b
  BY <1>1 DEF ListIs
<1>4. zs[g.prol] = 16 /\ g.root = h.root /\ g.prol = h.prol
  BY <1>2, <1>3 DEF ListHeap, GrowsTo
<1>5. ASSUME NEW x \in (D \ al) \cup {h.prol} PROVE g.mem[x] = h.mem[x] /\ g.mem[x + 4] = h.mem[x + 4]
  <2>1. x \in D
    BY <1>3
  <2>2. x \in Addr /\ x + 4 \in Addr
    BY <1>3, <2>1, BlockWords
  <2>3. x < b - 4 /\ x + 4 < b - 4
    BY <1>3, <2>1
  <2> QED
    BY <2>2, <2>3 DEF GrowsTo
<1>6. Linked(g, D \ al)
  BY <1>1, <1>4, <1>5, ListSame
<1>7. ((D \cup {b}) \ al) \ {b} = D \ al /\ b \in (D \cup {b}) \ al
  BY <1>2, <1>3
<1>8. \A x \in (D \cup {b}) \ al : x + zs[x] \in (D \cup {b}) \ al => x = b \/ x + zs[x] = b
  BY <1>2 DEF ListHeap, Apart
<1> QED
  BY <1>2, <1>4, <1>6, <1>7, <1>8 DEF Loose

\* extend_heap up to coalesce.
LEMMA ExtendedIs ==
  ASSUME NEW h \in Heaps, NEW b, b = h.brk, b % 8 = 0, b > Start + 8,
         NEW n \in Nat, n % 8 = 0, n >= 16, NEW e, e = Extended(h, n \div 4), e.ptr # NULL
  PROVE  e.ptr = b /\ b + n <= Start + MAX_HEAP /\ GrowsTo(h, e.heap, b, n)
<1>3. /\ b \in Nat /\ b # 0 /\ b >= Start
  BY MemAssumption DEF Heaps
<1>4. (n \div 4) % 2 = 0 /\ (n \div 4) * 4 = n
  OBVIOUS
<1>5. Extended(h, n \div 4) = Grown(mem_sbrk(h, n), n)
  BY <1>4 DEF Extended, WSIZE
<1>6. CASE n >= SIZE_T \div 2 \/ b + n > Start + MAX_HEAP
  <2>1. mem_sbrk(h, n) = Result(h, Failed)
    BY <1>6 DEF mem_sbrk
  <2>2. Grown(mem_sbrk(h, n), n) = Result(h, NULL)
    BY <2>1 DEF Grown, Result
  <2> QED
    BY <1>5, <2>2 DEF Result
<1>7. CASE ~(n >= SIZE_T \div 2 \/ b + n > Start + MAX_HEAP)
  <2>1. PICK h1 : h1 = [h EXCEPT !.brk = @ + n]
    OBVIOUS
  <2>2. mem_sbrk(h, n) = Result(h1, b)
    BY <1>7, <2>1 DEF mem_sbrk
  <2>3. /\ h1 \in Heaps /\ h1.brk = b + n /\ h1.prol = h.prol /\ h1.root = h.root /\ h1.mem = h.mem
    BY <1>3, <2>1 DEF Heaps
  <2>4. PICK h2 : h2 = PutTags(h1, b, n, 0)
    OBVIOUS
  <2>5. /\ b - 4 \in Addr /\ b + n - 8 \in Addr /\ b + n - 4 \in Addr
    <3>1. b + n <= Start + MAX_HEAP
      BY <1>3, <1>7, MemAssumption
    <3>2. (b - 4) % 4 = 0 /\ (b + n - 8) % 4 = 0 /\ (b + n - 4) % 4 = 0
      BY <1>3
    <3> QED
      BY <1>3, <3>1, <3>2, Addresses, MemAssumption
  <2>6. PutsTags(h1, h2, b, n, n + 0)
    <3>1. PICK u \in {0, 1} : u = 0
      OBVIOUS
    <3>2. PutsTags(h1, PutTags(h1, b, n, u), b, n, n + u)
      BY <1>3, <2>3, <2>5, PutTagsIs
    <3> QED
      BY <2>4, <3>1, <3>2
  <2>7. /\ h2 \in Heaps /\ h2.brk = b + n /\ h2.prol = h.prol /\ h2.root = h.root
        /\ h2.mem[b - 4] = n /\ h2.mem[b + n - 8] = n
        /\ \A a \in Addr \ {b - 4, b + n - 8} : h2.mem[a] = h.mem[a]
    BY <2>3, <2>6 DEF PutsTags
  <2>8. NEXT_BLKP(h2, b) = b + n
    <3>1. (n \div 8) * 8 = n
      OBVIOUS
    <3> QED
      BY <2>7, <3>1 DEF NEXT_BLKP, GET_SIZE, HDRP, WSIZE
  <2>9. PICK g : g = PutEpilogue(h2, b)
    OBVIOUS
  <2>10. g = PUT(h2, b + n - 4, 1)
    <3>1. PACK(0, 1) = 1 /\ HDRP(b + n) = b + n - 4
      BY <1>3 DEF PACK, HDRP, WSIZE
    <3> QED
      BY <2>8, <2>9, <3>1 DEF PutEpilogue
  <2>11. /\ g \in Heaps /\ g.brk = h2.brk /\ g.prol = h2.prol /\ g.root = h2.root
         /\ g.mem[b + n - 4] = 1 /\ \A a \in Addr \ {b + n - 4} : g.mem[a] = h2.mem[a]
    BY <2>5, <2>7, <2>10 DEF PUT, Heaps
  <2>12. /\ g.brk = b + n /\ g.prol = h.prol /\ g.root = h.root
         /\ g.mem[b - 4] = n /\ g.mem[b + n - 8] = n
         /\ \A a \in Addr : a < b - 4 => g.mem[a] = h.mem[a]
    <3>1. b - 4 # b + n - 4 /\ b + n - 8 # b + n - 4
      BY <1>3
    <3>2. \A a \in Addr : a < b - 4 => a \notin {b - 4, b + n - 8, b + n - 4}
      BY <1>3, AddrIsNat
    <3> QED
      BY <2>5, <2>7, <2>11, <3>1, <3>2
  <2>13. Extended(h, n \div 4) = Result(g, b)
    <3>1. b # Failed
      BY <1>3 DEF Failed
    <3> QED
      BY <1>5, <2>2, <2>4, <2>9, <3>1 DEF Grown, Result
  <2>14. GrowsTo(h, g, b, n)
    BY <2>11, <2>12 DEF GrowsTo
  <2>15. b + n <= Start + MAX_HEAP
    BY <1>3, <1>7, MemAssumption
  <2> QED
    BY <2>13, <2>14, <2>15 DEF Result
<1> QED
  BY <1>6, <1>7

\* Otherwise the heap is as it was.
LEMMA ExtendedFails ==
  ASSUME NEW h \in Heaps, NEW b, b = h.brk, b > Start + 8,
         NEW n \in Nat, n % 8 = 0, n >= 16, NEW e, e = Extended(h, n \div 4), e.ptr = NULL
  PROVE  e.heap = h
<1>1. b \in Nat /\ b # 0
  BY MemAssumption DEF Heaps
<1>2. (n \div 4) % 2 = 0 /\ (n \div 4) * 4 = n
  OBVIOUS
<1>3. e = Grown(mem_sbrk(h, n), n)
  BY <1>2 DEF Extended, WSIZE
<1>4. CASE n >= SIZE_T \div 2 \/ b + n > Start + MAX_HEAP
  <2>1. mem_sbrk(h, n) = Result(h, Failed)
    BY <1>4 DEF mem_sbrk
  <2> QED
    BY <1>3, <2>1 DEF Grown, Result
<1>5. CASE ~(n >= SIZE_T \div 2 \/ b + n > Start + MAX_HEAP)
  <2>1. PICK q : q = mem_sbrk(h, n)
    OBVIOUS
  <2>2. q.ptr = b
    BY <1>5, <2>1 DEF mem_sbrk, Result
  <2>3. e.ptr = b
    BY <1>1, <1>3, <2>1, <2>2 DEF Grown, Result, Failed
  <2> QED
    BY <1>1, <2>3 DEF NULL
<1> QED
  BY <1>4, <1>5

LEMMA ExtendContract ==
  ASSUME NEW h, NEW D, NEW sz, NEW al, ListHeap(h, D, sz, al),
         NEW n \in Nat, n % 8 = 0, n >= 16, NEW r, r = extend_heap(h, n \div 4)
  PROVE  \/ r.ptr = NULL /\ r.heap = h
         \/ r.ptr # NULL /\ Freed(h, r.heap, sz, al, r.ptr, n)
<1>1. TiledIs(h, D, sz, al) /\ Tiled(h, D, sz, al)
  BY TiledFacts DEF ListHeap
<1>2. PICK e : e = Extended(h, n \div 4)
  OBVIOUS
<1>3. CASE e.ptr = NULL
  <2>1. r = e
    BY <1>2, <1>3 DEF extend_heap, Released
  <2>2. h \in Heaps /\ h.brk > Start + 8
    BY <1>1, MemAssumption DEF TiledIs
  <2> QED
    BY <1>2, <1>3, <2>1, <2>2, ExtendedFails
<1>4. CASE e.ptr # NULL
  <2>1. PICK b, g, zs : b = h.brk /\ g = e.heap /\ zs = GrownSizes(D, sz, b, n)
    OBVIOUS
  <2>2. b \in Nat /\ b % 8 = 0 /\ b > Start + 8 /\ h \in Heaps
    BY <1>1, <2>1, MemAssumption DEF TiledIs
  <2>3. e.ptr = b /\ b + n <= Start + MAX_HEAP /\ GrowsTo(h, g, b, n)
    BY <1>2, <1>4, <2>1, <2>2, ExtendedIs
  <2>4. GrownTags(h, g, D, sz, al, b, n, zs)
    BY <1>1, <2>1, <2>3, GrownTiled
  <2>5. Loose(g, D \cup {b}, zs, al, b)
    BY <2>1, <2>3, <2>4, GrownLoose
  <2>6. r = Release(g, b)
    BY <1>2, <1>4, <2>1, <2>3 DEF extend_heap, Released
  <2>7. Freed(g, r.heap, zs, al, r.ptr, n)
    BY <2>4, <2>5, <2>6, Releases DEF GrownTags
  <2>8. PICK E, us : /\ ListHeap(r.heap, E, us, al) /\ Kept(g, r.heap, zs, us, al \ {g.prol})
                     /\ r.ptr \in E \ al /\ us[r.ptr] >= n /\ r.heap.prol = g.prol
    BY <2>7 DEF Freed
  <2>9. g.prol = h.prol
    BY <2>3 DEF GrowsTo
  <2>10. Kept(h, g, sz, zs, al \ {h.prol})
    BY <1>1, <2>4 DEF GrownTags, Kept, TiledIs
  <2>11. Kept(h, r.heap, sz, us, al \ {h.prol})
    BY <2>8, <2>9, <2>10, KeptOn
  <2>12. r.ptr # NULL
    <3>1. TiledIs(r.heap, E, us, al)
      BY <2>8, TiledFacts DEF ListHeap
    <3>2. r.ptr \in Nat /\ r.heap.prol <= r.ptr /\ r.heap.prol = Start + 8
      BY <2>8, <3>1 DEF TiledIs
    <3> QED
      BY <3>2, MemAssumption DEF NULL
  <2> QED
    BY <2>8, <2>9, <2>11, <2>12 DEF Freed
<1> QED
  BY <1>3, <1>4

-----------------------------------------------------------------------------
(* find_fit.                                                               *)

\* There are no more free blocks than double words.
LEMMA ChainShort ==
  ASSUME NEW h, NEW D, NEW sz, NEW al, ListHeap(h, D, sz, al), NEW n, NEW s, Chain(h, D \ al, n, s)
  PROVE  n \in Nat /\ HeapUnits \in Nat /\ n <= HeapUnits
<1>1. ListIs(h, D, sz, al)
  BY ListFacts
<1>2. n \in Nat /\ HeapUnits \in Nat
  BY MemAssumption DEF Chain, HeapUnits, DSIZE
<1>3. PICK t : t = [k \in 1 .. n |-> (s[k - 1] - Start) \div 8]
  OBVIOUS
<1>4. ASSUME NEW k \in 1 .. n
      PROVE  /\ s[k - 1] \in Nat /\ s[k - 1] % 8 = 0 /\ s[k - 1] >= Start + 8
             /\ (s[k - 1] - Start) \div 8 \in 1 .. HeapUnits
  <2>1. k - 1 \in 0 .. n - 1
    BY <1>2
  <2>2. s[k - 1] \in D
    BY <2>1 DEF Chain
  <2>3. PICK x \in D : x = s[k - 1]
    BY <2>2
  <2>4. /\ x \in Nat /\ x % 8 = 0 /\ x >= h.prol /\ x + 16 <= h.brk /\ h.brk \in Nat /\ h.prol = Start + 8
        /\ h.brk <= Start + MAX_HEAP
    <3>1. sz[x] \in Nat /\ sz[x] >= 16 /\ x + sz[x] <= h.brk /\ x \in Nat /\ x % 8 = 0 /\ h.prol <= x
          /\ h.brk \in Nat /\ h.prol \in Nat
      BY <1>1 DEF ListIs
    <3>2. h.prol = Start + 8 /\ h.brk <= Start + MAX_HEAP
      BY <1>1 DEF ListIs, Layout
    <3> QED
      BY <3>1, <3>2
  <2>5. (x - Start) \div 8 \in 1 .. (MAX_HEAP \div 8)
    BY <2>4, MemAssumption
  <2> QED
    BY <2>3, <2>4, <2>5, MemAssumption DEF HeapUnits, DSIZE
<1>5. ASSUME NEW j \in 1 .. n, NEW k \in 1 .. n, t[j] = t[k] PROVE j = k
  <2>1. s[j - 1] = s[k - 1]
    <3>1. PICK x, y : x = s[j - 1] /\ y = s[k - 1]
      OBVIOUS
    <3>2. /\ x \in Nat /\ y \in Nat /\ x % 8 = 0 /\ y % 8 = 0 /\ x >= Start + 8 /\ y >= Start + 8
          /\ (x - Start) \div 8 = (y - Start) \div 8
      BY <1>3, <1>4, <1>5, <3>1
    <3> QED
      BY <3>1, <3>2, MemAssumption
  <2>2. j - 1 \in 0 .. n /\ k - 1 \in 0 .. n
    BY <1>2
  <2>3. j - 1 = k - 1
    BY <2>1, <2>2 DEF Chain
  <2> QED
    BY <2>3
<1>6. t \in Injection(1 .. n, 1 .. HeapUnits)
  <2>1. t \in [1 .. n -> 1 .. HeapUnits] /\ DOMAIN t = 1 .. n
    BY <1>3, <1>4
  <2> QED
    BY <1>5, <2>1 DEF Injection, IsInjective
<1>7. /\ IsFiniteSet(1 .. HeapUnits) /\ Cardinality(1 .. HeapUnits) = HeapUnits
      /\ Cardinality(1 .. n) = n
  BY <1>2, FS_Interval
<1>8. Cardinality(1 .. n) <= Cardinality(1 .. HeapUnits)
  BY <1>6, <1>7, FS_Injection, Zenon
<1> QED
  BY <1>2, <1>7, <1>8

LEMMA FitContract ==
  ASSUME NEW h, NEW D, NEW sz, NEW al, ListHeap(h, D, sz, al), NEW bsize \in Nat
  PROVE  find_fit(h, bsize) = NULL \/ (find_fit(h, bsize) \in D \ al /\ bsize <= sz[find_fit(h, bsize)])
<1>1. ListIs(h, D, sz, al)
  BY ListFacts
<1>2. PICK n, s : Chain(h, D \ al, n, s)
  BY DEF ListHeap, Linked
<1>3. n \in Nat /\ HeapUnits \in Nat /\ n <= HeapUnits
  BY <1>2, ChainShort, Zenon
<1>4. PICK N \in Nat : N = HeapUnits
  BY <1>3
<1>5. PICK T : T = {k \in 0 .. n : s[k] = h.prol \/ bsize <= GET_SIZE(h, HDRP(s[k]))}
  OBVIOUS
<1>6. PICK j \in T : \A k \in T : j <= k
  <2>1. n \in T /\ T \in SUBSET Nat
    BY <1>2, <1>3, <1>5 DEF Chain
  <2>2. Min(T) \in T /\ \A y \in T : Min(T) <= y
    BY <2>1, MinOfNat
  <2> QED
    BY <2>2
<1>7. j \in 0 .. n /\ j \in Nat /\ j <= N
  BY <1>3, <1>4, <1>5
<1>8. PICK f : f = [k \in 0 .. N |-> IF k <= j THEN s[k] ELSE s[j]]
  OBVIOUS
<1> DEFINE Fits(g) == g = [k \in 0 .. HeapUnits |-> IF k = 0 THEN h.root ELSE NextFit(h, bsize, g[k - 1])]
<1>9. f[0] = h.root /\ \A k \in 1 .. N : f[k] = NextFit(h, bsize, f[k - 1])
  <2>1. f[0] = h.root
    BY <1>2, <1>7, <1>8 DEF Chain
  <2>2. ASSUME NEW k \in 1 .. N PROVE f[k] = NextFit(h, bsize, f[k - 1])
    <3>1. CASE k - 1 < j
      <4>1. k - 1 \in 0 .. n - 1 /\ k <= j /\ k - 1 \in 0 .. N /\ k \in 0 .. N /\ k - 1 <= j /\ k - 1 \in 0 .. n
            /\ (k - 1) + 1 = k /\ ~(j <= k - 1)
        BY <1>3, <1>7, <3>1
      <4>2. f[k] = s[k] /\ f[k - 1] = s[k - 1] /\ k - 1 \notin T
        BY <1>6, <1>8, <4>1
      <4>3. h.mem[s[k - 1]] = s[(k - 1) + 1]
        BY <1>2, <4>1 DEF Chain
      <4>4. ~(s[k - 1] = h.prol \/ bsize <= GET_SIZE(h, HDRP(s[k - 1])))
        BY <1>5, <4>1, <4>2
      <4> QED
        BY <4>1, <4>2, <4>3, <4>4, Zenon DEF NextFit, GET, SUCCP
    <3>2. CASE ~(k - 1 < j)
      <4>1. k - 1 \in 0 .. N /\ k \in 0 .. N /\ ~(k <= j) /\ (k - 1 <= j => k - 1 = j)
        BY <1>7, <3>2
      <4>2. f[k] = s[j] /\ f[k - 1] = s[j]
        BY <1>8, <4>1
      <4>3. s[j] = h.prol \/ bsize <= GET_SIZE(h, HDRP(s[j]))
        BY <1>5
      <4> QED
        BY <4>2, <4>3, Zenon DEF NextFit
    <3> QED
      BY <3>1, <3>2
  <2> QED
    BY <2>1, <2>2
<1>10. Fits(f)
  <2>1. f = [k \in 0 .. N |-> f[k]]
    BY <1>8
  <2>2. \A k \in 0 .. N : k # 0 => k \in 1 .. N
    OBVIOUS
  <2>3. \A k \in 0 .. N : f[k] = IF k = 0 THEN h.root ELSE NextFit(h, bsize, f[k - 1])
    BY <1>9, <2>2, Zenon
  <2> QED
    BY <1>4, <1>8, <2>3
<1>11. PICK g : g = CHOOSE w : Fits(w)
  OBVIOUS
<1>12. Fits(g)
  BY <1>10, <1>11
<1>13. find_fit(h, bsize) = IF g[HeapUnits] = h.prol THEN NULL ELSE g[HeapUnits]
  BY <1>11 DEF find_fit
<1>14. g[0] = h.root /\ \A k \in 1 .. N : g[k] = NextFit(h, bsize, g[k - 1])
  <2>1. g = [k \in 0 .. N |-> IF k = 0 THEN h.root ELSE NextFit(h, bsize, g[k - 1])]
    BY <1>4, <1>12
  <2> QED
    BY <2>1
<1> HIDE DEF Fits
<1>15. g[N] = s[j]
  <2>1. EqualSteps(f, g, N)
    BY <1>9, <1>14, Zenon DEF EqualSteps
  <2>2. \A k \in 0 .. N : f[k] = g[k]
    BY <2>1, StepwiseEqual, Zenon
  <2>3. f[N] = s[j]
    BY <1>7, <1>8
  <2> QED
    BY <2>2, <2>3
<1>16. s[j] = h.prol \/ (s[j] \in D \ al /\ bsize <= sz[s[j]])
  <2>1. s[j] \in (D \ al) \cup {h.prol}
    BY <1>2, <1>7 DEF Chain
  <2>2. s[j] # h.prol => bsize <= GET_SIZE(h, HDRP(s[j]))
    BY <1>5
  <2>3. s[j] \in D => GET_SIZE(h, HDRP(s[j])) = sz[s[j]]
    BY <1>1 DEF ListIs, Reads
  <2> QED
    BY <2>1, <2>2, <2>3
<1> QED
  BY <1>4, <1>13, <1>15, <1>16

-----------------------------------------------------------------------------
(* mm_malloc.                                                              *)

\* A size that the computation of the block size does not wrap around.
SizeOk(size) == size \in Nat /\ size % 4 = 0 /\ size < SIZE_T - 32

BlockSizeIs(size, n) ==
    /\ n \in Nat /\ n % 8 = 0 /\ n >= size + 8 /\ n + 16 < SIZE_T
    /\ size > 0 => n >= 16

LEMMA BlockSizes ==
  ASSUME NEW size, SizeOk(size)
  PROVE  BlockSizeIs(size, BlockSize(size))
<1>1. size \in Nat /\ SIZE_T \in Nat /\ size + 7 < SIZE_T /\ SIZE_T % 16 = 0 /\ size + 32 < SIZE_T
  BY MemAssumption DEF SizeOk
<1>2. (size + 7) % SIZE_T = size + 7
  BY <1>1, SmallRemainder
<1>3. PICK q \in Nat, r \in 0 .. 7 : size + 7 = 8 * q + r /\ q = (size + 7) \div 8
  BY <1>1
<1>4. ALIGN(size) = q * 8 /\ q * 8 + 8 \in Nat /\ q * 8 + 8 < SIZE_T
  BY <1>1, <1>2, <1>3 DEF ALIGN
<1>5. (q * 8 + 8) % SIZE_T = q * 8 + 8
  BY <1>1, <1>4, SmallRemainder
<1>6. BlockSize(size) = q * 8 + 8
  BY <1>4, <1>5 DEF BlockSize, DSIZE
<1>7. (q * 8 + 8) % 8 = 0
  OBVIOUS
<1> QED
  BY <1>1, <1>3, <1>6, <1>7 DEF BlockSizeIs

LEMMA PlacedContract ==
  ASSUME NEW h, NEW sz, NEW al, NEW n \in Nat, n % 8 = 0, n >= 16, NEW e, NEW m \in Nat, n <= m,
         e.ptr # NULL, Freed(h, e.heap, sz, al, e.ptr, m)
  PROVE  /\ Placed(e, n).ptr = e.ptr
         /\ Allocated(h, Placed(e, n).heap, sz, al, e.ptr, n)
<1>1. PICK g, p : g = e.heap /\ p = e.ptr
  OBVIOUS
<1>2. PICK E, zs : /\ ListHeap(g, E, zs, al) /\ Kept(h, g, sz, zs, al \ {h.prol})
                   /\ p \in E \ al /\ zs[p] >= m /\ g.prol = h.prol
  BY <1>1 DEF Freed
<1>3. n <= zs[p]
  <2>1. ListIs(g, E, zs, al)
    BY <1>2, ListFacts
  <2> QED
    BY <1>2, <2>1 DEF ListIs
<1>4. Allocated(g, place(g, p, n), zs, al, p, n)
  BY <1>2, <1>3, PlaceContract
<1>5. PICK k : k = place(g, p, n)
  OBVIOUS
<1>6. PICK W, us : /\ ListHeap(k, W, us, al \cup {p}) /\ p \notin al /\ us[p] >= n
                   /\ Kept(g, k, zs, us, al \ {g.prol}) /\ k.prol = g.prol
  BY <1>4, <1>5 DEF Allocated
<1>7. Kept(h, k, sz, us, al \ {h.prol})
  BY <1>2, <1>6, KeptOn
<1>8. Allocated(h, k, sz, al, p, n)
  BY <1>2, <1>6, <1>7 DEF Allocated
<1>9. Placed(e, n) = Result(k, p)
  BY <1>1, <1>5 DEF Placed
<1> QED
  BY <1>1, <1>8, <1>9 DEF Result

LEMMA MallocContract ==
  ASSUME NEW h, NEW D, NEW sz, NEW al, ListHeap(h, D, sz, al), NEW size, SizeOk(size),
         NEW r, r = mm_malloc(h, size), r.ptr # NULL
  PROVE  Allocated(h, r.heap, sz, al, r.ptr, BlockSize(size))
<1>1. PICK n : n = BlockSize(size)
  OBVIOUS
<1>2. CASE size = 0
  BY <1>2 DEF mm_malloc, Result
<1>3. CASE size # 0
  <2>1. n \in Nat /\ n % 8 = 0 /\ n >= 16
    BY <1>1, <1>3, BlockSizes DEF BlockSizeIs, SizeOk
  <2>2. PICK fit, m : fit = find_fit(h, n) /\ m = IF n > CHUNKSIZE THEN n ELSE CHUNKSIZE
    OBVIOUS
  <2>3. PICK e : e = IF fit # NULL THEN Result(h, fit) ELSE extend_heap(h, m \div 4)
    OBVIOUS
  <2>4. r = Placed(e, n)
    BY <1>1, <1>3, <2>2, <2>3 DEF mm_malloc, WSIZE
  <2>5. e.ptr # NULL
    BY <2>4 DEF Placed
  <2>6. m \in Nat /\ m % 8 = 0 /\ m >= 16 /\ n <= m
    BY <2>1, <2>2, MemAssumption
  <2>7. \E j \in Nat : n <= j /\ Freed(h, e.heap, sz, al, e.ptr, j)
    <3>1. CASE fit # NULL
      <4>1. fit \in D \ al /\ n <= sz[fit]
        BY <2>1, <2>2, <3>1, FitContract
      <4>2. e.heap = h /\ e.ptr = fit
        BY <2>3, <3>1 DEF Result
      <4>3. sz[fit] \in Nat
        BY <4>1, ListFacts DEF ListIs
      <4>4. Kept(h, h, sz, sz, al \ {h.prol})
        BY DEF Kept
      <4>5. Freed(h, h, sz, al, fit, n)
        BY <2>1, <4>1, <4>3, <4>4 DEF Freed
      <4>6. n <= n
        BY <2>1
      <4> QED
        BY <2>1, <4>2, <4>5, <4>6
    <3>2. CASE fit = NULL
      <4>1. e = extend_heap(h, m \div 4)
        BY <2>3, <3>2
      <4> QED
        BY <2>5, <2>6, <4>1, ExtendContract
    <3> QED
      BY <3>1, <3>2
  <2>8. PICK j \in Nat : n <= j /\ Freed(h, e.heap, sz, al, e.ptr, j)
    BY <2>7
  <2>9. /\ Placed(e, n).ptr = e.ptr
        /\ Allocated(h, Placed(e, n).heap, sz, al, e.ptr, n)
    BY <2>1, <2>5, <2>8, PlacedContract
  <2> QED
    BY <1>1, <2>4, <2>9
<1> QED
  BY <1>2, <1>3

\* A malloc that fails leaves the heap as it was.
LEMMA MallocFails ==
  ASSUME NEW h, NEW D, NEW sz, NEW al, ListHeap(h, D, sz, al), NEW size, SizeOk(size),
         NEW r, r = mm_malloc(h, size), r.ptr = NULL
  PROVE  r.heap = h
<1>1. PICK n : n = BlockSize(size)
  OBVIOUS
<1>2. CASE size = 0
  BY <1>2 DEF mm_malloc, Result
<1>3. CASE size # 0
  <2>1. n \in Nat /\ n % 8 = 0 /\ n >= 16
    BY <1>1, <1>3, BlockSizes DEF BlockSizeIs, SizeOk
  <2>2. PICK fit, m : fit = find_fit(h, n) /\ m = IF n > CHUNKSIZE THEN n ELSE CHUNKSIZE
    OBVIOUS
  <2>3. PICK e : e = IF fit # NULL THEN Result(h, fit) ELSE extend_heap(h, m \div 4)
    OBVIOUS
  <2>4. r = Placed(e, n)
    BY <1>1, <1>3, <2>2, <2>3 DEF mm_malloc, WSIZE
  <2>5. e.ptr = NULL /\ r = e
    BY <2>4 DEF Placed, Result
  <2>6. m \in Nat /\ m % 8 = 0 /\ m >= 16
    BY <2>1, <2>2, MemAssumption
  <2>7. e = extend_heap(h, m \div 4)
    BY <2>3, <2>5 DEF Result
  <2> QED
    BY <2>5, <2>6, <2>7, ExtendContract
<1> QED
  BY <1>2, <1>3

-----------------------------------------------------------------------------
(* mm_init.                                                                *)

\* The heap with the prologue p only.
LEMMA PrologueLeaves ==
  ASSUME NEW h \in Heaps, h.brk = Start + 24, Start + 24 <= Start + MAX_HEAP,
         NEW p, p = Start + 8, NEW g, g = PutPrologue(PutTags(PUT(h, Start, 0), p, 16, 1), p)
  PROVE  ListHeap(g, {p}, [x \in {p} |-> 16], {p}) /\ g.prol = p
<1>1. Start \in Nat /\ Start % 8 = 0 /\ MAX_HEAP \in Nat /\ p \in Nat
  BY MemAssumption
<1>2. /\ Start \in Addr /\ Start + 4 \in Addr /\ Start + 8 \in Addr /\ Start + 12 \in Addr
      /\ Start + 16 \in Addr /\ Start + 20 \in Addr
  <2>1. /\ Start % 4 = 0 /\ (Start + 4) % 4 = 0 /\ (Start + 8) % 4 = 0 /\ (Start + 12) % 4 = 0
        /\ (Start + 16) % 4 = 0 /\ (Start + 20) % 4 = 0
    BY <1>1
  <2> QED
    BY <1>1, <2>1, Addresses
<1>3. PICK h1 : h1 = PUT(h, Start, 0)
  OBVIOUS
<1>4. h1 \in Heaps /\ h1.brk = h.brk
  BY <1>2, <1>3 DEF PUT, Heaps
<1>5. PICK k : k = PutTags(h1, p, 16, 1)
  OBVIOUS
<1>6. p - 4 = Start + 4 /\ p + 16 - 8 = Start + 16 /\ p + 4 = Start + 12
  BY <1>1
<1>7. PutsTags(h1, k, p, 16, 17)
  <2>1. PICK e \in {0, 1} : e = 1
    OBVIOUS
  <2>2. p - 4 \in Addr /\ p + 16 - 8 \in Addr /\ 16 \in Nat /\ 16 % 8 = 0 /\ 16 >= 8 /\ p \in Int
    BY <1>1, <1>2, <1>6
  <2>3. PutsTags(h1, PutTags(h1, p, 16, e), p, 16, 16 + e)
    BY <1>4, <2>2, PutTagsIs
  <2> QED
    BY <1>5, <2>1, <2>3
<1>8. /\ k \in Heaps /\ k.brk = Start + 24
      /\ k.mem[Start + 4] = 17 /\ k.mem[Start + 16] = 17
  BY <1>4, <1>6, <1>7 DEF PutsTags
<1>9. NEXT_BLKP(k, p) = Start + 24
  BY <1>1, <1>6, <1>8 DEF NEXT_BLKP, GET_SIZE, HDRP, WSIZE
<1>10. g = [k EXCEPT !.mem[p] = 0, !.mem[p + 4] = Start + 24, !.mem[Start + 20] = 1, !.prol = p, !.root = p]
  <2>1. HDRP(Start + 24) = Start + 20 /\ PACK(0, 1) = 1
    BY <1>1 DEF HDRP, WSIZE, PACK
  <2> QED
    BY <1>3, <1>5, <1>9, <2>1 DEF PutPrologue, SUCCP, PREDP, WSIZE, NULL
<1>11. /\ g \in Heaps /\ g.brk = Start + 24 /\ g.prol = p /\ g.root = p
       /\ g.mem[Start + 4] = 17 /\ g.mem[Start + 16] = 17 /\ g.mem[Start + 20] = 1
  <2>1. PICK m0 : m0 = k.mem
    OBVIOUS
  <2>2. PICK m1 : m1 = [m0 EXCEPT ![p] = 0]
    OBVIOUS
  <2>3. PICK m2 : m2 = [m1 EXCEPT ![p + 4] = Start + 24]
    OBVIOUS
  <2>4. PICK m3 : m3 = [m2 EXCEPT ![Start + 20] = 1]
    OBVIOUS
  <2>5. m0 \in [Addr -> Nat] /\ k.brk \in Nat /\ k.root \in Nat /\ k.prol \in Nat
    BY <1>8, <2>1 DEF Heaps
  <2>6. m1 \in [Addr -> Nat] /\ \A a \in Addr \ {p} : m1[a] = m0[a]
    BY <2>2, <2>5
  <2>7. m2 \in [Addr -> Nat] /\ \A a \in Addr \ {p + 4} : m2[a] = m1[a]
    <3>a. PICK v \in Nat : v = Start + 24
      BY <1>1
    <3>b. PICK q : q = p + 4
      OBVIOUS
    <3>1. v = Start + 24 /\ q = p + 4
      BY <3>a, <3>b
    <3>2. m2 = [m1 EXCEPT ![q] = v]
      BY <2>3, <3>1
    <3>3. m2 \in [Addr -> Nat] /\ \A a \in Addr \ {q} : m2[a] = m1[a]
      BY <2>6, <3>2
    <3> QED
      BY <3>1, <3>3
  <2>8. m3 \in [Addr -> Nat] /\ m3[Start + 20] = 1 /\ \A a \in Addr \ {Start + 20} : m3[a] = m2[a]
    BY <1>2, <2>4, <2>7
  <2>9. m3[Start + 4] = 17 /\ m3[Start + 16] = 17
    <3>1. \A a \in {Start + 4, Start + 16} : a \in Addr /\ a # p /\ a # p + 4 /\ a # Start + 20
      BY <1>1, <1>2
    <3>2. \A a \in {Start + 4, Start + 16} : m3[a] = m0[a]
      BY <2>6, <2>7, <2>8, <3>1
    <3> QED
      BY <1>8, <2>1, <3>2
  <2>10. g = [k EXCEPT !.mem = m3, !.prol = p, !.root = p]
    BY <1>8, <1>10, <2>1, <2>2, <2>3, <2>4 DEF Heaps
  <2> QED
    BY <1>1, <1>8, <2>5, <2>8, <2>9, <2>10 DEF Heaps
<1>12. PICK D, sz : D = {p} /\ sz = [x \in {p} |-> 16]
  OBVIOUS
<1>13. sz \in [D -> Nat] /\ sz[p] = 16 /\ p \in D
  BY <1>12
<1>14. Layout(g.prol, g.brk, D, sz)
  <2>1. p + 16 = Start + 24 /\ (Start + 24) % 8 = 0 /\ p % 8 = 0 /\ p < Start + 24 /\ p <= p /\ Start + 24 \in Nat
    BY <1>1
  <2> QED
    BY <1>1, <1>11, <1>12, <1>13, <2>1 DEF Layout
<1>15. Tagged(g, D, sz, D)
  <2>1. (Start + 24) - 4 = Start + 20
    BY <1>1
  <2> QED
    BY <1>6, <1>11, <1>12, <1>13, <2>1 DEF Tagged, Tag
<1>16. Chain(g, {}, 0, [i \in 0 .. 0 |-> p])
  BY <1>11 DEF Chain
<1>17. Linked(g, D \ D)
  BY <1>16 DEF Linked
<1>18. Tiled(g, D, sz, D) /\ Apart(D, sz, D)
  BY <1>11, <1>12, <1>14, <1>15 DEF Tiled, Apart
<1> QED
  BY <1>11, <1>12, <1>13, <1>17, <1>18 DEF ListHeap

LEMMA InitContract ==
  ASSUME NEW h \in Heaps, h.brk = Start, NEW r, r = mm_init(h)
  PROVE  /\ r.heap \in Heaps
         /\ r.ptr # NULL => \E E, zs : ListHeap(r.heap, E, zs, {r.heap.prol})
<1>1. Start \in Nat
  BY MemAssumption
<1>2. CASE 24 >= SIZE_T \div 2 \/ Start + 24 > Start + MAX_HEAP
  <2>1. mem_sbrk(h, 24) = Result(h, Failed)
    BY <1>2 DEF mem_sbrk
  <2> QED
    BY <2>1 DEF mm_init, SetUp, Result, WSIZE
<1>3. CASE ~(24 >= SIZE_T \div 2 \/ Start + 24 > Start + MAX_HEAP)
  <2>1. PICK h1, p : h1 = [h EXCEPT !.brk = @ + 24] /\ p = Start + 8
    OBVIOUS
  <2>2. mem_sbrk(h, 24) = Result(h1, Start)
    BY <1>3, <2>1 DEF mem_sbrk
  <2>3. h1 \in Heaps /\ h1.brk = Start + 24 /\ Start # Failed
    BY <1>1, <2>1 DEF Heaps, Failed
  <2>4. PICK g : g = PutPrologue(PutTags(PUT(h1, Start, 0), p, 16, 1), p)
    OBVIOUS
  <2>5. r = extend_heap(g, CHUNKSIZE \div 4)
    BY <2>1, <2>2, <2>3, <2>4 DEF mm_init, SetUp, Result, WSIZE, MIN_BSIZE, DSIZE
  <2>6. Start + 24 <= Start + MAX_HEAP
    BY <1>1, <1>3, MemAssumption
  <2>7. PICK D, sz : ListHeap(g, D, sz, {p}) /\ g.prol = p
    BY <2>1, <2>3, <2>4, <2>6, PrologueLeaves
  <2>8. \/ r.ptr = NULL /\ r.heap = g
        \/ r.ptr # NULL /\ Freed(g, r.heap, sz, {p}, r.ptr, CHUNKSIZE)
    BY <2>5, <2>7, ExtendContract, MemAssumption
  <2>9. CASE r.ptr = NULL /\ r.heap = g
    BY <2>7, <2>9 DEF ListHeap, Tiled
  <2>10. CASE r.ptr # NULL /\ Freed(g, r.heap, sz, {p}, r.ptr, CHUNKSIZE)
    <3>1. PICK E, zs : ListHeap(r.heap, E, zs, {p}) /\ r.heap.prol = p
      BY <2>7, <2>10 DEF Freed
    <3>2. r.heap \in Heaps
      BY <3>1 DEF ListHeap, Tiled
    <3> QED
      BY <3>1, <3>2
  <2> QED
    BY <2>8, <2>9, <2>10
<1> QED
  BY <1>2, <1>3

-----------------------------------------------------------------------------
(* memmove and memset.                                                     *)

\* g is h with other words from lo to hi.
Fills(h, g, lo, hi) ==
    /\ g \in Heaps /\ g.brk = h.brk /\ g.prol = h.prol /\ g.root = h.root
    /\ \A a \in Addr : g.mem[a] = h.mem[a] \/ (lo <= a /\ a < hi)

\* What is written into a payload disturbs no tag, no link and no other block.
LEMMA FillsTiled ==
  ASSUME NEW h, NEW D, NEW sz, NEW al, Tiled(h, D, sz, al), NEW p \in D,
         NEW hi \in Int, hi <= p + sz[p] - 8, NEW g, Fills(h, g, p, hi)
  PROVE  Tiled(g, D, sz, al) /\ Kept(h, g, sz, sz, D \ {p})
<1>1. /\ Layout(h.prol, h.brk, D, sz) /\ Tagged(h, D, sz, al) /\ h.prol \in al /\ al \subseteq D
      /\ h.brk \in Nat /\ \A x \in D : x \in Nat /\ sz[x] \in Nat
  BY LayoutFacts DEF Tiled
<1>2. ASSUME NEW a \in Addr, g.mem[a] # h.mem[a] PROVE a \in Int /\ p <= a /\ a < p + sz[p] - 8
  BY <1>1, <1>2, AddrIsNat DEF Fills
<1>3. ASSUME NEW x \in D
      PROVE  g.mem[x - 4] = h.mem[x - 4] /\ g.mem[x + sz[x] - 8] = h.mem[x + sz[x] - 8]
  <2>1. x - 4 \in Addr /\ x + sz[x] - 8 \in Addr
    BY <1>1, BlockWords
  <2> QED
    BY <1>1, <1>2, <2>1, PayloadApart
<1>4. g.mem[h.brk - 4] = h.mem[h.brk - 4]
  <2>1. h.brk - 4 \in Addr
    BY <1>1, BlockWords
  <2> QED
    BY <1>1, <1>2, <2>1, PayloadApart
<1>5. Tagged(g, D, sz, al)
  <2>1. g.brk = h.brk
    BY DEF Fills
  <2> QED
    BY <1>1, <1>3, <1>4, <2>1 DEF Tagged
<1>6. Tiled(g, D, sz, al)
  BY <1>1, <1>5 DEF Tiled, Fills
<1>7. ASSUME NEW x \in D \ {p}, NEW a \in Addr, x <= a, a < x + sz[x] - 8 PROVE g.mem[a] = h.mem[a]
  BY <1>1, <1>2, <1>7, PayloadApart
<1> QED
  BY <1>6, <1>7 DEF Kept

LEMMA FillsList ==
  ASSUME NEW h, NEW D, NEW sz, NEW al, ListHeap(h, D, sz, al), NEW p \in al, p # h.prol,
         NEW hi \in Int, hi <= p + sz[p] - 8, NEW g, Fills(h, g, p, hi)
  PROVE  ListHeap(g, D, sz, al) /\ Kept(h, g, sz, sz, al \ {p})
<1>1. ListIs(h, D, sz, al) /\ p \in D /\ Tiled(h, D, sz, al)
  BY ListFacts DEF ListIs, ListHeap
<1>2. Tiled(g, D, sz, al) /\ Kept(h, g, sz, sz, D \ {p})
  BY <1>1, FillsTiled, Zenon
<1>3. ASSUME NEW x \in (D \ al) \cup {h.prol} PROVE g.mem[x] = h.mem[x] /\ g.mem[x + 4] = h.mem[x + 4]
  <2>1. x \in D \ {p} /\ x \in Nat /\ sz[x] \in Nat /\ sz[x] >= 16
    BY <1>1 DEF ListIs
  <2>2. x \in Addr /\ x + 4 \in Addr
    BY <1>1, <2>1, BlockWords DEF ListIs
  <2>3. \A a \in {x, x + 4} : x <= a /\ a < x + sz[x] - 8
    BY <2>1
  <2> QED
    BY <1>2, <2>1, <2>2, <2>3 DEF Kept
<1>4. Linked(g, D \ al)
  BY <1>3, ListSame DEF Fills, ListHeap
<1>5. Kept(h, g, sz, sz, al \ {p})
  BY <1>1, <1>2 DEF Kept, ListIs
<1> QED
  BY <1>2, <1>4, <1>5 DEF ListHeap, Fills

MovesIn(h, g, dst, src, n) ==
    /\ Fills(h, g, dst, dst + n)
    /\ \A o \in Nat : o < n /\ dst + o \in Addr /\ src + o \in Addr => g.mem[dst + o] = h.mem[src + o]

LEMMA MemmoveIs ==
  ASSUME NEW h \in Heaps, NEW dst \in Nat, NEW src \in Nat, NEW n \in Int,
         NEW g, g = memmove(h, dst, src, n)
  PROVE  MovesIn(h, g, dst, src, n)
<1>1. PICK m : m = [a \in Addr |->
        IF a >= dst /\ a < dst + n
        THEN IF src + a - dst \in Addr THEN h.mem[src + a - dst] ELSE Junk
        ELSE h.mem[a]]
  OBVIOUS
<1>2. g = [h EXCEPT !.mem = m]
  BY <1>1 DEF memmove
<1>3. m \in [Addr -> Nat]
  <2>1. h.mem \in [Addr -> Nat] /\ Junk \in Nat
    BY DEF Heaps, Junk
  <2> QED
    BY <1>1, <2>1
<1>4. \A a \in Addr : m[a] = h.mem[a] \/ (dst <= a /\ a < dst + n)
  BY <1>1, AddrIsNat
<1>5. ASSUME NEW o \in Nat, o < n, dst + o \in Addr, src + o \in Addr
      PROVE  m[dst + o] = h.mem[src + o]
  <2>1. PICK a \in Addr : a = dst + o
    BY <1>5
  <2>2. a >= dst /\ a < dst + n /\ src + a - dst = src + o
    BY <1>5, <2>1
  <2>3. m[a] = IF a >= dst /\ a < dst + n
               THEN IF src + a - dst \in Addr THEN h.mem[src + a - dst] ELSE Junk
               ELSE h.mem[a]
    BY <1>1
  <2> QED
    BY <1>5, <2>1, <2>2, <2>3
<1>6. g \in Heaps /\ g.mem = m /\ g.brk = h.brk /\ g.prol = h.prol /\ g.root = h.root
  BY <1>2, <1>3 DEF Heaps
<1> QED
  BY <1>4, <1>5, <1>6 DEF MovesIn, Fills

-----------------------------------------------------------------------------
(* mm_realloc.                                                             *)

\* The first words of the block ptr of h are those of the block p of g.
Carries(h, g, sz, ptr, p, size) ==
    \A o \in Nat : o % 4 = 0 /\ o < size /\ o < sz[ptr] - 8 => g.mem[p + o] = h.mem[ptr + o]

\* The block ptr has become the block p, with room for size bytes.
Moved(h, g, sz, al, ptr, p, size) ==
    \E E, zs : /\ ListHeap(g, E, zs, (al \ {ptr}) \cup {p}) /\ p \notin al \ {ptr}
               /\ zs[p] >= size + 8 /\ Kept(h, g, sz, zs, al \ {h.prol, ptr})
               /\ Carries(h, g, sz, ptr, p, size)

\* The words of a block, by their offsets.
LEMMA OffsetWords ==
  ASSUME NEW prol, NEW brk, NEW D, NEW sz, Layout(prol, brk, D, sz), NEW x \in D,
         NEW o \in Nat, o % 4 = 0, o < sz[x] - 8
  PROVE  x + o \in Addr /\ x <= x + o /\ x + o < x + sz[x] - 8
<1>1. /\ x \in Nat /\ sz[x] \in Nat /\ sz[x] >= 8 /\ x + sz[x] <= brk /\ brk \in Nat
      /\ x >= Start + 8 /\ brk <= Start + MAX_HEAP /\ x < brk /\ x % 8 = 0
  BY DEF Layout
<1>2. Start \in Nat /\ MAX_HEAP \in Nat
  BY MemAssumption
<1>3. (x + o) % 4 = 0 /\ x + o < Start + MAX_HEAP /\ Start <= x + o /\ x + o \in Int
  BY <1>1, <1>2
<1>4. x + o \in Addr
  BY <1>3, Addresses
<1> QED
  BY <1>1, <1>4

LEMMA SplitMoves ==
  ASSUME NEW h, NEW D, NEW sz, NEW al, ListHeap(h, D, sz, al), NEW ptr \in al, ptr # h.prol,
         NEW size, SizeOk(size), NEW n \in Nat, n >= size + 8,
         NEW lo \in D, NEW hi, NEW g, NEW r, SplitDone(h, g, r, sz, al, lo, hi, n),
         Outside(al, lo, hi) = al \ {ptr}, lo \notin al \ {ptr}, Carries(h, g, sz, ptr, lo, size)
  PROVE  Moved(h, r, sz, al, ptr, lo, size)
<1>1. PICK E, zs : /\ ListHeap(r, E, zs, Outside(al, lo, hi) \cup {lo}) /\ zs[lo] = n
                   /\ Kept(h, r, sz, zs, Outside(al, lo, hi) \ {h.prol})
                   /\ \A a \in Addr : lo <= a /\ a < lo + n - 8 => r.mem[a] = g.mem[a]
  BY DEF SplitDone
<1>2. (al \ {ptr}) \ {h.prol} = al \ {h.prol, ptr}
  OBVIOUS
<1>3. ASSUME NEW o \in Nat, o % 4 = 0, o < size, o < sz[ptr] - 8 PROVE r.mem[lo + o] = h.mem[ptr + o]
  <2>1. ListIs(r, E, zs, Outside(al, lo, hi) \cup {lo})
    BY <1>1, ListFacts
  <2>2. Layout(r.prol, r.brk, E, zs) /\ lo \in E
    BY <2>1 DEF ListIs
  <2>3. size \in Nat
    BY DEF SizeOk
  <2>4. o < zs[lo] - 8
    BY <1>1, <1>3, <2>3
  <2>5. lo + o \in Addr /\ lo <= lo + o /\ lo + o < lo + zs[lo] - 8
    BY <1>3, <2>2, <2>4, OffsetWords
  <2>6. r.mem[lo + o] = g.mem[lo + o]
    BY <1>1, <2>5
  <2> QED
    BY <1>3, <2>6 DEF Carries
<1>4. Carries(h, r, sz, ptr, lo, size)
  BY <1>3 DEF Carries
<1>5. zs[lo] >= size + 8
  BY <1>1
<1> QED
  BY <1>1, <1>2, <1>4, <1>5 DEF Moved

LEMMA ShrinkContract ==
  ASSUME NEW h, NEW D, NEW sz, NEW al, ListHeap(h, D, sz, al), NEW ptr \in al, ptr # h.prol,
         NEW size, SizeOk(size), NEW n \in Nat, n % 8 = 0, n >= 16, n >= size + 8, n + 16 <= sz[ptr]
  PROVE  Moved(h, ReallocShrink(h, ptr, sz[ptr], n).heap, sz, al, ptr, ptr, size)
<1>1. ListIs(h, D, sz, al)
  BY ListFacts
<1>2. PICK hi : hi = ptr + sz[ptr]
  OBVIOUS
<1>3. /\ ptr \in D /\ ptr \in Nat /\ sz[ptr] \in Nat /\ hi \in D \cup {h.brk} /\ ptr + n + 16 <= hi
      /\ hi - ptr - n = sz[ptr] - n
  <2>1. ptr \in D /\ ptr \in Nat /\ sz[ptr] \in Nat /\ hi \in D \cup {h.brk}
    BY <1>1, <1>2 DEF ListIs
  <2> QED
    BY <1>2, <2>1
<1>4. Works(h, h, sz, D \ al, ptr, hi)
  BY <1>2, WorksAllocated DEF Unlinks
<1>5. PICK k : k = Split(h, ptr, n, hi - ptr - n)
  OBVIOUS
<1>6. SplitDone(h, h, ReleaseRest(k, ptr), sz, al, ptr, hi, n)
  BY <1>3, <1>4, <1>5, SplitReleased, Zenon
<1>7. Outside(al, ptr, hi) = al \ {ptr}
  <2>1. JoinedIs(D, sz, ptr) /\ al \in SUBSET D
    BY <1>1, <1>3, JoinedSelf, Zenon DEF ListIs
  <2> QED
    BY <1>2, <2>1 DEF JoinedIs
<1>8. ptr \notin al \ {ptr} /\ Carries(h, h, sz, ptr, ptr, size)
  BY DEF Carries
<1>9. Moved(h, ReleaseRest(k, ptr), sz, al, ptr, ptr, size)
  BY <1>3, <1>6, <1>7, <1>8, SplitMoves, Zenon
<1> QED
  BY <1>3, <1>5, <1>9 DEF ReallocShrink, Result

\* A free neighbour leaves the list.
LEMMA CutCarries ==
  ASSUME NEW h, NEW D, NEW sz, NEW al, ListHeap(h, D, sz, al), NEW ptr \in al, ptr # h.prol,
         NEW g, NEW lo, NEW hi, Unlinks(h, g, sz, D \ al, lo, hi), NEW size
  PROVE  Carries(h, g, sz, ptr, ptr, size)
<1>1. ListIs(h, D, sz, al)
  BY ListFacts
<1>2. /\ ((D \ al) \cup {h.prol}) \in SUBSET D /\ \A x \in (D \ al) \cup {h.prol} : sz[x] >= 16
  BY <1>1 DEF ListIs
<1>3. Relinks(h, g, (D \ al) \cup {h.prol}) /\ Tiled(h, D, sz, al)
  BY DEF Unlinks, ListHeap
<1>4. Kept(h, g, sz, sz, {ptr})
  <2>1. {ptr} \in SUBSET (D \ ((D \ al) \cup {h.prol}))
    BY <1>1 DEF ListIs
  <2> QED
    BY <1>2, <1>3, <2>1, TiledRelinked, Zenon
<1>5. ASSUME NEW o \in Nat, o % 4 = 0, o < sz[ptr] - 8 PROVE g.mem[ptr + o] = h.mem[ptr + o]
  <2>1. ptr + o \in Addr /\ ptr <= ptr + o /\ ptr + o < ptr + sz[ptr] - 8
    BY <1>1, <1>5, OffsetWords DEF ListIs
  <2> QED
    BY <1>4, <2>1 DEF Kept
<1> QED
  BY <1>5 DEF Carries

\* What lies around the block ptr.
BesideIs(h, D, sz, al, ptr, hi, x) ==
    /\ x + sz[x] = ptr => /\ Unlinks(h, cut_out(h, x), sz, D \ al, x, hi)
                          /\ Outside(al, x, hi) = al \ {ptr}
    /\ x = hi => /\ Unlinks(h, cut_out(h, x), sz, D \ al, ptr, x + sz[x])
                 /\ Outside(al, ptr, x + sz[x]) = al \ {ptr}

LEMMA Beside ==
  ASSUME NEW h, NEW D, NEW sz, NEW al, ListHeap(h, D, sz, al), NEW ptr \in al,
         NEW hi, hi = ptr + sz[ptr], NEW x \in D \ al
  PROVE  BesideIs(h, D, sz, al, ptr, hi, x)
<1>1. ListIs(h, D, sz, al)
  BY ListFacts
<1>2. PICK F : F = D \ al
  OBVIOUS
<1>3. /\ Layout(h.prol, h.brk, D, sz) /\ ListLayout(h.prol, h.brk, D, sz, F) /\ al \in SUBSET D
      /\ ptr \in D /\ ptr \in Nat /\ hi \in Nat /\ ptr <= hi /\ x \in D /\ x \in F
  <2>1. /\ Layout(h.prol, h.brk, D, sz) /\ ListLayout(h.prol, h.brk, D, sz, F) /\ al \in SUBSET D
        /\ ptr \in D /\ ptr \in Nat /\ sz[ptr] \in Nat
    BY <1>1, <1>2 DEF ListIs
  <2> QED
    BY <1>2, <2>1
<1>4. Unlinks(h, h, sz, F, ptr, hi)
  BY <1>2, WorksAllocated
<1>5. /\ x + sz[x] = ptr => Unlinks(h, cut_out(h, x), sz, F, x, hi)
      /\ x = hi => Unlinks(h, cut_out(h, x), sz, F, ptr, x + sz[x])
  BY <1>3, <1>4, UnlinksCut, Zenon
<1>6. OutsideIs(al, sz, ptr, hi, x)
  BY <1>3, OutsideMore, Zenon
<1>7. Outside(al, ptr, hi) = al \ {ptr}
  <2>1. JoinedIs(D, sz, ptr)
    BY <1>3, JoinedSelf, Zenon
  <2> QED
    BY <1>3, <2>1 DEF JoinedIs
<1>8. (al \ {ptr}) \ {x} = al \ {ptr}
  OBVIOUS
<1> QED
  BY <1>2, <1>5, <1>6, <1>7, <1>8 DEF BesideIs, OutsideIs

LEMMA PrevContract ==
  ASSUME NEW h, NEW D, NEW sz, NEW al, ListHeap(h, D, sz, al), NEW ptr \in al, ptr # h.prol,
         NEW size, SizeOk(size), NEW n \in Nat, n % 8 = 0, n >= 16, n >= size + 8,
         NEW prev \in D \ al, prev + sz[prev] = ptr, n + 16 <= sz[ptr] + sz[prev],
         NEW r, r = ReallocPrev(h, ptr, n, sz[ptr] + sz[prev])
  PROVE  r.ptr = prev /\ Moved(h, r.heap, sz, al, ptr, prev, size)
<1>1. ListIs(h, D, sz, al)
  BY ListFacts
<1>2. PICK hi : hi = ptr + sz[ptr]
  OBVIOUS
<1>3. /\ ptr \in D /\ ptr \in Nat /\ sz[ptr] \in Nat /\ hi \in D \cup {h.brk} /\ hi \in Nat
      /\ prev \in D /\ prev \in Nat /\ sz[prev] \in Nat /\ prev # h.prol /\ prev <= prev
      /\ Reads(h, sz, al, prev) /\ ListLayout(h.prol, h.brk, D, sz, D \ al) /\ Layout(h.prol, h.brk, D, sz)
  BY <1>1, <1>2 DEF ListIs
<1>4. prev + n + 16 <= hi /\ hi - prev - n = (sz[ptr] + sz[prev]) - n /\ prev + (n - 8) <= hi - 4
  BY <1>2, <1>3
<1>5. PICK g1 : g1 = cut_out(h, prev)
  OBVIOUS
<1>6. Unlinks(h, g1, sz, D \ al, prev, hi) /\ Outside(al, prev, hi) = al \ {ptr}
  <2>1. BesideIs(h, D, sz, al, ptr, hi, prev)
    BY <1>2, Beside, Zenon
  <2> QED
    BY <1>5, <2>1 DEF BesideIs
<1>7. Works(h, g1, sz, D \ al, prev, hi) /\ g1 \in Heaps
  BY <1>6 DEF Unlinks, Works
<1>8. PICK g : g = memmove(g1, prev, ptr, n - 8)
  OBVIOUS
<1>9. MovesIn(g1, g, prev, ptr, n - 8)
  <2>1. n - 8 \in Int
    OBVIOUS
  <2> QED
    BY <1>3, <1>7, <1>8, <2>1, MemmoveIs
<1>10. Works(h, g, sz, D \ al, prev, hi)
  <2>1. Writes(g1, g, prev, hi)
    <3>1. \A a \in Addr : prev <= a /\ a < prev + (n - 8) => prev - 4 <= a /\ a < hi - 4
      BY <1>3, <1>4, AddrIsNat
    <3> QED
      BY <1>9, <3>1 DEF MovesIn, Fills, Writes
  <2>2. prev \in D \cup {h.brk}
    BY <1>3
  <2> QED
    BY <1>3, <1>7, <2>1, <2>2, WorksWrite, Zenon
<1>11. PICK k : k = Split(g, prev, n, hi - prev - n)
  OBVIOUS
<1>12. SplitDone(h, g, ReleaseRest(k, prev), sz, al, prev, hi, n)
  BY <1>3, <1>4, <1>10, <1>11, SplitReleased, Zenon
<1>13. Carries(h, g, sz, ptr, prev, size)
  <2>1. Carries(h, g1, sz, ptr, ptr, size)
    BY <1>6, CutCarries
  <2>2. ASSUME NEW o \in Nat, o % 4 = 0, o < size, o < sz[ptr] - 8 PROVE g.mem[prev + o] = h.mem[ptr + o]
    <3>1. ptr + o \in Addr /\ ptr <= ptr + o /\ ptr + o < ptr + sz[ptr] - 8
      BY <1>3, <2>2, OffsetWords
    <3>2. o < n - 8
      BY <2>2 DEF SizeOk
    <3>3. prev + o \in Addr
      <4>1. /\ (prev + o) % 4 = 0 /\ prev + o < hi /\ prev + o >= prev /\ prev + o \in Int
        <5>1. prev % 8 = 0
          BY <1>3 DEF Layout
        <5> QED
          BY <1>3, <1>4, <2>2, <3>2, <5>1
      <4>2. prev >= Start /\ hi <= Start + MAX_HEAP
        <5>1. /\ h.prol <= prev /\ h.prol = Start + 8 /\ hi <= h.brk /\ h.brk <= Start + MAX_HEAP
              /\ h.brk \in Nat
          BY <1>2, <1>3, LayoutFacts DEF Layout
        <5> QED
          BY <1>3, <5>1, MemAssumption
      <4> QED
        BY <1>3, <4>1, <4>2, Addresses, MemAssumption
    <3>4. g.mem[prev + o] = g1.mem[ptr + o]
      BY <1>9, <3>1, <3>2, <3>3 DEF MovesIn
    <3> QED
      BY <2>1, <2>2, <3>4 DEF Carries
  <2> QED
    BY <2>2 DEF Carries
<1>14. Moved(h, ReleaseRest(k, prev), sz, al, ptr, prev, size)
  <2>1. prev \notin al \ {ptr}
    OBVIOUS
  <2> QED
    BY <1>3, <1>6, <1>12, <1>13, <2>1, SplitMoves, Zenon
<1>15. PREV_BLKP(h, ptr) = prev
  BY <1>3 DEF Reads
<1>16. r = Result(ReleaseRest(k, prev), prev)
  BY <1>4, <1>5, <1>8, <1>11, <1>15 DEF ReallocPrev, DSIZE
<1> QED
  BY <1>14, <1>16 DEF Result

LEMMA NextContract ==
  ASSUME NEW h, NEW D, NEW sz, NEW al, ListHeap(h, D, sz, al), NEW ptr \in al, ptr # h.prol,
         NEW size, SizeOk(size), NEW n \in Nat, n % 8 = 0, n >= 16, n >= size + 8,
         NEW next \in D \ al, next = ptr + sz[ptr], n + 16 <= sz[ptr] + sz[next]
  PROVE  /\ Moved(h, ReallocNext(h, ptr, n).heap, sz, al, ptr, ptr, size)
         /\ Moved(h, CleanReallocNext(h, ptr, n).heap, sz, al, ptr, ptr, size)
<1>1. ListIs(h, D, sz, al)
  BY ListFacts
<1>2. PICK hi : hi = next + sz[next]
  OBVIOUS
<1>3. /\ ptr \in D /\ ptr \in Nat /\ sz[ptr] \in Nat /\ hi \in D \cup {h.brk} /\ hi \in Nat
      /\ next \in D /\ next \in Nat /\ sz[next] \in Nat
      /\ Reads(h, sz, al, ptr) /\ Reads(h, sz, al, next)
  BY <1>1, <1>2 DEF ListIs
<1>4. ptr + n + 16 <= hi /\ hi - ptr - n = (sz[ptr] + sz[next]) - n
  BY <1>2, <1>3
<1>5. PICK g : g = cut_out(h, next)
  OBVIOUS
<1>6. Unlinks(h, g, sz, D \ al, ptr, hi) /\ Outside(al, ptr, hi) = al \ {ptr}
  <2>1. BesideIs(h, D, sz, al, ptr, next, next)
    BY Beside, Zenon
  <2> QED
    BY <1>2, <1>5, <2>1 DEF BesideIs
<1>7. Works(h, g, sz, D \ al, ptr, hi)
  BY <1>6 DEF Unlinks
<1>8. PICK k : k = Split(g, ptr, n, hi - ptr - n)
  OBVIOUS
<1>9. hi \notin D \ al
  BY <1>2 DEF ListHeap, Apart
<1>10. /\ SplitDone(h, g, ReleaseRest(k, ptr), sz, al, ptr, hi, n)
       /\ SplitDone(h, g, RootRest(k, ptr), sz, al, ptr, hi, n)
  BY <1>3, <1>4, <1>7, <1>8, <1>9, SplitReleased, Zenon
<1>11. Carries(h, g, sz, ptr, ptr, size) /\ ptr \notin al \ {ptr}
  BY <1>6, CutCarries
<1>12. /\ Moved(h, ReleaseRest(k, ptr), sz, al, ptr, ptr, size)
       /\ Moved(h, RootRest(k, ptr), sz, al, ptr, ptr, size)
  BY <1>3, <1>6, <1>10, <1>11, SplitMoves, Zenon
<1>13. Absorbed(h, ptr, n) = k
  <2>1. NEXT_BLKP(h, ptr) = next /\ GET_SIZE(h, HDRP(ptr)) = sz[ptr] /\ GET_SIZE(h, FTRP(h, next)) = sz[next]
    BY <1>3 DEF Reads
  <2> QED
    BY <1>4, <1>5, <1>8, <2>1 DEF Absorbed
<1> QED
  BY <1>12, <1>13 DEF ReallocNext, CleanReallocNext, Result

\* A block that the new one is copied from keeps its size while it is allocated.
LEMMA MoveContract ==
  ASSUME NEW h, NEW D, NEW sz, NEW al, ListHeap(h, D, sz, al), NEW ptr \in al, ptr # h.prol,
         NEW size, SizeOk(size), NEW m, Allocated(h, m.heap, sz, al, m.ptr, BlockSize(size)), m.ptr # NULL,
         NEW c \in Int, c <= BlockSize(size) - 8,
         \A o \in Nat : o < size /\ o < sz[ptr] - 8 => o < c
  PROVE  /\ MoveTo(m, ptr, c).ptr = m.ptr
         /\ Moved(h, MoveTo(m, ptr, c).heap, sz, al, ptr, m.ptr, size)
<1>1. ListIs(h, D, sz, al)
  BY ListFacts
<1>2. PICK p, g, n : p = m.ptr /\ g = m.heap /\ n = BlockSize(size)
  OBVIOUS
<1>3. PICK E, zs : /\ ListHeap(g, E, zs, al \cup {p}) /\ p \notin al /\ zs[p] >= n
                   /\ Kept(h, g, sz, zs, al \ {h.prol}) /\ g.prol = h.prol
  BY <1>2 DEF Allocated
<1>4. ListIs(g, E, zs, al \cup {p})
  BY <1>3, ListFacts
<1>5. /\ p \in E /\ p \in Nat /\ zs[p] \in Nat /\ p # g.prol /\ g \in Heaps /\ ptr \in E /\ ptr \in Nat
      /\ Layout(g.prol, g.brk, E, zs) /\ Layout(h.prol, h.brk, D, sz) /\ ptr \in D /\ p # ptr
      /\ h.prol \in al /\ p \in al \cup {p}
  BY <1>1, <1>3, <1>4 DEF ListIs
<1>6. n \in Nat /\ n >= size + 8 /\ size \in Nat
  BY <1>2, BlockSizes DEF BlockSizeIs, SizeOk
<1>7. PICK k : k = memmove(g, p, ptr, c)
  OBVIOUS
<1>8. MovesIn(g, k, p, ptr, c)
  BY <1>5, <1>7, MemmoveIs
<1>9. p + c \in Int /\ p + c <= p + zs[p] - 8
  BY <1>2, <1>3, <1>5, <1>6
<1>10. ListHeap(k, E, zs, al \cup {p}) /\ Kept(g, k, zs, zs, (al \cup {p}) \ {p})
  BY <1>3, <1>5, <1>8, <1>9, FillsList, Zenon DEF MovesIn
<1>11. k.prol = h.prol
  BY <1>3, <1>8 DEF MovesIn, Fills
<1>12. PICK f : f = mm_free(k, ptr)
  OBVIOUS
<1>13. FreeDone(k, f, zs, al \cup {p}, ptr)
  <2>1. ptr \in al \cup {p} /\ ptr # k.prol
    BY <1>11
  <2> QED
    BY <1>10, <1>12, <2>1, FreeContract
<1>14. PICK W, us : /\ ListHeap(f, W, us, (al \cup {p}) \ {ptr})
                    /\ Kept(k, f, zs, us, (al \cup {p}) \ {k.prol, ptr})
  BY <1>13 DEF FreeDone
<1>15. (al \cup {p}) \ {ptr} = (al \ {ptr}) \cup {p} /\ p \notin al \ {ptr}
  BY <1>3, <1>5
<1>16. Kept(h, f, sz, us, al \ {h.prol, ptr})
  <2>1. PICK X : X = al \ {h.prol, ptr}
    OBVIOUS
  <2>2. X \subseteq al \ {h.prol} /\ X \subseteq (al \cup {p}) \ {p} /\ X \subseteq (al \cup {p}) \ {k.prol, ptr}
    BY <1>3, <1>11, <2>1
  <2>3. Kept(h, g, sz, zs, X) /\ Kept(g, k, zs, zs, X) /\ Kept(k, f, zs, us, X)
    BY <1>3, <1>10, <1>14, <2>2, Zenon DEF Kept
  <2>4. Kept(h, k, sz, zs, X)
    BY <2>3, KeptOn, Zenon
  <2> QED
    BY <2>1, <2>3, <2>4, KeptOn, Zenon
<1>17. us[p] = zs[p] /\ \A a \in Addr : p <= a /\ a < p + zs[p] - 8 => f.mem[a] = k.mem[a]
  <2>1. p \in (al \cup {p}) \ {k.prol, ptr}
    BY <1>3, <1>5, <1>11
  <2> QED
    BY <1>14, <2>1, Zenon DEF Kept
<1>18. zs[ptr] = sz[ptr] /\ \A a \in Addr : ptr <= a /\ a < ptr + sz[ptr] - 8 => g.mem[a] = h.mem[a]
  <2>1. ptr \in al \ {h.prol}
    OBVIOUS
  <2> QED
    BY <1>3, <2>1, Zenon DEF Kept
<1>19. ASSUME NEW o \in Nat, o % 4 = 0, o < size, o < sz[ptr] - 8 PROVE f.mem[p + o] = h.mem[ptr + o]
  <2>1. ptr + o \in Addr /\ ptr <= ptr + o /\ ptr + o < ptr + sz[ptr] - 8
    BY <1>5, <1>19, OffsetWords
  <2>2. o < zs[p] - 8
    BY <1>3, <1>5, <1>6, <1>19
  <2>3. p + o \in Addr /\ p <= p + o /\ p + o < p + zs[p] - 8
    BY <1>5, <1>19, <2>2, OffsetWords
  <2>4. o < c
    BY <1>19
  <2>5. k.mem[p + o] = g.mem[ptr + o]
    BY <1>8, <2>1, <2>3, <2>4 DEF MovesIn
  <2> QED
    BY <1>17, <1>18, <2>1, <2>3, <2>5
<1>20. us[p] >= size + 8
  BY <1>3, <1>5, <1>6, <1>17
<1>21. Moved(h, f, sz, al, ptr, p, size)
  BY <1>14, <1>15, <1>16, <1>19, <1>20 DEF Moved, Carries
<1>22. MoveTo(m, ptr, c) = Result(f, p)
  BY <1>2, <1>7, <1>12 DEF MoveTo
<1> QED
  BY <1>2, <1>21, <1>22 DEF Result

LEMMA ExplicitContract ==
  ASSUME NEW h, NEW D, NEW sz, NEW al, ListHeap(h, D, sz, al), NEW ptr \in al, ptr # h.prol,
         NEW size, SizeOk(size), NEW r, r = ExplicitRealloc(h, ptr, size), r.ptr # NULL
  PROVE  Moved(h, r.heap, sz, al, ptr, r.ptr, size)
<1>1. PICK m : m = mm_malloc(h, size)
  OBVIOUS
<1>2. PICK old : old = GET_SIZE(m.heap, HDRP(ptr))
  OBVIOUS
<1>3. PICK c : c = IF size < old THEN size ELSE old
  OBVIOUS
<1>4. r = MoveTo(m, ptr, c)
  BY <1>1, <1>2, <1>3 DEF ExplicitRealloc, MoveAll
<1>5. m.ptr # NULL
  BY <1>4 DEF MoveTo
<1>6. Allocated(h, m.heap, sz, al, m.ptr, BlockSize(size))
  BY <1>1, <1>5, MallocContract
<1>7. old = sz[ptr] /\ sz[ptr] \in Nat
  <2>1. PICK E, zs : /\ ListHeap(m.heap, E, zs, al \cup {m.ptr})
                     /\ Kept(h, m.heap, sz, zs, al \ {h.prol})
    BY <1>6 DEF Allocated
  <2>2. Reads(m.heap, zs, al \cup {m.ptr}, ptr)
    <3>1. ListIs(m.heap, E, zs, al \cup {m.ptr})
      BY <2>1, ListFacts, Zenon
    <3> QED
      BY <3>1 DEF ListIs
  <2>3. zs[ptr] = sz[ptr]
    BY <2>1 DEF Kept
  <2>4. sz[ptr] \in Nat
    BY ListFacts DEF ListIs
  <2> QED
    BY <1>2, <2>2, <2>3, <2>4 DEF Reads
<1>8. size \in Nat /\ BlockSize(size) \in Nat /\ BlockSize(size) >= size + 8
  BY BlockSizes DEF BlockSizeIs, SizeOk
<1>9. /\ c \in Int /\ c <= BlockSize(size) - 8
      /\ \A o \in Nat : o < size /\ o < sz[ptr] - 8 => o < c
  BY <1>3, <1>7, <1>8
<1>10. /\ MoveTo(m, ptr, c).ptr = m.ptr
       /\ Moved(h, MoveTo(m, ptr, c).heap, sz, al, ptr, m.ptr, size)
  BY <1>5, <1>6, <1>9, MoveContract
<1> QED
  BY <1>4, <1>10

\* A realloc that fails leaves the heap as it was.
LEMMA ExplicitFails ==
  ASSUME NEW h, NEW D, NEW sz, NEW al, ListHeap(h, D, sz, al), NEW ptr,
         NEW size, SizeOk(size), NEW r, r = ExplicitRealloc(h, ptr, size), r.ptr = NULL
  PROVE  r.heap = h
<1>1. PICK m : m = mm_malloc(h, size)
  OBVIOUS
<1>2. PICK c : r = MoveTo(m, ptr, c)
  BY <1>1 DEF ExplicitRealloc, MoveAll
<1>3. m.ptr = NULL /\ r = m
  BY <1>2 DEF MoveTo, Result
<1> QED
  BY <1>1, <1>3, MallocFails

\* behind is either of the two ways to use the block behind.
LEMMA CasesContract ==
  ASSUME NEW h, NEW D, NEW sz, NEW al, ListHeap(h, D, sz, al), NEW ptr \in al, ptr # h.prol,
         NEW size, SizeOk(size), NEW behind,
         behind \in {ReallocNext(h, ptr, BlockSize(size)), CleanReallocNext(h, ptr, BlockSize(size))},
         NEW r, r = ReallocCases(h, ptr, size, behind), r.ptr # NULL
  PROVE  Moved(h, r.heap, sz, al, ptr, r.ptr, size)
<1>1. ListIs(h, D, sz, al)
  BY ListFacts
<1>2. PICK old, n : old = sz[ptr] /\ n = BlockSize(size)
  OBVIOUS
<1>3. /\ Layout(h.prol, h.brk, D, sz) /\ Tagged(h, D, sz, al) /\ ptr \in D /\ ptr \in Nat /\ old \in Nat
      /\ h.prol \in Nat /\ h.prol <= ptr /\ h.prol = Start + 8 /\ al \subseteq D
      /\ Reads(h, sz, al, ptr) /\ \A x \in D : x \in Nat /\ sz[x] \in Nat
  BY <1>1, <1>2 DEF ListIs, Layout, ListHeap, Tiled
<1>4. ptr # NULL
  BY <1>3, MemAssumption DEF NULL
<1>5. size # 0
  BY <1>4 DEF ReallocCases, Result
<1>6. n \in Nat /\ n % 8 = 0 /\ n >= 16 /\ n >= size + 8 /\ n + 16 < SIZE_T /\ size \in Nat
  BY <1>2, <1>5, BlockSizes DEF BlockSizeIs, SizeOk
<1>7. (n + 16) % SIZE_T = n + 16
  BY <1>6, SmallRemainder, MemAssumption
<1>8. PICK prev \in D : prev + sz[prev] = ptr
  <2>1. ptr \in (D \cup {h.brk}) \ {h.prol}
    BY <1>3
  <2> QED
    BY <1>3, <2>1 DEF Layout
<1>9. /\ PREV_BLKP(h, ptr) = prev /\ GET_SIZE(h, FTRP(h, prev)) = sz[prev]
      /\ GET_ALLOC(h, FTRP(h, prev)) = 0 <=> prev \notin al
  BY <1>1, <1>8 DEF ListIs, Reads
<1>10. PICK next : next = ptr + sz[ptr]
  OBVIOUS
<1>11. /\ NEXT_BLKP(h, ptr) = next /\ GET_SIZE(h, HDRP(ptr)) = old
       /\ GET_ALLOC(h, HDRP(next)) = 0 <=> next \in D \ al
       /\ next \in D => GET_SIZE(h, FTRP(h, next)) = sz[next]
  <2>1. next \in D \cup {h.brk} /\ h.brk \notin D
    BY <1>1, <1>3, <1>10 DEF ListIs
  <2>2. next = h.brk => GET_ALLOC(h, HDRP(next)) # 0
    BY <1>3, EpilogueReads
  <2>3. next \in D => Reads(h, sz, al, next)
    BY <1>1 DEF ListIs
  <2>4. NEXT_BLKP(h, ptr) = next /\ GET_SIZE(h, HDRP(ptr)) = old
    BY <1>2, <1>3, <1>10 DEF Reads
  <2> QED
    BY <2>1, <2>2, <2>3, <2>4 DEF Reads
<1>12. PICK c : c = (IF old > n THEN n ELSE old) - 8
  OBVIOUS
<1>13. PICK ns : ns = GET_SIZE(h, FTRP(h, next))
  OBVIOUS
<1>14. r = IF old >= n + 16 THEN ReallocShrink(h, ptr, old, n)
           ELSE IF old = n THEN Result(h, ptr)
           ELSE IF prev \notin al /\ old + sz[prev] >= n + 16
                THEN ReallocPrev(h, ptr, n, old + sz[prev])
           ELSE IF next \in D \ al /\ old + ns >= n + 16 THEN behind
           ELSE MoveTo(mm_malloc(h, size), ptr, c)
  <2>1. GET_ALLOC(h, FTRP(h, prev)) = 0 <=> prev \notin al
    BY <1>9
  <2>2. GET_ALLOC(h, HDRP(next)) = 0 <=> next \in D \ al
    BY <1>11
  <2>3. ReallocMove(h, ptr, size, old, n) = MoveTo(mm_malloc(h, size), ptr, c)
    BY <1>12 DEF ReallocMove, DSIZE
  <2>4. (BlockSize(size) + MIN_BSIZE) % SIZE_T = n + 16
    BY <1>2, <1>7 DEF MIN_BSIZE, DSIZE
  <2> QED
    BY <1>2, <1>4, <1>5, <1>9, <1>11, <1>13, <2>1, <2>2, <2>3, <2>4, Zenon DEF ReallocCases
<1>15. CASE old >= n + 16
  <2>1. r = ReallocShrink(h, ptr, sz[ptr], n)
    BY <1>2, <1>14, <1>15
  <2>2. n + 16 <= sz[ptr]
    BY <1>2, <1>3, <1>6, <1>15
  <2>3. Moved(h, r.heap, sz, al, ptr, ptr, size)
    BY <1>6, <2>1, <2>2, ShrinkContract
  <2>4. r.ptr = ptr
    BY <2>1 DEF ReallocShrink, Result
  <2> QED
    BY <2>3, <2>4
<1>16. CASE ~(old >= n + 16) /\ old = n
  <2>1. r = Result(h, ptr)
    BY <1>14, <1>16
  <2>2. (al \ {ptr}) \cup {ptr} = al /\ ptr \notin al \ {ptr}
    OBVIOUS
  <2>3. sz[ptr] >= size + 8
    BY <1>2, <1>6, <1>16
  <2>4. Kept(h, h, sz, sz, al \ {h.prol, ptr}) /\ Carries(h, h, sz, ptr, ptr, size)
    BY DEF Kept, Carries
  <2>5. Moved(h, h, sz, al, ptr, ptr, size)
    BY <2>2, <2>3, <2>4 DEF Moved
  <2> QED
    BY <2>1, <2>5 DEF Result
<1>17. CASE ~(old >= n + 16) /\ old # n
  <2>1. CASE prev \notin al /\ old + sz[prev] >= n + 16
    <3>1. r = ReallocPrev(h, ptr, n, sz[ptr] + sz[prev])
      BY <1>2, <1>14, <1>17, <2>1
    <3>2. prev \in D \ al /\ n + 16 <= sz[ptr] + sz[prev]
      BY <1>2, <1>3, <1>6, <2>1
    <3>3. r.ptr = prev /\ Moved(h, r.heap, sz, al, ptr, prev, size)
      BY <1>6, <1>8, <3>1, <3>2, PrevContract
    <3> QED
      BY <3>3
  <2>2. CASE ~(prev \notin al /\ old + sz[prev] >= n + 16)
    <3>1. CASE next \in D \ al /\ old + ns >= n + 16
      <4>1. r = behind
        BY <1>14, <1>17, <2>2, <3>1
      <4>2. n + 16 <= sz[ptr] + sz[next]
        BY <1>2, <1>3, <1>6, <1>11, <1>13, <3>1
      <4>3. /\ Moved(h, ReallocNext(h, ptr, n).heap, sz, al, ptr, ptr, size)
            /\ Moved(h, CleanReallocNext(h, ptr, n).heap, sz, al, ptr, ptr, size)
        BY <1>6, <1>10, <3>1, <4>2, NextContract
      <4>4. Moved(h, r.heap, sz, al, ptr, ptr, size)
        BY <1>2, <4>1, <4>3
      <4>5. r.ptr = ptr
        BY <1>2, <4>1 DEF ReallocNext, CleanReallocNext, Result
      <4> QED
        BY <4>4, <4>5
    <3>2. CASE ~(next \in D \ al /\ old + ns >= n + 16)
      <4>1. PICK m : m = mm_malloc(h, size)
        OBVIOUS
      <4>2. r = MoveTo(m, ptr, c)
        BY <1>14, <1>17, <2>2, <3>2, <4>1
      <4>3. m.ptr # NULL
        BY <4>2 DEF MoveTo
      <4>4. Allocated(h, m.heap, sz, al, m.ptr, BlockSize(size))
        BY <4>1, <4>3, MallocContract
      <4>5. /\ c \in Int /\ c <= BlockSize(size) - 8
            /\ \A o \in Nat : o < size /\ o < sz[ptr] - 8 => o < c
        BY <1>2, <1>3, <1>6, <1>12
      <4>6. /\ MoveTo(m, ptr, c).ptr = m.ptr
            /\ Moved(h, MoveTo(m, ptr, c).heap, sz, al, ptr, m.ptr, size)
        BY <4>3, <4>4, <4>5, MoveContract
      <4> QED
        BY <4>2, <4>6
    <3> QED
      BY <3>1, <3>2
  <2> QED
    BY <2>1, <2>2
<1> QED
  BY <1>15, <1>16, <1>17

LEMMA CasesFail ==
  ASSUME NEW h, NEW D, NEW sz, NEW al, ListHeap(h, D, sz, al), NEW ptr \in al, ptr # h.prol,
         NEW size, SizeOk(size), size # 0, NEW behind,
         behind \in {ReallocNext(h, ptr, BlockSize(size)), CleanReallocNext(h, ptr, BlockSize(size))},
         NEW r, r = ReallocCases(h, ptr, size, behind), r.ptr = NULL
  PROVE  r.heap = h
<1>1. ListIs(h, D, sz, al)
  BY ListFacts
<1>2. PICK old, n, prev : old = GET_SIZE(h, HDRP(ptr)) /\ n = BlockSize(size) /\ prev = PREV_BLKP(h, ptr)
  OBVIOUS
<1>3. /\ Layout(h.prol, h.brk, D, sz) /\ Tagged(h, D, sz, al) /\ ptr \in D /\ ptr \in Nat
      /\ h.prol \in Nat /\ h.prol <= ptr /\ h.prol = Start + 8
      /\ \A x \in D : x \in Nat /\ h.prol <= x
  BY <1>1 DEF ListIs, Layout, ListHeap, Tiled
<1>4. ptr # NULL
  BY <1>3, MemAssumption DEF NULL
<1>5. prev # NULL
  <2>1. PICK x \in D : x + sz[x] = ptr
    <3>1. ptr \in (D \cup {h.brk}) \ {h.prol}
      BY <1>3
    <3> QED
      BY <1>3, <3>1 DEF Layout
  <2>2. prev = x
    BY <1>1, <1>2, <2>1 DEF ListIs, Reads
  <2> QED
    BY <1>3, <2>1, <2>2, MemAssumption DEF NULL
<1>6. PICK c, total : \/ r = ReallocShrink(h, ptr, old, n) \/ r = Result(h, ptr)
                     \/ r = ReallocPrev(h, ptr, n, total) \/ r = behind
                     \/ r = MoveTo(mm_malloc(h, size), ptr, c)
  BY <1>2, <1>4, Zenon DEF ReallocCases, ReallocMove
<1>7. /\ ReallocShrink(h, ptr, old, n).ptr = ptr /\ Result(h, ptr).ptr = ptr
      /\ ReallocPrev(h, ptr, n, total).ptr = prev /\ behind.ptr = ptr
  BY <1>2 DEF ReallocShrink, ReallocPrev, ReallocNext, CleanReallocNext, Result
<1>8. PICK m : m = mm_malloc(h, size)
  OBVIOUS
<1>9. r = MoveTo(m, ptr, c)
  BY <1>4, <1>5, <1>6, <1>7, <1>8
<1>10. m.ptr = NULL /\ r = m
  BY <1>9 DEF MoveTo, Result
<1> QED
  BY <1>8, <1>10, MallocFails

-----------------------------------------------------------------------------
(* mm_implicit.c has the tags of mm.c.                                     *)

LEMMA ImplicitWords ==
  /\ mmi!WSIZE = 4 /\ mmi!DSIZE = 8 /\ mmi!NULL = 0 /\ mmi!HeapUnits = HeapUnits
  /\ \A h, p : mmi!Result(h, p) = Result(h, p)
  /\ \A size : mmi!BlockSize(size) = BlockSize(size)
BY DEF mmi!WSIZE, mmi!DSIZE, mmi!NULL, mmi!HeapUnits, HeapUnits, mmi!Result, Result, mmi!BlockSize,
       BlockSize, mmi!ALIGN, ALIGN, DSIZE

LEMMA ImplicitReads ==
  ASSUME NEW h
  PROVE  /\ \A p : mmi!GET_SIZE(h, p) = GET_SIZE(h, p) /\ mmi!GET_ALLOC(h, p) = GET_ALLOC(h, p)
         /\ \A bp : /\ mmi!HDRP(bp) = HDRP(bp) /\ mmi!FTRP(h, bp) = FTRP(h, bp)
                    /\ mmi!NEXT_BLKP(h, bp) = NEXT_BLKP(h, bp) /\ mmi!PREV_BLKP(h, bp) = PREV_BLKP(h, bp)
BY DEF mmi!GET_SIZE, GET_SIZE, mmi!GET_ALLOC, GET_ALLOC, mmi!HDRP, HDRP, mmi!FTRP, FTRP,
       mmi!NEXT_BLKP, NEXT_BLKP, mmi!PREV_BLKP, PREV_BLKP, mmi!WSIZE, WSIZE, mmi!DSIZE, DSIZE

LEMMA ImplicitPuts ==
  /\ \A h, bp, n, e : mmi!PutTags(h, bp, n, e) = PutTags(h, bp, n, e)
  /\ \A h, bp, n, m : mmi!Split(h, bp, n, m) = Split(h, bp, n, m)
<1>1. ASSUME NEW h, NEW bp, NEW n, NEW e PROVE mmi!PutTags(h, bp, n, e) = PutTags(h, bp, n, e)
  BY DEF mmi!PutTags, PutTags, mmi!PutFooter, PutFooter, mmi!PUT, PUT, mmi!PACK, PACK, mmi!HDRP, HDRP,
       mmi!FTRP, FTRP, mmi!GET_SIZE, GET_SIZE, mmi!WSIZE, WSIZE, mmi!DSIZE, DSIZE
<1>2. ASSUME NEW h, NEW bp, NEW n, NEW m PROVE mmi!Split(h, bp, n, m) = Split(h, bp, n, m)
  BY <1>1, ImplicitReads DEF mmi!Split, Split, mmi!PutRest, PutRest
<1> QED
  BY <1>1, <1>2

LEMMA ImplicitMoves ==
  /\ \A h, words : mmi!Extended(h, words) = Extended(h, words)
  /\ \A h, dst, src, n : mmi!memmove(h, dst, src, n) = memmove(h, dst, src, n)
  /\ \A h, n : mmi!mem_sbrk(h, n) = mem_sbrk(h, n)
<1>1. ASSUME NEW h, NEW words PROVE mmi!Extended(h, words) = Extended(h, words)
  <2>1. \A g, bp : mmi!PutEpilogue(g, bp) = PutEpilogue(g, bp)
    BY DEF mmi!PutEpilogue, PutEpilogue, mmi!PUT, PUT, mmi!PACK, PACK, mmi!HDRP, HDRP,
           mmi!NEXT_BLKP, NEXT_BLKP, mmi!GET_SIZE, GET_SIZE, mmi!WSIZE, WSIZE
  <2>2. \A r, size : mmi!Grown(r, size) = Grown(r, size)
    BY <2>1, ImplicitPuts, Zenon DEF mmi!Grown, Grown, mmi!Failed, Failed, mmi!Result, Result, mmi!NULL, NULL
  <2>3. \A n : mmi!mem_sbrk(h, n) = mem_sbrk(h, n)
    BY DEF mmi!mem_sbrk, mem_sbrk, mmi!Result, Result, mmi!Failed, Failed
  <2> QED
    BY <2>2, <2>3 DEF mmi!Extended, Extended, mmi!WSIZE, WSIZE
<1>2. ASSUME NEW h, NEW dst, NEW src, NEW n PROVE mmi!memmove(h, dst, src, n) = memmove(h, dst, src, n)
  BY DEF mmi!memmove, memmove, mmi!Addr, Addr, mmi!Junk, Junk, mmi!WSIZE, WSIZE
<1>3. ASSUME NEW h, NEW n PROVE mmi!mem_sbrk(h, n) = mem_sbrk(h, n)
  BY DEF mmi!mem_sbrk, mem_sbrk, mmi!Result, Result, mmi!Failed, Failed
<1> QED
  BY <1>1, <1>2, <1>3

-----------------------------------------------------------------------------
(* mm_implicit.c: the heap without a list.                                 *)

PlainHeap(h, D, sz, al) == Tiled(h, D, sz, al) /\ Apart(D, sz, al)

PlainFreed(h, g, sz, al, p, n) ==
    \E E, zs : /\ PlainHeap(g, E, zs, al) /\ Kept(h, g, sz, zs, al \ {h.prol})
               /\ p \in E \ al /\ zs[p] >= n /\ g.prol = h.prol

\* Words from lo to hi are written; the blocks outside keep their contents.
PlainSpares(h, k, D, sz, lo, hi) ==
    /\ Touches(h, k, sz, lo, hi, D)
    /\ \A Y \in SUBSET D : \A zs :
           (\A y \in Y : (y < lo \/ hi <= y) /\ zs[y] = sz[y]) => Kept(h, k, sz, zs, Y)

LEMMA PlainWrites ==
  ASSUME NEW h, NEW D, NEW sz, NEW al, Tiled(h, D, sz, al),
         NEW lo \in D \cup {h.brk}, NEW hi \in D \cup {h.brk}, lo <= hi, NEW k, Writes(h, k, lo, hi)
  PROVE  PlainSpares(h, k, D, sz, lo, hi)
<1>1. TiledIs(h, D, sz, al)
  BY TiledFacts
<1>2. Layout(h.prol, h.brk, D, sz) /\ lo \in Nat /\ hi \in Nat
  BY <1>1 DEF TiledIs
<1>3. Touches(h, k, sz, lo, hi, {}) /\ Touches(h, k, sz, lo, hi, D)
  BY DEF Writes, Touches
<1>4. ASSUME NEW Y \in SUBSET D, NEW zs, \A y \in Y : (y < lo \/ hi <= y) /\ zs[y] = sz[y]
      PROVE  Kept(h, k, sz, zs, Y)
  <2>1. /\ {} \in SUBSET D /\ Y \in SUBSET (D \ {}) /\ (\A y \in Y : y < lo \/ hi <= y)
        /\ (\A y \in Y : zs[y] = sz[y])
    BY <1>4
  <2> QED
    BY <1>2, <1>3, <2>1, ContentsUntouched, Zenon
<1> QED
  BY <1>3, <1>4, Zenon DEF PlainSpares

PlainJoined(h, k, D, sz, al, lo, hi, al2) ==
    /\ Tiled(k, JoinedTo(D, lo, hi), JoinedSizes(D, sz, lo, hi), al2) /\ k.prol = h.prol
    /\ Kept(h, k, sz, JoinedSizes(D, sz, lo, hi), Outside(D, lo, hi))

\* The blocks from lo to hi get the tags of one block.
LEMMA PlainJoin ==
  ASSUME NEW h, NEW D, NEW sz, NEW al, Tiled(h, D, sz, al),
         NEW lo \in D, NEW hi \in D \cup {h.brk}, lo < hi, lo # h.prol, NEW e \in {0, 1},
         NEW k, k = PutTags(h, lo, hi - lo, e),
         NEW al2, al2 = Outside(al, lo, hi) \cup (IF e = 1 THEN {lo} ELSE {})
  PROVE  PlainJoined(h, k, D, sz, al, lo, hi, al2)
<1>1. TiledIs(h, D, sz, al)
  BY TiledFacts
<1>2. /\ Layout(h.prol, h.brk, D, sz) /\ lo \in Nat /\ hi \in Nat /\ lo % 8 = 0 /\ hi % 8 = 0 /\ h \in Heaps
      /\ \A x \in D : x \in Nat /\ sz[x] \in Nat /\ (lo < x => lo + sz[lo] <= x)
      /\ lo + sz[lo] <= h.brk /\ sz[lo] >= 16 /\ D \subseteq Nat
      /\ \E y \in D : y + sz[y] = hi
  <2>1. hi # h.prol
    BY <1>1 DEF TiledIs
  <2>2. \E y \in D : y + sz[y] = hi
    BY <1>1, <2>1 DEF TiledIs, Layout
  <2> QED
    BY <1>1, <2>2 DEF TiledIs
<1>3. hi - lo \in Nat /\ hi - lo >= 16 /\ (hi - lo) % 8 = 0 /\ hi - lo >= 8 /\ lo <= hi /\ lo \in Int
  <2>1. lo + sz[lo] <= hi
    BY <1>2
  <2> QED
    BY <1>2, <2>1
<1>4. PutsTags(h, k, lo, hi - lo, hi - lo + e)
  <2>1. lo - 4 \in Addr
    BY <1>2, BlockWords
  <2>2. PICK y \in D : y + sz[y] = hi
    BY <1>2
  <2>3. lo + (hi - lo) - 8 = y + sz[y] - 8
    BY <1>2, <2>2
  <2>4. lo + (hi - lo) - 8 \in Addr
    BY <1>2, <2>2, <2>3, BlockWords
  <2> QED
    BY <1>2, <1>3, <2>1, <2>4, PutTagsIs, Zenon
<1>5. WritesTags(h, k, lo, hi, hi - lo + e)
  BY <1>2, <1>3, <1>4, PutsTagsWrites
<1>6. PlainSpares(h, k, D, sz, lo, hi)
  <2>1. lo \in D \cup {h.brk} /\ Writes(h, k, lo, hi)
    BY <1>5 DEF WritesTags
  <2> QED
    BY <1>3, <2>1, PlainWrites, Zenon
<1>7. Tiled(k, JoinedTo(D, lo, hi), JoinedSizes(D, sz, lo, hi), al2)
  <2>1. al2 = {x \in al : x < lo \/ hi <= x} \cup (IF e = 1 THEN {lo} ELSE {})
    BY DEF Outside
  <2>2. /\ k \in Heaps /\ k.brk = h.brk /\ k.prol = h.prol /\ Touches(h, k, sz, lo, hi, D)
        /\ k.mem[lo - 4] = hi - lo + e /\ k.mem[hi - 8] = hi - lo + e
    BY <1>5, <1>6 DEF WritesTags, Writes, PlainSpares
  <2> QED
    BY <2>1, <2>2, TiledJoined
<1>8. Kept(h, k, sz, JoinedSizes(D, sz, lo, hi), Outside(D, lo, hi))
  <2>1. \A y \in Outside(D, lo, hi) : JoinedSizes(D, sz, lo, hi)[y] = sz[y]
    <3>1. \A y \in Outside(D, lo, hi) : y \in JoinedTo(D, lo, hi) /\ y # lo
      <4>1. ASSUME NEW y \in D, y < lo \/ hi <= y PROVE (y <= lo \/ hi <= y) /\ y # lo
        <5>1. y \in Nat /\ lo \in Nat /\ hi \in Nat
          BY <1>2
        <5> QED
          BY <4>1, <5>1
      <4> QED
        BY <4>1 DEF Outside, JoinedTo
    <3> QED
      BY <3>1 DEF JoinedSizes
  <2>2. Outside(D, lo, hi) \in SUBSET D /\ \A y \in Outside(D, lo, hi) : y < lo \/ hi <= y
    BY DEF Outside
  <2> QED
    BY <1>6, <2>1, <2>2 DEF PlainSpares
<1> QED
  BY <1>5, <1>7, <1>8 DEF PlainJoined, WritesTags, Writes

\* coalesce.
LEMMA PlainReleases ==
  ASSUME NEW h, NEW D, NEW sz, NEW al, NEW bp, Uncoalesced(h, D, sz, al, bp), bp # h.prol,
         NEW r, r = mmi!coalesce(h, bp)
  PROVE  PlainFreed(h, r.heap, sz, al, r.ptr, sz[bp])
<1>1. TiledIs(h, D, sz, al) /\ Tiled(h, D, sz, al) /\ bp \in D /\ bp \notin al
  BY TiledFacts DEF Uncoalesced
<1>2. PICK p \in D : /\ p + sz[p] = bp /\ p # bp /\ PREV_BLKP(h, bp) = p
                     /\ GET_ALLOC(h, FTRP(h, p)) = 0 <=> p \notin al
                     /\ NEXT_BLKP(h, bp) = bp + sz[bp] /\ GET_SIZE(h, HDRP(bp)) = sz[bp]
                     /\ GET_ALLOC(h, HDRP(bp + sz[bp])) = 0 <=> bp + sz[bp] \in D \ al
  BY CoalesceReads
<1>3. PICK nx : nx = bp + sz[bp]
  OBVIOUS
<1>4. PICK lo : lo = IF p \notin al THEN p ELSE bp
  OBVIOUS
<1>5. PICK hi : hi = IF nx \in D \ al THEN nx + sz[nx] ELSE nx
  OBVIOUS
<1>6. /\ \A x \in D : /\ x < p \/ x = p \/ x = bp \/ x >= nx
                      /\ x + sz[x] = bp => x = p
                      /\ nx \in D => (x = nx \/ x < nx \/ x >= nx + sz[nx])
                      /\ (p \notin al /\ x + sz[x] = p) => x \in al
      /\ (nx \in D \ al /\ nx + sz[nx] \in D) => nx + sz[nx] \in al
  <2>1. AroundIs(D, sz, al, bp, p, nx)
    BY <1>2, <1>3, Around, Zenon
  <2> QED
    BY <2>1, Zenon DEF AroundIs
<1>7. /\ \A x \in D : /\ x \in Nat /\ h.prol <= x /\ x < h.brk /\ sz[x] \in Nat /\ sz[x] >= 8
                      /\ x + sz[x] \in Nat /\ x + sz[x] <= h.brk /\ x + sz[x] \in D \cup {h.brk}
      /\ h.prol \in al /\ al \subseteq D /\ h.brk \in Nat /\ h.brk \notin D /\ h.prol \in D
  BY <1>1 DEF TiledIs
<1>8. /\ lo \in D /\ hi \in D \cup {h.brk} /\ lo <= bp /\ bp + sz[bp] <= hi /\ lo # h.prol
      /\ lo \in Nat /\ hi \in Nat /\ lo < hi /\ hi - lo >= sz[bp] /\ hi - lo \in Nat
  BY <1>1, <1>2, <1>3, <1>4, <1>5, <1>7
<1>9. \A x \in al : x < lo \/ hi <= x
  <2>1. ASSUME NEW x \in al PROVE x < lo \/ hi <= x
    <3>1. x \in D /\ x # bp
      BY <1>1, <1>7, <2>1
    <3>2. x < lo \/ x >= nx
      BY <1>2, <1>4, <1>6, <1>7, <3>1, <2>1
    <3>3. nx \in D \ al => (x < nx \/ x >= nx + sz[nx])
      BY <1>6, <3>1, <2>1
    <3> QED
      BY <1>3, <1>5, <1>7, <1>8, <3>1, <3>2, <3>3
  <2> QED
    BY <2>1
<1>10. (\A x \in D : x + sz[x] = lo => x \in al) /\ hi \notin D \ al
  <2>1. ASSUME NEW x \in D, x + sz[x] = lo PROVE x \in al
    BY <1>4, <1>6, <2>1
  <2>2. hi \notin D \ al
    BY <1>5, <1>6
  <2> QED
    BY <2>1, <2>2
<1>11. PICK pf, nf : pf = (p \notin al) /\ nf = (nx \in D \ al)
  OBVIOUS
<1>12. r = Result(IF pf \/ nf THEN PutTags(h, lo, hi - lo, 0) ELSE h, lo)
  <2>1. GET_SIZE(h, HDRP(p)) = sz[p] /\ (nx \in D \ al => GET_SIZE(h, FTRP(h, nx)) = sz[nx])
    BY <1>1 DEF TiledIs, Reads
  <2>2. hi - lo = sz[bp] + (IF p \notin al THEN sz[p] ELSE 0) + (IF nx \in D \ al THEN sz[nx] ELSE 0)
    BY <1>1, <1>2, <1>3, <1>4, <1>5, <1>7
  <2>3. hi - lo = sz[bp] + (IF p \notin al THEN GET_SIZE(h, HDRP(p)) ELSE 0)
                         + (IF nx \in D \ al THEN GET_SIZE(h, FTRP(h, nx)) ELSE 0)
    BY <2>1, <2>2
  <2>4. /\ GET_ALLOC(h, FTRP(h, p)) = 0 <=> p \notin al
        /\ GET_ALLOC(h, HDRP(nx)) = 0 <=> nx \in D \ al
    BY <1>2, <1>3
  <2>5. /\ PREV_BLKP(h, bp) = p /\ NEXT_BLKP(h, bp) = nx /\ GET_SIZE(h, HDRP(bp)) = sz[bp]
    BY <1>2, <1>3
  <2> QED
    BY <1>4, <1>11, <2>3, <2>4, <2>5, ImplicitReads, ImplicitPuts, ImplicitWords DEF mmi!coalesce
<1>13. CASE ~pf /\ ~nf
  <2>1. r = Result(h, bp)
    BY <1>4, <1>11, <1>12, <1>13
  <2>2. Apart(D, sz, al)
    <3>1. ASSUME NEW x \in D \ al, x + sz[x] \in D \ al PROVE FALSE
      <4>1. x = bp \/ x + sz[x] = bp
        BY <3>1 DEF Uncoalesced
      <4> QED
        BY <1>3, <1>6, <1>11, <1>13, <3>1, <4>1
    <3> QED
      BY <3>1 DEF Apart
  <2>3. Kept(h, h, sz, sz, al \ {h.prol}) /\ sz[bp] >= sz[bp]
    BY <1>1, <1>7 DEF Kept
  <2>4. PlainFreed(h, h, sz, al, bp, sz[bp])
    BY <1>1, <2>2, <2>3 DEF PlainFreed, PlainHeap
  <2> QED
    BY <2>1, <2>4 DEF Result
<1>14. CASE pf \/ nf
  <2>1. PICK k : k = PutTags(h, lo, hi - lo, 0)
    OBVIOUS
  <2>2. r = Result(k, lo)
    BY <1>12, <1>14, <2>1
  <2>3. PICK E, zs : E = JoinedTo(D, lo, hi) /\ zs = JoinedSizes(D, sz, lo, hi)
    OBVIOUS
  <2>4. PlainJoined(h, k, D, sz, al, lo, hi, al)
    <3>1. PICK e \in {0, 1} : e = 0
      OBVIOUS
    <3>2. al = Outside(al, lo, hi) \cup (IF e = 1 THEN {lo} ELSE {}) /\ k = PutTags(h, lo, hi - lo, e)
      BY <1>9, <2>1, <3>1 DEF Outside
    <3> QED
      BY <1>1, <1>8, <3>2, PlainJoin, Zenon
  <2>5. Tiled(k, E, zs, al) /\ k.prol = h.prol /\ Kept(h, k, sz, zs, Outside(D, lo, hi))
    BY <2>3, <2>4 DEF PlainJoined
  <2>6. /\ E = Outside(D, lo, hi) \cup {lo} /\ zs[lo] = hi - lo
        /\ \A x \in Outside(D, lo, hi) : zs[x] = sz[x]
    <3>1. E = Outside(D, lo, hi) \cup {lo}
      <4>1. \A x \in D : (x <= lo \/ hi <= x) <=> (x < lo \/ hi <= x \/ x = lo)
        BY <1>7, <1>8
      <4> QED
        BY <1>8, <2>3, <4>1 DEF JoinedTo, Outside
    <3>2. zs = [x \in E |-> IF x = lo THEN hi - lo ELSE sz[x]]
      BY <2>3 DEF JoinedSizes
    <3>3. lo \in E /\ \A x \in Outside(D, lo, hi) : x \in E /\ x # lo
      BY <1>8, <3>1 DEF Outside
    <3> QED
      BY <3>1, <3>2, <3>3
  <2>7. Apart(E, zs, al)
    <3>1. ASSUME NEW x \in E \ al, x + zs[x] \in E \ al PROVE FALSE
      <4>1. CASE x = lo
        <5>1. x + zs[x] = hi
          BY <1>8, <2>6, <4>1
        <5> QED
          BY <1>8, <1>10, <2>6, <3>1, <5>1 DEF Outside
      <4>2. CASE x # lo
        <5>1. x \in D \ al /\ (x < lo \/ hi <= x) /\ zs[x] = sz[x]
          BY <2>6, <3>1, <4>2 DEF Outside
        <5>2. CASE x + sz[x] = lo
          BY <1>10, <5>1, <5>2
        <5>3. CASE x + sz[x] # lo
          <6>1. x + sz[x] \in D \ al /\ (x + sz[x] < lo \/ hi <= x + sz[x])
            BY <2>6, <3>1, <5>1, <5>3 DEF Outside
          <6>2. x = bp \/ x + sz[x] = bp
            BY <5>1, <6>1 DEF Uncoalesced
          <6> QED
            BY <1>1, <1>7, <1>8, <5>1, <6>1, <6>2
        <5> QED
          BY <5>2, <5>3
      <4> QED
        BY <4>1, <4>2
    <3> QED
      BY <3>1 DEF Apart
  <2>8. Kept(h, k, sz, zs, al \ {h.prol})
    <3>1. al \ {h.prol} \subseteq Outside(D, lo, hi)
      BY <1>7, <1>9 DEF Outside
    <3> QED
      BY <2>5, <3>1, Zenon DEF Kept
  <2>9. lo \in E \ al /\ zs[lo] >= sz[bp]
    BY <1>8, <1>9, <2>6
  <2>10. PlainFreed(h, k, sz, al, lo, sz[bp])
    BY <2>5, <2>7, <2>8, <2>9 DEF PlainFreed, PlainHeap
  <2> QED
    BY <2>2, <2>10 DEF Result
<1> QED
  BY <1>13, <1>14

-----------------------------------------------------------------------------
(* mm_implicit.c: mm_free, place, extend_heap.                             *)

PlainWholeIs(h, k, D, sz, x, al2) ==
    Tiled(k, D, sz, al2) /\ k.prol = h.prol /\ Kept(h, k, sz, sz, D \ {x})

\* The block x gets new tags.
LEMMA PlainWhole ==
  ASSUME NEW h, NEW D, NEW sz, NEW al, Tiled(h, D, sz, al), NEW x \in D, x # h.prol, NEW e \in {0, 1},
         NEW k, k = PutTags(h, x, sz[x], e),
         NEW al2, al2 = (al \ {x}) \cup (IF e = 1 THEN {x} ELSE {})
  PROVE  PlainWholeIs(h, k, D, sz, x, al2)
<1>1. TiledIs(h, D, sz, al)
  BY TiledFacts
<1>2. PICK hi : hi = x + sz[x]
  OBVIOUS
<1>3. hi \in D \cup {h.brk} /\ x < hi /\ hi - x = sz[x] /\ Layout(h.prol, h.brk, D, sz) /\ al \in SUBSET D
  <2>1. x \in Nat /\ sz[x] \in Nat /\ sz[x] >= 8 /\ x + sz[x] \in D \cup {h.brk}
    BY <1>1 DEF TiledIs
  <2>2. x < hi /\ hi - x = sz[x]
    BY <1>2, <2>1
  <2> QED
    BY <1>1, <1>2, <2>1, <2>2 DEF TiledIs
<1>4. /\ JoinedTo(D, x, hi) = D /\ JoinedSizes(D, sz, x, hi) = sz
      /\ \A F \in SUBSET D : Outside(F, x, hi) = F \ {x}
  <2>1. JoinedIs(D, sz, x)
    BY <1>3, JoinedSelf, Zenon
  <2> QED
    BY <1>2, <2>1 DEF JoinedIs
<1>5. PlainJoined(h, k, D, sz, al, x, hi, al2)
  <2>1. k = PutTags(h, x, hi - x, e) /\ al2 = Outside(al, x, hi) \cup (IF e = 1 THEN {x} ELSE {})
    BY <1>3, <1>4
  <2> QED
    BY <1>3, <2>1, PlainJoin, Zenon
<1>6. Outside(D, x, hi) = D \ {x}
  BY <1>4
<1> QED
  BY <1>4, <1>5, <1>6 DEF PlainJoined, PlainWholeIs

PlainFreeDone(h, g, sz, al, ptr) ==
    \E E, zs : PlainHeap(g, E, zs, al \ {ptr}) /\ Kept(h, g, sz, zs, al \ {h.prol, ptr})

LEMMA PlainFree ==
  ASSUME NEW h, NEW D, NEW sz, NEW al, PlainHeap(h, D, sz, al), NEW ptr \in al, ptr # h.prol
  PROVE  PlainFreeDone(h, mmi!mm_free(h, ptr), sz, al, ptr)
<1>1. TiledIs(h, D, sz, al) /\ Tiled(h, D, sz, al) /\ Apart(D, sz, al)
  BY TiledFacts DEF PlainHeap
<1>2. ptr \in D /\ ptr # 0 /\ GET_SIZE(h, HDRP(ptr)) = sz[ptr]
  <2>1. ptr \in D /\ h.prol <= ptr /\ h.prol = Start + 8 /\ ptr \in Nat /\ Reads(h, sz, al, ptr)
    BY <1>1 DEF TiledIs
  <2> QED
    BY <2>1, MemAssumption DEF Reads
<1>3. PICK k, A : k = PutTags(h, ptr, sz[ptr], 0) /\ A = al \ {ptr}
  OBVIOUS
<1>4. Tiled(k, D, sz, A) /\ k.prol = h.prol /\ Kept(h, k, sz, sz, D \ {ptr})
  <2>1. PICK e \in {0, 1} : e = 0
    OBVIOUS
  <2>2. k = PutTags(h, ptr, sz[ptr], e) /\ A = (al \ {ptr}) \cup (IF e = 1 THEN {ptr} ELSE {})
    BY <1>3, <2>1
  <2>3. PlainWholeIs(h, k, D, sz, ptr, A)
    BY <1>1, <1>2, <2>2, PlainWhole, Zenon
  <2> QED
    BY <2>3 DEF PlainWholeIs
<1>5. PICK r : r = mmi!coalesce(k, ptr)
  OBVIOUS
<1>6. mmi!mm_free(h, ptr) = r.heap
  BY <1>2, <1>3, <1>5, ImplicitReads, ImplicitPuts, ImplicitWords DEF mmi!mm_free
<1>7. Uncoalesced(k, D, sz, A, ptr) /\ ptr # k.prol
  <2>1. \A x \in D \ A : x + sz[x] \in D \ A => x = ptr \/ x + sz[x] = ptr
    BY <1>1, <1>3 DEF Apart
  <2> QED
    BY <1>2, <1>3, <1>4, <2>1 DEF Uncoalesced
<1>8. PlainFreed(k, r.heap, sz, A, r.ptr, sz[ptr])
  BY <1>5, <1>7, PlainReleases
<1>9. PICK E, zs : PlainHeap(r.heap, E, zs, A) /\ Kept(k, r.heap, sz, zs, A \ {k.prol})
  BY <1>8 DEF PlainFreed
<1>10. PICK X : X = al \ {h.prol, ptr}
  OBVIOUS
<1>11. Kept(h, k, sz, sz, X) /\ Kept(k, r.heap, sz, zs, X)
  <2>1. X \subseteq D \ {ptr} /\ X \subseteq A \ {k.prol}
    BY <1>1, <1>3, <1>4, <1>10 DEF TiledIs
  <2> QED
    BY <1>4, <1>9, <2>1, Zenon DEF Kept
<1>12. Kept(h, r.heap, sz, zs, X)
  BY <1>11, KeptOn, Zenon
<1> QED
  BY <1>3, <1>6, <1>9, <1>10, <1>12 DEF PlainFreeDone

PlainAllocated(h, g, sz, al, p, n) ==
    \E E, zs : /\ PlainHeap(g, E, zs, al \cup {p}) /\ p \notin al /\ zs[p] >= n
               /\ Kept(h, g, sz, zs, al \ {h.prol}) /\ g.prol = h.prol

\* The free block lo is split.
LEMMA PlainSplit ==
  ASSUME NEW h, NEW D, NEW sz, NEW al, PlainHeap(h, D, sz, al), NEW lo \in D \ al,
         NEW n \in Nat, n % 8 = 0, n >= 16, n + 16 <= sz[lo],
         NEW hi, hi = lo + sz[lo], NEW k, k = Split(h, lo, n, hi - lo - n)
  PROVE  PlainAllocated(h, k, sz, al, lo, n)
<1>1. TiledIs(h, D, sz, al) /\ Tiled(h, D, sz, al) /\ Apart(D, sz, al)
  BY TiledFacts DEF PlainHeap
<1>2. /\ \A x \in D : x \in Nat /\ h.prol <= x /\ x < h.brk /\ sz[x] \in Nat /\ sz[x] >= 8 /\ x % 8 = 0
      /\ h.prol \in Nat /\ h.prol \in D /\ h.prol \in al /\ al \subseteq D /\ h \in Heaps
      /\ h.brk \in Nat /\ D \subseteq Nat /\ h.brk % 8 = 0 /\ Layout(h.prol, h.brk, D, sz)
      /\ lo \in D /\ lo # h.prol /\ hi \in D \cup {h.brk}
      /\ \A x, y \in D : x < y => x + sz[x] <= y
  BY <1>1 DEF TiledIs
<1>3. PICK mid : mid = lo + n
  OBVIOUS
<1>4. /\ lo \in Nat /\ hi \in Nat /\ lo < hi /\ lo <= hi /\ lo + n < hi /\ n > 0 /\ n < hi - lo /\ mid \in Nat
      /\ lo < mid /\ mid < hi /\ hi \in Int /\ (hi - lo) % 8 = 0 /\ lo \in D \cup {h.brk}
      /\ n + 16 <= hi - lo /\ lo + n + 16 <= hi
  <2>1. lo \in Nat /\ hi \in Nat /\ lo % 8 = 0 /\ hi % 8 = 0 /\ sz[lo] \in Nat
    BY <1>2
  <2>2. (hi - lo) % 8 = 0
    BY <2>1
  <2> QED
    BY <1>2, <1>3, <2>1, <2>2
<1>5. PICK E, cs : E = SplitTo(D, lo, hi, n) /\ cs = SplitSizes(D, sz, lo, hi, n)
  OBVIOUS
<1>6. SplitIs(E, cs, D, sz, lo, hi, n)
  <2>1. SplitIs(SplitTo(D, lo, hi, n), SplitSizes(D, sz, lo, hi, n), D, sz, lo, hi, n)
    BY <1>2, <1>4, SplitBlocks
  <2> QED
    BY <1>5, <2>1
<1>7. /\ E = D \cup {mid} /\ cs[lo] = n /\ cs[mid] = hi - lo - n
      /\ \A x \in D \ {lo} : cs[x] = sz[x] /\ (x < lo \/ hi <= x)
  <2>1. ASSUME NEW x \in D \ {lo} PROVE x < lo \/ hi <= x
    BY <1>2, <1>4, <2>1
  <2>2. \A x \in D : x <= lo \/ hi <= x
    BY <1>2, <1>4, <2>1
  <2>3. E = D \cup {mid}
    BY <1>3, <1>6, <2>2, Zenon DEF SplitIs
  <2>4. cs[lo] = n /\ cs[mid] = hi - lo - n
    BY <1>3, <1>6 DEF SplitIs
  <2>5. \A x \in D \ {lo} : cs[x] = sz[x]
    BY <1>6, <2>1 DEF SplitIs
  <2> QED
    BY <2>1, <2>3, <2>4, <2>5
<1>8. Layout(h.prol, h.brk, E, cs)
  <2>1. Layout(h.prol, h.brk, JoinedTo(D, lo, hi), JoinedSizes(D, sz, lo, hi))
    BY <1>2, <1>4, LayoutJoined, Zenon
  <2>2. lo \in JoinedTo(D, lo, hi) /\ JoinedSizes(D, sz, lo, hi)[lo] = hi - lo
    BY <1>2, <1>4 DEF JoinedTo, JoinedSizes
  <2>3. n + 16 <= JoinedSizes(D, sz, lo, hi)[lo]
    BY <1>4, <2>2
  <2>4. Layout(h.prol, h.brk, JoinedTo(D, lo, hi) \cup {lo + n},
               CutSizes(JoinedTo(D, lo, hi), JoinedSizes(D, sz, lo, hi), lo, n))
    BY <1>2, <2>1, <2>2, <2>3, LayoutCut, Zenon
  <2> QED
    BY <1>5, <2>4 DEF SplitTo, SplitSizes
<1>9. lo - 4 \in Addr /\ lo + n - 8 \in Addr /\ lo + n - 4 \in Addr /\ hi - 8 \in Addr
  <2>1. lo \in E /\ mid \in E /\ mid + cs[mid] - 8 = hi - 8
    <3>1. lo \in Nat /\ hi \in Nat /\ mid = lo + n /\ cs[mid] = hi - lo - n
      BY <1>3, <1>4, <1>7
    <3>2. mid + (hi - lo - n) - 8 = hi - 8
      BY <3>1
    <3> QED
      BY <1>2, <1>7, <3>1, <3>2
  <2>2. lo - 4 \in Addr /\ lo + cs[lo] - 8 \in Addr /\ mid - 4 \in Addr /\ mid + cs[mid] - 8 \in Addr
    BY <1>8, <2>1, BlockWords
  <2> QED
    BY <1>3, <1>7, <2>1, <2>2
<1>10. SplitIn(h, k, lo, hi, n)
  BY <1>2, <1>4, <1>9, SplitPuts, Zenon
<1>11. PlainSpares(h, k, D, sz, lo, hi) /\ Writes(h, k, lo, hi)
  <2>1. Writes(h, k, lo, hi)
    BY <1>10 DEF SplitIn
  <2> QED
    BY <1>1, <1>2, <1>4, <2>1, PlainWrites, Zenon
<1>12. Tiled(k, E, cs, al \cup {lo}) /\ k.prol = h.prol
  <2>1. al \cup {lo} = {x \in al : x < lo \/ hi <= x} \cup {lo}
    BY <1>2, <1>7
  <2>2. /\ k \in Heaps /\ k.brk = h.brk /\ k.prol = h.prol /\ Touches(h, k, sz, lo, hi, D)
    BY <1>11 DEF Writes, PlainSpares
  <2>3. /\ k.mem[lo - 4] = n + 1 /\ k.mem[lo + n - 8] = n + 1
        /\ k.mem[lo + n - 4] = hi - lo - n /\ k.mem[hi - 8] = hi - lo - n
    BY <1>10 DEF SplitIn
  <2>4. PICK A : A = {x \in al : x < lo \/ hi <= x} \cup {lo}
    OBVIOUS
  <2>5. Tiled(k, SplitTo(D, lo, hi, n), SplitSizes(D, sz, lo, hi, n), A)
    <3>1. lo \in D /\ hi \in D \cup {h.brk} /\ lo # h.prol /\ lo + n + 16 <= hi
      BY <1>2, <1>4
    <3> QED
      BY <1>1, <2>2, <2>3, <2>4, <3>1, TiledSplit
  <2> QED
    BY <1>5, <2>1, <2>2, <2>4, <2>5
<1>13. Apart(E, cs, al \cup {lo})
  <2>1. ASSUME NEW x \in E \ (al \cup {lo}), x + cs[x] \in E \ (al \cup {lo}) PROVE FALSE
    <3>1. CASE x = mid
      <4>1. x + cs[x] = hi
        BY <1>3, <1>4, <1>7, <3>1
      <4>2. hi \notin D \ al /\ hi # mid
        BY <1>1, <1>4 DEF Apart
      <4> QED
        BY <1>7, <2>1, <4>1, <4>2
    <3>2. CASE x # mid
      <4>1. x \in D \ al /\ x # lo /\ cs[x] = sz[x] /\ (x < lo \/ hi <= x)
        BY <1>7, <2>1, <3>2
      <4>2. x + sz[x] # mid
        BY <1>2, <1>4, <4>1
      <4>3. x + sz[x] \in D \ al
        BY <1>7, <2>1, <4>1, <4>2
      <4> QED
        BY <1>1, <4>1, <4>3 DEF Apart
    <3> QED
      BY <3>1, <3>2
  <2> QED
    BY <2>1 DEF Apart
<1>14. Kept(h, k, sz, cs, al \ {h.prol})
  <2>1. PICK Y : Y = al \ {h.prol}
    OBVIOUS
  <2>2. Y \in SUBSET D /\ \A y \in Y : (y < lo \/ hi <= y) /\ cs[y] = sz[y]
    BY <1>2, <1>7, <2>1
  <2> QED
    BY <1>11, <2>1, <2>2, Zenon DEF PlainSpares
<1>15. cs[lo] >= n
  BY <1>7
<1> QED
  BY <1>12, <1>13, <1>14, <1>15 DEF PlainAllocated, PlainHeap

LEMMA PlainPlace ==
  ASSUME NEW h, NEW D, NEW sz, NEW al, PlainHeap(h, D, sz, al), NEW bp \in D \ al,
         NEW n \in Nat, n % 8 = 0, n >= 16, n <= sz[bp]
  PROVE  PlainAllocated(h, mmi!place(h, bp, n), sz, al, bp, n)
<1>1. TiledIs(h, D, sz, al) /\ Tiled(h, D, sz, al) /\ Apart(D, sz, al)
  BY TiledFacts DEF PlainHeap
<1>2. /\ bp \in D /\ bp \in Nat /\ sz[bp] \in Nat /\ GET_SIZE(h, HDRP(bp)) = sz[bp] /\ bp # h.prol
      /\ h.prol \in al /\ al \subseteq D /\ bp + sz[bp] <= Start + MAX_HEAP
  <2>1. bp + sz[bp] <= h.brk /\ h.brk <= Start + MAX_HEAP /\ h.brk \in Nat /\ bp \in Nat /\ sz[bp] \in Nat
    BY <1>1 DEF TiledIs
  <2>2. bp + sz[bp] <= Start + MAX_HEAP
    BY <2>1, MemAssumption
  <2> QED
    BY <1>1, <2>2 DEF TiledIs, Reads
<1>3. (sz[bp] - n) % SIZE_T = sz[bp] - n
  <2>1. sz[bp] - n \in Nat /\ sz[bp] - n < SIZE_T /\ SIZE_T \in Nat
    BY <1>2, MemAssumption
  <2> QED
    BY <2>1, SmallRemainder
<1>4. mmi!place(h, bp, n) = IF sz[bp] - n < 16 THEN PutTags(h, bp, sz[bp], 1)
                            ELSE Split(h, bp, n, sz[bp] - n)
  BY <1>2, <1>3, ImplicitReads, ImplicitPuts, ImplicitWords DEF mmi!place
<1>5. CASE sz[bp] - n < 16
  <2>1. PICK k, A : k = PutTags(h, bp, sz[bp], 1) /\ A = al \cup {bp}
    OBVIOUS
  <2>2. PlainWholeIs(h, k, D, sz, bp, A)
    <3>1. PICK e \in {0, 1} : e = 1
      OBVIOUS
    <3>2. A = (al \ {bp}) \cup (IF e = 1 THEN {bp} ELSE {}) /\ k = PutTags(h, bp, sz[bp], e)
      BY <2>1, <3>1
    <3> QED
      BY <1>1, <1>2, <3>2, PlainWhole, Zenon
  <2>3. Tiled(k, D, sz, A) /\ k.prol = h.prol /\ Kept(h, k, sz, sz, D \ {bp})
    BY <2>2 DEF PlainWholeIs
  <2>4. Apart(D, sz, A)
    BY <1>1, <2>1 DEF Apart
  <2>5. Kept(h, k, sz, sz, al \ {h.prol})
    <3>1. al \ {h.prol} \subseteq D \ {bp}
      BY <1>2
    <3> QED
      BY <2>3, <3>1, Zenon DEF Kept
  <2>6. sz[bp] >= n
    BY <1>2
  <2>7. PlainHeap(k, D, sz, al \cup {bp})
    BY <2>1, <2>3, <2>4 DEF PlainHeap
  <2> QED
    BY <1>4, <1>5, <2>1, <2>3, <2>5, <2>6, <2>7 DEF PlainAllocated
<1>6. CASE ~(sz[bp] - n < 16)
  <2>1. PICK hi : hi = bp + sz[bp]
    OBVIOUS
  <2>2. hi - bp - n = sz[bp] - n /\ n + 16 <= sz[bp]
    BY <1>2, <1>6, <2>1
  <2>3. PICK k : k = Split(h, bp, n, hi - bp - n)
    OBVIOUS
  <2>4. mmi!place(h, bp, n) = k
    BY <1>4, <1>6, <2>2, <2>3
  <2> QED
    BY <2>1, <2>2, <2>3, <2>4, PlainSplit, Zenon
<1> QED
  BY <1>5, <1>6

LEMMA PlainExtend ==
  ASSUME NEW h, NEW D, NEW sz, NEW al, PlainHeap(h, D, sz, al),
         NEW n \in Nat, n % 8 = 0, n >= 16, NEW r, r = mmi!extend_heap(h, n \div 4)
  PROVE  \/ r.ptr = NULL /\ r.heap = h
         \/ r.ptr # NULL /\ PlainFreed(h, r.heap, sz, al, r.ptr, n)
<1>1. TiledIs(h, D, sz, al) /\ Tiled(h, D, sz, al) /\ Apart(D, sz, al)
  BY TiledFacts DEF PlainHeap
<1>2. PICK e : e = Extended(h, n \div 4)
  OBVIOUS
<1>3. r = IF e.ptr = NULL THEN e ELSE mmi!coalesce(e.heap, e.ptr)
  BY <1>2, ImplicitMoves DEF mmi!extend_heap, mmi!Coalesced, mmi!NULL, NULL
<1>4. CASE e.ptr = NULL
  <2>1. r = e
    BY <1>3, <1>4
  <2>2. h \in Heaps /\ h.brk > Start + 8
    BY <1>1, MemAssumption DEF TiledIs
  <2> QED
    BY <1>2, <1>4, <2>1, <2>2, ExtendedFails
<1>5. CASE e.ptr # NULL
  <2>1. PICK b, g, zs : b = h.brk /\ g = e.heap /\ zs = GrownSizes(D, sz, b, n)
    OBVIOUS
  <2>2. b \in Nat /\ b % 8 = 0 /\ b > Start + 8 /\ h \in Heaps
    BY <1>1, <2>1, MemAssumption DEF TiledIs
  <2>3. e.ptr = b /\ b + n <= Start + MAX_HEAP /\ GrowsTo(h, g, b, n)
    BY <1>2, <1>5, <2>1, <2>2, ExtendedIs
  <2>4. GrownTags(h, g, D, sz, al, b, n, zs)
    BY <1>1, <2>1, <2>3, GrownTiled
  <2>5. Tiled(g, D \cup {b}, zs, al) /\ b \notin D /\ zs[b] = n /\ (\A x \in D : zs[x] = sz[x]) /\ g.prol = h.prol
    BY <2>3, <2>4 DEF GrownTags, GrowsTo
  <2>6. b \notin al /\ b # g.prol
    BY <1>1, <2>5 DEF TiledIs
  <2>7. Uncoalesced(g, D \cup {b}, zs, al, b)
    <3>1. ASSUME NEW x \in (D \cup {b}) \ al, x + zs[x] \in (D \cup {b}) \ al, x # b, x + zs[x] # b PROVE FALSE
      BY <1>1, <2>5, <3>1 DEF Apart
    <3> QED
      BY <2>5, <2>6, <3>1 DEF Uncoalesced
  <2>8. r = mmi!coalesce(g, b)
    BY <1>3, <1>5, <2>1, <2>3
  <2>9. PlainFreed(g, r.heap, zs, al, r.ptr, n)
    BY <2>5, <2>6, <2>7, <2>8, PlainReleases
  <2>10. PICK E, us : /\ PlainHeap(r.heap, E, us, al) /\ Kept(g, r.heap, zs, us, al \ {g.prol})
                      /\ r.ptr \in E \ al /\ us[r.ptr] >= n /\ r.heap.prol = g.prol
    BY <2>9 DEF PlainFreed
  <2>11. Kept(h, g, sz, zs, al \ {h.prol})
    BY <1>1, <2>4 DEF GrownTags, Kept, TiledIs
  <2>12. Kept(h, r.heap, sz, us, al \ {h.prol})
    BY <2>5, <2>10, <2>11, KeptOn
  <2>13. r.ptr # NULL
    <3>1. TiledIs(r.heap, E, us, al)
      BY <2>10, TiledFacts DEF PlainHeap
    <3>2. r.ptr \in Nat /\ r.heap.prol <= r.ptr /\ r.heap.prol = Start + 8
      BY <2>10, <3>1 DEF TiledIs
    <3> QED
      BY <3>2, MemAssumption DEF NULL
  <2> QED
    BY <2>5, <2>10, <2>12, <2>13 DEF PlainFreed
<1> QED
  BY <1>4, <1>5

-----------------------------------------------------------------------------
(* mm_implicit.c: find_fit.                                                *)

\* Where the loop stays.
Stops(h, D, sz, al, bsize, x) == x = h.brk \/ (x \in D \ al /\ bsize <= sz[x])

LEMMA NextFits ==
  ASSUME NEW h, NEW D, NEW sz, NEW al, Tiled(h, D, sz, al), NEW bsize, NEW x \in D \cup {h.brk}
  PROVE  mmi!NextFit(h, bsize, x) = IF Stops(h, D, sz, al, bsize, x) THEN x ELSE x + sz[x]
<1>1. TiledIs(h, D, sz, al)
  BY TiledFacts
<1>2. mmi!NextFit(h, bsize, x) =
        IF GET_SIZE(h, HDRP(x)) = 0 \/ (GET_ALLOC(h, HDRP(x)) = 0 /\ bsize <= GET_SIZE(h, HDRP(x)))
        THEN x ELSE NEXT_BLKP(h, x)
  BY ImplicitReads DEF mmi!NextFit
<1>3. CASE x = h.brk
  <2>1. GET_SIZE(h, HDRP(x)) = 0
    BY <1>1, <1>3, EpilogueReads DEF TiledIs
  <2> QED
    BY <1>2, <1>3, <2>1 DEF Stops
<1>4. CASE x # h.brk
  <2>1. x \in D
    BY <1>4
  <2>2. Reads(h, sz, al, x) /\ sz[x] \in Nat /\ sz[x] >= 8
    BY <1>1, <2>1 DEF TiledIs
  <2>3. GET_SIZE(h, HDRP(x)) = sz[x] /\ NEXT_BLKP(h, x) = x + sz[x] /\ (GET_ALLOC(h, HDRP(x)) = 0 <=> x \notin al)
    BY <2>2 DEF Reads
  <2>4. sz[x] # 0
    BY <2>2
  <2> QED
    BY <1>2, <1>4, <2>1, <2>3, <2>4 DEF Stops
<1> QED
  BY <1>3, <1>4

LEMMA PlainFit ==
  ASSUME NEW h, NEW D, NEW sz, NEW al, Tiled(h, D, sz, al), NEW bsize \in Nat,
         NEW fit, fit = mmi!find_fit(h, bsize)
  PROVE  fit = NULL \/ (fit \in D \ al /\ bsize <= sz[fit])
<1>1. TiledIs(h, D, sz, al)
  BY TiledFacts
<1>2. PICK N \in Nat : N = HeapUnits /\ 8 * N + 4 >= MAX_HEAP
  BY MemAssumption DEF HeapUnits, DSIZE
<1>3. PICK V : V = D \cup {h.brk}
  OBVIOUS
<1>4. \A x \in D : x \in Nat /\ x >= Start + 8 /\ sz[x] \in Nat /\ sz[x] >= 8 /\ x + sz[x] \in V
  BY <1>1, <1>3 DEF TiledIs
<1>5. h.brk \in Nat /\ h.brk <= Start + MAX_HEAP /\ h.prol \in V /\ h.prol = Start + 8
  BY <1>1, <1>3 DEF TiledIs
<1>6. ASSUME NEW x \in V
      PROVE  mmi!NextFit(h, bsize, x) = IF Stops(h, D, sz, al, bsize, x) THEN x ELSE x + sz[x]
  <2>1. x \in D \cup {h.brk}
    BY <1>3
  <2> QED
    BY <2>1, NextFits
<1>7. ASSUME NEW x \in V, ~Stops(h, D, sz, al, bsize, x) PROVE x \in D
  BY <1>3, <1>7 DEF Stops
<1> DEFINE Fits(g) == g = [k \in 0 .. mmi!HeapUnits |-> IF k = 0 THEN h.prol ELSE mmi!NextFit(h, bsize, g[k - 1])]
<1>8. mmi!HeapUnits = N
  BY <1>2, ImplicitWords
<1>9. \E f : Fits(f)
  <2>1. PICK G : G = [x \in V |-> mmi!NextFit(h, bsize, x)]
    OBVIOUS
  <2>2. G \in [V -> V]
    BY <1>4, <1>6, <1>7, <2>1
  <2>3. PICK f \in [0 .. N -> V] : f[0] = h.prol /\ \A k \in 1 .. N : f[k] = G[f[k - 1]]
    <3>1. PICK a \in V : a = h.prol
      BY <1>5
    <3>2. \E f : Loops(f, N, V, a, G)
      BY <2>2, LoopExists, Zenon
    <3> QED
      BY <3>1, <3>2 DEF Loops
  <2>4. ASSUME NEW k \in 0 .. N PROVE f[k] = IF k = 0 THEN h.prol ELSE mmi!NextFit(h, bsize, f[k - 1])
    <3>1. CASE k = 0
      BY <2>3, <3>1
    <3>2. CASE k # 0
      <4>1. k \in 1 .. N /\ k - 1 \in 0 .. N
        BY <3>2
      <4>2. f[k - 1] \in V
        BY <4>1
      <4> QED
        BY <2>1, <2>3, <3>2, <4>1, <4>2
    <3> QED
      BY <3>1, <3>2
  <2>5. f = [k \in 0 .. N |-> f[k]]
    OBVIOUS
  <2>6. Fits(f)
    BY <1>8, <2>4, <2>5
  <2> QED
    BY <2>6
<1>10. PICK g : g = CHOOSE w : Fits(w)
  OBVIOUS
<1>11. Fits(g)
  BY <1>9, <1>10
<1>12. fit = IF GET_SIZE(h, HDRP(g[N])) = 0 THEN NULL ELSE g[N]
  <2>1. mmi!find_fit(h, bsize) = IF mmi!GET_SIZE(h, mmi!HDRP(g[mmi!HeapUnits])) = 0 THEN mmi!NULL ELSE g[mmi!HeapUnits]
    BY <1>10 DEF mmi!find_fit
  <2> QED
    BY <1>8, <2>1, ImplicitReads, ImplicitWords DEF NULL
<1>13. g[0] = h.prol /\ \A k \in 1 .. N : g[k] = mmi!NextFit(h, bsize, g[k - 1])
  <2>1. g = [k \in 0 .. N |-> IF k = 0 THEN h.prol ELSE mmi!NextFit(h, bsize, g[k - 1])]
    BY <1>8, <1>11
  <2> QED
    BY <2>1
<1> HIDE DEF Fits
<1>14. PICK S : S = {k \in 0 .. N : g[k] \in V /\ (Stops(h, D, sz, al, bsize, g[k]) \/ g[k] >= Start + 8 + 8 * k)}
  OBVIOUS
<1>15. 0 \in S
  BY <1>5, <1>13, <1>14, MemAssumption
<1>16. ASSUME NEW k \in 1 .. N, k - 1 \in S PROVE k \in S
  <2>1. PICK x \in V : x = g[k - 1] /\ (Stops(h, D, sz, al, bsize, x) \/ x >= Start + 8 + 8 * (k - 1))
    BY <1>14, <1>16
  <2>2. g[k] = IF Stops(h, D, sz, al, bsize, x) THEN x ELSE x + sz[x]
    BY <1>6, <1>13, <2>1
  <2>3. CASE Stops(h, D, sz, al, bsize, x)
    BY <1>14, <2>1, <2>2, <2>3
  <2>4. CASE ~Stops(h, D, sz, al, bsize, x)
    <3>1. x \in D /\ g[k] = x + sz[x]
      BY <1>7, <2>2, <2>4
    <3>2. x \in Nat /\ sz[x] \in Nat /\ sz[x] >= 8 /\ x + sz[x] \in V /\ x >= Start + 8 + 8 * (k - 1)
      BY <1>4, <2>1, <2>4, <3>1
    <3>3. x + sz[x] >= Start + 8 + 8 * k
      BY <3>2, MemAssumption
    <3> QED
      BY <1>14, <3>1, <3>2, <3>3
  <2> QED
    BY <2>3, <2>4
<1>17. \A k \in 0 .. N : k \in S
  BY <1>15, <1>16, Stepwise, Zenon
<1>18. PICK x \in V : x = g[N] /\ (Stops(h, D, sz, al, bsize, x) \/ x >= Start + 8 + 8 * N)
  <2>1. N \in S
    BY <1>17
  <2> QED
    BY <1>14, <2>1
<1>19. Stops(h, D, sz, al, bsize, x)
  <2>1. x \in Nat /\ x <= h.brk
    BY <1>1, <1>3, <1>5 DEF TiledIs
  <2>2. ~(x >= Start + 8 + 8 * N)
    BY <1>2, <1>5, <2>1, MemAssumption
  <2> QED
    BY <1>18, <2>2
<1>20. CASE x = h.brk
  <2>1. GET_SIZE(h, HDRP(x)) = 0
    BY <1>1, <1>20, EpilogueReads DEF TiledIs
  <2> QED
    BY <1>12, <1>18, <2>1
<1>21. CASE x # h.brk
  BY <1>12, <1>18, <1>19, <1>21 DEF Stops
<1> QED
  BY <1>20, <1>21

-----------------------------------------------------------------------------
(* mm_implicit.c: mm_malloc, mm_init, mm_realloc.                          *)

LEMMA PlainPlaced ==
  ASSUME NEW h, NEW sz, NEW al, NEW n \in Nat, n % 8 = 0, n >= 16, NEW g, NEW p, NEW m \in Nat, n <= m,
         PlainFreed(h, g, sz, al, p, m)
  PROVE  PlainAllocated(h, mmi!place(g, p, n), sz, al, p, n)
<1>1. PICK E, zs : /\ PlainHeap(g, E, zs, al) /\ Kept(h, g, sz, zs, al \ {h.prol})
                   /\ p \in E \ al /\ zs[p] >= m /\ g.prol = h.prol
  BY DEF PlainFreed
<1>2. n <= zs[p]
  <2>1. TiledIs(g, E, zs, al)
    BY <1>1, TiledFacts DEF PlainHeap
  <2>2. zs[p] \in Nat
    BY <1>1, <2>1 DEF TiledIs
  <2> QED
    BY <1>1, <2>2
<1>3. PICK k : k = mmi!place(g, p, n)
  OBVIOUS
<1>4. PlainAllocated(g, k, zs, al, p, n)
  BY <1>1, <1>2, <1>3, PlainPlace
<1>5. PICK W, us : /\ PlainHeap(k, W, us, al \cup {p}) /\ p \notin al /\ us[p] >= n
                   /\ Kept(g, k, zs, us, al \ {g.prol}) /\ k.prol = g.prol
  BY <1>4 DEF PlainAllocated
<1>6. Kept(h, k, sz, us, al \ {h.prol})
  BY <1>1, <1>5, KeptOn
<1> QED
  BY <1>1, <1>3, <1>5, <1>6 DEF PlainAllocated

LEMMA PlainMalloc ==
  ASSUME NEW h, NEW D, NEW sz, NEW al, PlainHeap(h, D, sz, al), NEW size, SizeOk(size),
         NEW r, r = mmi!mm_malloc(h, size), r.ptr # NULL
  PROVE  PlainAllocated(h, r.heap, sz, al, r.ptr, BlockSize(size))
<1>1. PICK n : n = BlockSize(size)
  OBVIOUS
<1>2. PICK fit, m : fit = mmi!find_fit(h, n) /\ m = IF n > CHUNKSIZE THEN n ELSE CHUNKSIZE
  OBVIOUS
<1>3. PICK e : e = IF fit # 0 THEN Result(h, fit) ELSE mmi!extend_heap(h, m \div 4)
  OBVIOUS
<1>4. r = IF size = 0 THEN Result(h, 0) ELSE IF e.ptr = 0 THEN e ELSE Result(mmi!place(e.heap, e.ptr, n), e.ptr)
  BY <1>1, <1>2, <1>3, ImplicitWords DEF mmi!mm_malloc, mmi!Placed
<1>5. size # 0 /\ e.ptr # 0 /\ r.ptr = e.ptr /\ r.heap = mmi!place(e.heap, e.ptr, n)
  BY <1>4 DEF Result, NULL
<1>6. n \in Nat /\ n % 8 = 0 /\ n >= 16
  BY <1>1, <1>5, BlockSizes DEF BlockSizeIs, SizeOk
<1>7. m \in Nat /\ m % 8 = 0 /\ m >= 16 /\ n <= m
  BY <1>2, <1>6, MemAssumption
<1>8. \E j \in Nat : n <= j /\ PlainFreed(h, e.heap, sz, al, e.ptr, j)
  <2>1. CASE fit # 0
    <3>1. fit \in D \ al /\ n <= sz[fit]
      BY <1>2, <1>6, <2>1, PlainFit DEF PlainHeap, NULL
    <3>2. e.heap = h /\ e.ptr = fit
      BY <1>3, <2>1 DEF Result
    <3>3. sz[fit] \in Nat
      BY <3>1, TiledFacts DEF PlainHeap, TiledIs
    <3>4. Kept(h, h, sz, sz, al \ {h.prol}) /\ sz[fit] >= n /\ n <= n
      BY <1>6, <3>1, <3>3 DEF Kept
    <3>5. PlainFreed(h, h, sz, al, fit, n)
      BY <3>1, <3>4 DEF PlainFreed
    <3> QED
      BY <1>6, <3>2, <3>4, <3>5
  <2>2. CASE fit = 0
    <3>1. e = mmi!extend_heap(h, m \div 4)
      BY <1>3, <2>2
    <3> QED
      BY <1>5, <1>7, <3>1, PlainExtend DEF NULL
  <2> QED
    BY <2>1, <2>2
<1>9. PICK j \in Nat : n <= j /\ PlainFreed(h, e.heap, sz, al, e.ptr, j)
  BY <1>8
<1> QED
  BY <1>1, <1>5, <1>6, <1>9, PlainPlaced

LEMMA PlainMallocFails ==
  ASSUME NEW h, NEW D, NEW sz, NEW al, PlainHeap(h, D, sz, al), NEW size, SizeOk(size),
         NEW r, r = mmi!mm_malloc(h, size), r.ptr = NULL
  PROVE  r.heap = h
<1>1. PICK n : n = BlockSize(size)
  OBVIOUS
<1>2. PICK fit, m : fit = mmi!find_fit(h, n) /\ m = IF n > CHUNKSIZE THEN n ELSE CHUNKSIZE
  OBVIOUS
<1>3. PICK e : e = IF fit # 0 THEN Result(h, fit) ELSE mmi!extend_heap(h, m \div 4)
  OBVIOUS
<1>4. r = IF size = 0 THEN Result(h, 0) ELSE IF e.ptr = 0 THEN e ELSE Result(mmi!place(e.heap, e.ptr, n), e.ptr)
  BY <1>1, <1>2, <1>3, ImplicitWords DEF mmi!mm_malloc, mmi!Placed
<1>5. CASE size = 0
  BY <1>4, <1>5 DEF Result
<1>6. CASE size # 0
  <2>1. e.ptr = 0 /\ r = e
    BY <1>4, <1>6 DEF Result, NULL
  <2>2. n \in Nat /\ n % 8 = 0 /\ n >= 16
    BY <1>1, <1>6, BlockSizes DEF BlockSizeIs, SizeOk
  <2>3. m \in Nat /\ m % 8 = 0 /\ m >= 16
    BY <1>2, <2>2, MemAssumption
  <2>4. e = mmi!extend_heap(h, m \div 4)
    BY <1>3, <2>1 DEF Result
  <2> QED
    BY <2>1, <2>3, <2>4, PlainExtend
<1> QED
  BY <1>5, <1>6

PlainStarted(r) ==
    r.heap \in Heaps /\ (r.ptr # NULL => \E E, zs : PlainHeap(r.heap, E, zs, {r.heap.prol}))

LEMMA PlainInit ==
  ASSUME NEW h \in Heaps, h.brk = Start, NEW r, r = mmi!mm_init(h)
  PROVE  PlainStarted(r)
<1>1. Start \in Nat /\ Start % 8 = 0 /\ MAX_HEAP \in Nat
  BY MemAssumption
<1>2. PICK q : q = mem_sbrk(h, 16)
  OBVIOUS
<1>3. PICK g : g = [q.heap EXCEPT !.mem[q.ptr] = 0, !.mem[q.ptr + 4] = 8 + 1, !.mem[q.ptr + 2 * 4] = 8 + 1,
                                  !.mem[q.ptr + 3 * 4] = 0 + 1, !.prol = q.ptr + 2 * 4]
  OBVIOUS
<1>4. r = IF q.ptr = -1 THEN Result(q.heap, 0) ELSE mmi!extend_heap(g, CHUNKSIZE \div 4)
  <2>1. mmi!mem_sbrk(h, 4 * 4) = q
    BY <1>2, ImplicitMoves
  <2>2. r = mmi!SetUp(q)
    BY <2>1 DEF mmi!mm_init, mmi!WSIZE
  <2> QED
    BY <1>3, <2>2, Zenon DEF mmi!SetUp, mmi!Failed, mmi!WSIZE, mmi!DSIZE, mmi!PACK, mmi!NULL, mmi!Result, Result
<1>a. CASE q.ptr = -1
  <2>1. q.heap = h
    BY <1>1, <1>2, <1>a DEF mem_sbrk, Result
  <2> QED
    BY <1>4, <1>a, <2>1 DEF Result, NULL, PlainStarted
<1>b. SUFFICES ASSUME q.ptr # -1 PROVE PlainStarted(r)
  BY <1>a
<1>5. q.ptr # -1 /\ r = mmi!extend_heap(g, CHUNKSIZE \div 4)
  BY <1>4, <1>b
<1>6. Start + 16 <= Start + MAX_HEAP /\ q = Result([h EXCEPT !.brk = @ + 16], Start)
  <2>1. ~(16 >= SIZE_T \div 2 \/ Start + 16 > Start + MAX_HEAP)
    BY <1>2, <1>5 DEF mem_sbrk, Result, Failed
  <2>2. q = Result([h EXCEPT !.brk = @ + 16], Start)
    BY <1>2, <2>1 DEF mem_sbrk
  <2> QED
    BY <1>1, <2>1, <2>2
<1>7. PICK k, p : k = [h EXCEPT !.brk = @ + 16] /\ p = Start + 8
  OBVIOUS
<1>8. k \in Heaps /\ k.brk = Start + 16
  BY <1>1, <1>7 DEF Heaps
<1>9. g = [k EXCEPT !.mem[Start] = 0, !.mem[Start + 4] = 9, !.mem[p] = 9, !.mem[Start + 12] = 1, !.prol = p]
  <2>1. /\ q.heap = k /\ q.ptr = Start /\ Start + 2 * 4 = p /\ Start + 3 * 4 = Start + 12
        /\ 8 + 1 = 9 /\ 0 + 1 = 1
    BY <1>1, <1>6, <1>7 DEF Result
  <2> QED
    BY <1>3, <2>1
<1>10. Start \in Addr /\ Start + 4 \in Addr /\ p \in Addr /\ Start + 12 \in Addr
  <2>1. Start % 4 = 0 /\ (Start + 4) % 4 = 0 /\ p % 4 = 0 /\ (Start + 12) % 4 = 0 /\ p \in Nat
    BY <1>1, <1>7
  <2> QED
    BY <1>1, <1>6, <1>7, <2>1, Addresses
<1>11. /\ g \in Heaps /\ g.brk = Start + 16 /\ g.prol = p
       /\ g.mem[Start + 4] = 9 /\ g.mem[p] = 9 /\ g.mem[Start + 12] = 1
  <2>1. PICK m0 : m0 = k.mem
    OBVIOUS
  <2>2. PICK m1 : m1 = [m0 EXCEPT ![Start] = 0]
    OBVIOUS
  <2>3. PICK m2 : m2 = [m1 EXCEPT ![Start + 4] = 9]
    OBVIOUS
  <2>4. PICK m3 : m3 = [m2 EXCEPT ![p] = 9]
    OBVIOUS
  <2>5. PICK m4 : m4 = [m3 EXCEPT ![Start + 12] = 1]
    OBVIOUS
  <2>6. m0 \in [Addr -> Nat] /\ k.brk \in Nat /\ k.root \in Nat /\ k.prol \in Nat
    BY <1>8, <2>1 DEF Heaps
  <2>7. m1 \in [Addr -> Nat]
    BY <2>2, <2>6
  <2>8. m2 \in [Addr -> Nat] /\ m2[Start + 4] = 9
    BY <1>10, <2>3, <2>7
  <2>9. m3 \in [Addr -> Nat] /\ m3[p] = 9 /\ m3[Start + 4] = 9
    <3>1. Start + 4 # p
      BY <1>1, <1>7
    <3> QED
      BY <1>10, <2>4, <2>8, <3>1
  <2>10. m4 \in [Addr -> Nat] /\ m4[p] = 9 /\ m4[Start + 4] = 9 /\ m4[Start + 12] = 1
    <3>1. Start + 4 # Start + 12 /\ p # Start + 12
      BY <1>1, <1>7
    <3> QED
      BY <1>10, <2>5, <2>9, <3>1
  <2>11. g = [k EXCEPT !.mem = m4, !.prol = p]
    BY <1>8, <1>9, <2>1, <2>2, <2>3, <2>4, <2>5 DEF Heaps
  <2>12. p \in Nat
    BY <1>1, <1>7
  <2> QED
    BY <1>8, <2>6, <2>10, <2>11, <2>12 DEF Heaps
<1>12. PICK D, sz : D = {p} /\ sz = [x \in {p} |-> 8]
  OBVIOUS
<1>13. sz \in [D -> Nat] /\ sz[p] = 8 /\ p \in D
  BY <1>12
<1>14. Layout(g.prol, g.brk, D, sz)
  <2>1. p + 8 = Start + 16 /\ (Start + 16) % 8 = 0 /\ p % 8 = 0 /\ p < Start + 16 /\ p <= p /\ Start + 16 \in Nat
        /\ p \in Nat
    BY <1>1, <1>7
  <2> QED
    BY <1>1, <1>6, <1>7, <1>11, <1>12, <1>13, <2>1 DEF Layout
<1>15. Tagged(g, D, sz, D)
  <2>1. (Start + 16) - 4 = Start + 12 /\ p - 4 = Start + 4 /\ p + 8 - 8 = p
    BY <1>1, <1>7
  <2> QED
    BY <1>11, <1>12, <1>13, <2>1 DEF Tagged, Tag
<1>16. PlainHeap(g, D, sz, D)
  BY <1>11, <1>12, <1>14, <1>15 DEF PlainHeap, Tiled, Apart
<1>17. \/ r.ptr = NULL /\ r.heap = g
       \/ r.ptr # NULL /\ PlainFreed(g, r.heap, sz, D, r.ptr, CHUNKSIZE)
  BY <1>5, <1>16, PlainExtend, MemAssumption
<1>18. CASE r.ptr = NULL /\ r.heap = g
  BY <1>11, <1>18 DEF PlainStarted
<1>19. CASE r.ptr # NULL /\ PlainFreed(g, r.heap, sz, D, r.ptr, CHUNKSIZE)
  <2>1. PICK E, zs : PlainHeap(r.heap, E, zs, D) /\ r.heap.prol = p
    BY <1>11, <1>19 DEF PlainFreed
  <2>2. r.heap \in Heaps
    BY <2>1 DEF PlainHeap, Tiled
  <2> QED
    BY <1>11, <1>12, <2>1, <2>2 DEF PlainStarted
<1> QED
  BY <1>17, <1>18, <1>19

PlainMoved(h, g, sz, al, ptr, p, size) ==
    \E E, zs : /\ PlainHeap(g, E, zs, (al \ {ptr}) \cup {p}) /\ p \notin al \ {ptr}
               /\ zs[p] >= size + 8 /\ Kept(h, g, sz, zs, al \ {h.prol, ptr})
               /\ Carries(h, g, sz, ptr, p, size)

LEMMA PlainRealloc ==
  ASSUME NEW h, NEW D, NEW sz, NEW al, PlainHeap(h, D, sz, al), NEW ptr \in al, ptr # h.prol,
         NEW size, SizeOk(size), NEW r, r = mmi!mm_realloc(h, ptr, size), r.ptr # NULL
  PROVE  PlainMoved(h, r.heap, sz, al, ptr, r.ptr, size)
<1>1. TiledIs(h, D, sz, al)
  BY TiledFacts DEF PlainHeap
<1>2. PICK m : m = mmi!mm_malloc(h, size)
  OBVIOUS
<1>3. PICK p, g, n : p = m.ptr /\ g = m.heap /\ n = BlockSize(size)
  OBVIOUS
<1>4. PICK old : old = GET_SIZE(g, HDRP(ptr))
  OBVIOUS
<1>5. PICK c : c = IF size < old THEN size ELSE old
  OBVIOUS
<1>6. PICK k : k = memmove(g, p, ptr, c)
  OBVIOUS
<1>7. PICK f : f = mmi!mm_free(k, ptr)
  OBVIOUS
<1>8. r = IF p = 0 THEN m ELSE Result(f, p)
  <2>1. r = mmi!MoveAll(m, ptr, size)
    BY <1>2 DEF mmi!mm_realloc
  <2>2. mmi!GET_SIZE(m.heap, mmi!HDRP(ptr)) = old /\ mmi!memmove(m.heap, m.ptr, ptr, c) = k
    BY <1>3, <1>4, <1>6, ImplicitReads, ImplicitMoves
  <2> QED
    BY <1>3, <1>5, <1>7, <2>1, <2>2, ImplicitWords DEF mmi!MoveAll
<1>9. p # 0 /\ r = Result(f, p)
  BY <1>3, <1>8 DEF NULL
<1>10. PlainAllocated(h, g, sz, al, p, n)
  BY <1>2, <1>3, <1>9, PlainMalloc DEF NULL
<1>11. PICK E, zs : /\ PlainHeap(g, E, zs, al \cup {p}) /\ p \notin al /\ zs[p] >= n
                    /\ Kept(h, g, sz, zs, al \ {h.prol}) /\ g.prol = h.prol
  BY <1>10 DEF PlainAllocated
<1>12. TiledIs(g, E, zs, al \cup {p}) /\ Tiled(g, E, zs, al \cup {p}) /\ Apart(E, zs, al \cup {p})
  BY <1>11, TiledFacts DEF PlainHeap
<1>13. /\ p \in E /\ p \in Nat /\ zs[p] \in Nat /\ p # g.prol /\ g \in Heaps /\ ptr \in E /\ ptr \in Nat
       /\ Layout(g.prol, g.brk, E, zs) /\ Layout(h.prol, h.brk, D, sz) /\ ptr \in D /\ p # ptr
       /\ h.prol \in al /\ al \subseteq D /\ al \subseteq E /\ sz[ptr] \in Nat /\ Reads(g, zs, al \cup {p}, ptr)
  BY <1>1, <1>11, <1>12 DEF TiledIs
<1>14. zs[ptr] = sz[ptr] /\ \A a \in Addr : ptr <= a /\ a < ptr + sz[ptr] - 8 => g.mem[a] = h.mem[a]
  <2>1. ptr \in al \ {h.prol}
    OBVIOUS
  <2> QED
    BY <1>11, <2>1, Zenon DEF Kept
<1>15. n \in Nat /\ n >= size + 8 /\ size \in Nat
  BY <1>3, BlockSizes DEF BlockSizeIs, SizeOk
<1>16. old = sz[ptr]
  BY <1>4, <1>13, <1>14 DEF Reads
<1>17. /\ c \in Int /\ c <= n - 8 /\ \A o \in Nat : o < size /\ o < sz[ptr] - 8 => o < c
  BY <1>5, <1>13, <1>15, <1>16
<1>18. MovesIn(g, k, p, ptr, c)
  BY <1>6, <1>13, <1>17, MemmoveIs
<1>19. p + c \in Int /\ p + c <= p + zs[p] - 8
  BY <1>11, <1>13, <1>15, <1>17
<1>20. Tiled(k, E, zs, al \cup {p}) /\ Kept(g, k, zs, zs, E \ {p})
  BY <1>12, <1>13, <1>18, <1>19, FillsTiled, Zenon DEF MovesIn
<1>21. k.prol = h.prol
  BY <1>11, <1>18 DEF MovesIn, Fills
<1>22. PlainFreeDone(k, f, zs, al \cup {p}, ptr)
  <2>1. ptr \in al \cup {p} /\ ptr # k.prol /\ PlainHeap(k, E, zs, al \cup {p})
    BY <1>12, <1>20, <1>21 DEF PlainHeap
  <2> QED
    BY <1>7, <2>1, PlainFree
<1>23. PICK W, us : /\ PlainHeap(f, W, us, (al \cup {p}) \ {ptr})
                    /\ Kept(k, f, zs, us, (al \cup {p}) \ {k.prol, ptr})
  BY <1>22 DEF PlainFreeDone
<1>24. (al \cup {p}) \ {ptr} = (al \ {ptr}) \cup {p} /\ p \notin al \ {ptr}
  BY <1>11, <1>13
<1>25. Kept(h, f, sz, us, al \ {h.prol, ptr})
  <2>1. PICK X : X = al \ {h.prol, ptr}
    OBVIOUS
  <2>2. X \subseteq al \ {h.prol} /\ X \subseteq E \ {p} /\ X \subseteq (al \cup {p}) \ {k.prol, ptr}
    BY <1>11, <1>13, <1>21, <2>1
  <2>3. Kept(h, g, sz, zs, X) /\ Kept(g, k, zs, zs, X) /\ Kept(k, f, zs, us, X)
    BY <1>11, <1>20, <1>23, <2>2, Zenon DEF Kept
  <2>4. Kept(h, k, sz, zs, X)
    BY <2>3, KeptOn, Zenon
  <2> QED
    BY <2>1, <2>3, <2>4, KeptOn, Zenon
<1>26. us[p] = zs[p] /\ \A a \in Addr : p <= a /\ a < p + zs[p] - 8 => f.mem[a] = k.mem[a]
  <2>1. p \in (al \cup {p}) \ {k.prol, ptr}
    BY <1>11, <1>13, <1>21
  <2> QED
    BY <1>23, <2>1, Zenon DEF Kept
<1>27. ASSUME NEW o \in Nat, o % 4 = 0, o < size, o < sz[ptr] - 8 PROVE f.mem[p + o] = h.mem[ptr + o]
  <2>1. ptr + o \in Addr /\ ptr <= ptr + o /\ ptr + o < ptr + sz[ptr] - 8
    BY <1>13, <1>27, OffsetWords
  <2>2. o < zs[p] - 8
    BY <1>11, <1>13, <1>15, <1>27
  <2>3. p + o \in Addr /\ p <= p + o /\ p + o < p + zs[p] - 8
    BY <1>13, <1>27, <2>2, OffsetWords
  <2>4. o < c
    BY <1>17, <1>27
  <2>5. k.mem[p + o] = g.mem[ptr + o]
    BY <1>18, <2>1, <2>3, <2>4 DEF MovesIn
  <2> QED
    BY <1>14, <1>26, <2>1, <2>3, <2>5
<1>28. us[p] >= size + 8
  BY <1>11, <1>13, <1>15, <1>26
<1>29. PlainMoved(h, f, sz, al, ptr, p, size)
  BY <1>23, <1>24, <1>25, <1>27, <1>28 DEF PlainMoved, Carries
<1> QED
  BY <1>9, <1>29 DEF Result

LEMMA PlainReallocFails ==
  ASSUME NEW h, NEW D, NEW sz, NEW al, PlainHeap(h, D, sz, al), NEW ptr,
         NEW size, SizeOk(size), NEW r, r = mmi!mm_realloc(h, ptr, size), r.ptr = NULL
  PROVE  r.heap = h
<1>1. PICK m : m = mmi!mm_malloc(h, size)
  OBVIOUS
<1>2. PICK f : r = IF m.ptr = 0 THEN m ELSE Result(f, m.ptr)
  BY <1>1, ImplicitWords DEF mmi!mm_realloc, mmi!MoveAll
<1>3. m.ptr = NULL /\ r = m
  BY <1>2 DEF Result, NULL
<1> QED
  BY <1>1, <1>3, PlainMallocFails

-----------------------------------------------------------------------------
(* The package that is linked with the driver.                             *)

LEMMA PkgHeapIs ==
  ASSUME NEW pk, NEW h, NEW D, NEW sz, NEW al
  PROVE  /\ PkgHeap(pk, h, D, sz, al) => PlainHeap(h, D, sz, al)
         /\ PkgHeap(pk, h, D, sz, al) /\ pk # "implicit" => ListHeap(h, D, sz, al)
         /\ PlainHeap(h, D, sz, al) /\ pk = "implicit" => PkgHeap(pk, h, D, sz, al)
         /\ ListHeap(h, D, sz, al) => PkgHeap(pk, h, D, sz, al)
BY DEF PkgHeap, PlainHeap, ListHeap

LEMMA PkgStarts ==
  ASSUME NEW h \in Heaps, h.brk = Start, NEW r, r = PkgInit(h)
  PROVE  /\ r.heap \in Heaps
         /\ r.ptr # NULL => \E E, zs : PkgHeap(package, r.heap, E, zs, {r.heap.prol})
<1>1. CASE package = "implicit"
  <2>1. r.heap \in Heaps /\ (r.ptr # NULL => \E E, zs : PlainHeap(r.heap, E, zs, {r.heap.prol}))
    BY <1>1, PlainInit DEF PkgInit, PlainStarted
  <2> QED
    BY <1>1, <2>1, PkgHeapIs
<1>2. CASE package # "implicit"
  <2>1. r.heap \in Heaps /\ (r.ptr # NULL => \E E, zs : ListHeap(r.heap, E, zs, {r.heap.prol}))
    BY <1>2, InitContract DEF PkgInit
  <2> QED
    BY <2>1, PkgHeapIs
<1> QED
  BY <1>1, <1>2

PkgAllocated(h, g, sz, al, p, n) ==
    \E E, zs : /\ PkgHeap(package, g, E, zs, al \cup {p}) /\ p \notin al /\ zs[p] >= n
               /\ Kept(h, g, sz, zs, al \ {h.prol}) /\ g.prol = h.prol

LEMMA PkgMallocs ==
  ASSUME NEW h, NEW D, NEW sz, NEW al, PkgHeap(package, h, D, sz, al), NEW size, SizeOk(size),
         NEW r, r = PkgMalloc(h, size), r.ptr # NULL
  PROVE  size # 0 /\ PkgAllocated(h, r.heap, sz, al, r.ptr, BlockSize(size))
<1>1. CASE package = "implicit"
  <2>1. r = mmi!mm_malloc(h, size)
    BY <1>1 DEF PkgMalloc
  <2>2. PlainAllocated(h, r.heap, sz, al, r.ptr, BlockSize(size))
    BY <2>1, PkgHeapIs, PlainMalloc
  <2>3. size # 0
    <3>1. size = 0 => r = mmi!Result(h, mmi!NULL)
      BY <2>1 DEF mmi!mm_malloc
    <3> QED
      BY <3>1 DEF mmi!Result, mmi!NULL, NULL
  <2>4. PICK E, zs : /\ PlainHeap(r.heap, E, zs, al \cup {r.ptr}) /\ r.ptr \notin al /\ zs[r.ptr] >= BlockSize(size)
                     /\ Kept(h, r.heap, sz, zs, al \ {h.prol}) /\ r.heap.prol = h.prol
    BY <2>2 DEF PlainAllocated
  <2>5. PkgHeap(package, r.heap, E, zs, al \cup {r.ptr})
    BY <1>1, <2>4, PkgHeapIs, Zenon
  <2> QED
    BY <2>3, <2>4, <2>5, Zenon DEF PkgAllocated
<1>2. CASE package # "implicit"
  <2>1. r = mm_malloc(h, size)
    BY <1>2 DEF PkgMalloc
  <2>2. Allocated(h, r.heap, sz, al, r.ptr, BlockSize(size))
    BY <1>2, <2>1, PkgHeapIs, MallocContract
  <2>3. size # 0
    <3>1. size = 0 => r = Result(h, NULL)
      BY <2>1 DEF mm_malloc
    <3> QED
      BY <3>1 DEF Result
  <2>4. PICK E, zs : /\ ListHeap(r.heap, E, zs, al \cup {r.ptr}) /\ r.ptr \notin al /\ zs[r.ptr] >= BlockSize(size)
                     /\ Kept(h, r.heap, sz, zs, al \ {h.prol}) /\ r.heap.prol = h.prol
    BY <2>2 DEF Allocated
  <2>5. PkgHeap(package, r.heap, E, zs, al \cup {r.ptr})
    BY <2>4, PkgHeapIs, Zenon
  <2> QED
    BY <2>3, <2>4, <2>5, Zenon DEF PkgAllocated
<1> QED
  BY <1>1, <1>2

PkgFreed(h, g, sz, al, ptr) ==
    \E E, zs : PkgHeap(package, g, E, zs, al \ {ptr}) /\ Kept(h, g, sz, zs, al \ {h.prol, ptr})

LEMMA PkgFrees ==
  ASSUME NEW h, NEW D, NEW sz, NEW al, PkgHeap(package, h, D, sz, al), NEW ptr \in al, ptr # h.prol
  PROVE  PkgFreed(h, PkgFree(h, ptr), sz, al, ptr)
<1>1. PICK g : g = PkgFree(h, ptr)
  OBVIOUS
<1>2. CASE package = "implicit"
  <2>1. g = mmi!mm_free(h, ptr) /\ PlainHeap(h, D, sz, al)
    BY <1>1, <1>2, PkgHeapIs DEF PkgFree
  <2>2. PlainFreeDone(h, g, sz, al, ptr)
    BY <2>1, PlainFree
  <2>3. PICK E, zs : PlainHeap(g, E, zs, al \ {ptr}) /\ Kept(h, g, sz, zs, al \ {h.prol, ptr})
    BY <2>2 DEF PlainFreeDone
  <2>4. PkgHeap(package, g, E, zs, al \ {ptr})
    BY <1>2, <2>3, PkgHeapIs, Zenon
  <2> QED
    BY <1>1, <2>3, <2>4, Zenon DEF PkgFreed
<1>3. CASE package # "implicit"
  <2>1. g = mm_free(h, ptr) /\ ListHeap(h, D, sz, al)
    BY <1>1, <1>3, PkgHeapIs DEF PkgFree
  <2>2. FreeDone(h, g, sz, al, ptr)
    BY <2>1, FreeContract
  <2>3. PICK E, zs : ListHeap(g, E, zs, al \ {ptr}) /\ Kept(h, g, sz, zs, al \ {h.prol, ptr})
    BY <2>2 DEF FreeDone
  <2>4. PkgHeap(package, g, E, zs, al \ {ptr})
    BY <2>3, PkgHeapIs, Zenon
  <2> QED
    BY <1>1, <2>3, <2>4, Zenon DEF PkgFreed
<1> QED
  BY <1>2, <1>3

PkgMoved(h, g, sz, al, ptr, p, size) ==
    \E E, zs : /\ PkgHeap(package, g, E, zs, (al \ {ptr}) \cup {p}) /\ p \notin al \ {ptr}
               /\ zs[p] >= size + 8 /\ Kept(h, g, sz, zs, al \ {h.prol, ptr})
               /\ Carries(h, g, sz, ptr, p, size)

LEMMA PkgReallocs ==
  ASSUME NEW h, NEW D, NEW sz, NEW al, PkgHeap(package, h, D, sz, al), NEW ptr \in al, ptr # h.prol,
         NEW size, SizeOk(size), package \in AllPackages, NEW r, r = PkgRealloc(h, ptr, size), r.ptr # NULL
  PROVE  size # 0 /\ PkgMoved(h, r.heap, sz, al, ptr, r.ptr, size)
<1>1. ptr # NULL
  <2>1. TiledIs(h, D, sz, al)
    BY TiledFacts DEF PkgHeap
  <2>2. ptr \in Nat /\ h.prol <= ptr /\ h.prol = Start + 8
    BY <2>1 DEF TiledIs
  <2> QED
    BY <2>2, MemAssumption DEF NULL
<1>2. CASE package = "implicit"
  <2>1. r = mmi!mm_realloc(h, ptr, size) /\ PlainHeap(h, D, sz, al)
    BY <1>2, PkgHeapIs DEF PkgRealloc
  <2>2. PlainMoved(h, r.heap, sz, al, ptr, r.ptr, size)
    BY <2>1, PlainRealloc
  <2>3. size # 0
    <3>1. size = 0 => r = mmi!Result(h, mmi!NULL)
      BY <2>1 DEF mmi!mm_realloc, mmi!MoveAll, mmi!mm_malloc, mmi!Result
    <3> QED
      BY <3>1 DEF mmi!Result, mmi!NULL, NULL
  <2>4. PICK E, zs : /\ PlainHeap(r.heap, E, zs, (al \ {ptr}) \cup {r.ptr}) /\ r.ptr \notin al \ {ptr}
                     /\ zs[r.ptr] >= size + 8 /\ Kept(h, r.heap, sz, zs, al \ {h.prol, ptr})
                     /\ Carries(h, r.heap, sz, ptr, r.ptr, size)
    BY <2>2 DEF PlainMoved
  <2>5. PkgHeap(package, r.heap, E, zs, (al \ {ptr}) \cup {r.ptr})
    BY <1>2, <2>4, PkgHeapIs, Zenon
  <2> QED
    BY <2>3, <2>4, <2>5, Zenon DEF PkgMoved
<1>3. CASE package # "implicit"
  <2>1. ListHeap(h, D, sz, al)
    BY <1>3, PkgHeapIs
  <2>2. size # 0 /\ Moved(h, r.heap, sz, al, ptr, r.ptr, size)
    <3>1. CASE package = "explicit"
      <4>1. r = ExplicitRealloc(h, ptr, size)
        BY <3>1 DEF PkgRealloc
      <4>2. size = 0 => r = Result(h, NULL)
        BY <4>1 DEF ExplicitRealloc, MoveAll, MoveTo, mm_malloc, Result
      <4>3. size # 0
        BY <4>2 DEF Result
      <4> QED
        BY <2>1, <4>1, <4>3, ExplicitContract
    <3>2. CASE package \in {"clean", "mm"}
      <4>1. PICK behind \in {ReallocNext(h, ptr, BlockSize(size)), CleanReallocNext(h, ptr, BlockSize(size))} :
                r = ReallocCases(h, ptr, size, behind)
        BY <3>2 DEF PkgRealloc, CleanRealloc, mm_realloc
      <4>2. size = 0 => r = Result(mm_free(h, ptr), NULL)
        BY <1>1, <4>1 DEF ReallocCases
      <4>3. size # 0
        BY <4>2 DEF Result
      <4>4. Moved(h, r.heap, sz, al, ptr, r.ptr, size)
        BY <2>1, <4>1, CasesContract
      <4> QED
        BY <4>3, <4>4
    <3> QED
      BY <1>3, <3>1, <3>2 DEF AllPackages
  <2>3. PICK E, zs : /\ ListHeap(r.heap, E, zs, (al \ {ptr}) \cup {r.ptr}) /\ r.ptr \notin al \ {ptr}
                     /\ zs[r.ptr] >= size + 8 /\ Kept(h, r.heap, sz, zs, al \ {h.prol, ptr})
                     /\ Carries(h, r.heap, sz, ptr, r.ptr, size)
    BY <2>2 DEF Moved
  <2>4. PkgHeap(package, r.heap, E, zs, (al \ {ptr}) \cup {r.ptr})
    BY <2>3, PkgHeapIs, Zenon
  <2> QED
    BY <2>2, <2>3, <2>4, Zenon DEF PkgMoved
<1> QED
  BY <1>2, <1>3

\* A request that fails leaves the heap as it was, except that a realloc to
\* nothing may free the block.
LEMMA PkgMallocFails ==
  ASSUME NEW h, NEW D, NEW sz, NEW al, PkgHeap(package, h, D, sz, al), NEW size, SizeOk(size),
         NEW r, r = PkgMalloc(h, size), r.ptr = NULL
  PROVE  r.heap = h
<1>1. CASE package = "implicit"
  BY <1>1, PkgHeapIs, PlainMallocFails DEF PkgMalloc
<1>2. CASE package # "implicit"
  BY <1>2, PkgHeapIs, MallocFails DEF PkgMalloc
<1> QED
  BY <1>1, <1>2

LEMMA PkgReallocFails ==
  ASSUME NEW h, NEW D, NEW sz, NEW al, PkgHeap(package, h, D, sz, al), NEW ptr \in al, ptr # h.prol,
         NEW size, SizeOk(size), package \in AllPackages, NEW r, r = PkgRealloc(h, ptr, size), r.ptr = NULL
  PROVE  r.heap = IF size = 0 /\ package \in {"clean", "mm"} THEN PkgFree(h, ptr) ELSE h
<1>1. CASE package = "implicit"
  <2>1. r = mmi!mm_realloc(h, ptr, size) /\ PlainHeap(h, D, sz, al)
    BY <1>1, PkgHeapIs DEF PkgRealloc
  <2>2. r.heap = h
    BY <2>1, PlainReallocFails
  <2> QED
    BY <1>1, <2>2
<1>2. CASE package = "explicit"
  <2>1. r = ExplicitRealloc(h, ptr, size) /\ ListHeap(h, D, sz, al)
    BY <1>2, PkgHeapIs DEF PkgRealloc
  <2>2. r.heap = h
    BY <2>1, ExplicitFails
  <2> QED
    BY <1>2, <2>2
<1>3. CASE package \in {"clean", "mm"}
  <2>1. ListHeap(h, D, sz, al)
    BY <1>3, PkgHeapIs
  <2>2. PICK behind \in {ReallocNext(h, ptr, BlockSize(size)), CleanReallocNext(h, ptr, BlockSize(size))} :
            r = ReallocCases(h, ptr, size, behind)
    BY <1>3 DEF PkgRealloc, CleanRealloc, mm_realloc
  <2>3. CASE size = 0
    <3>1. TiledIs(h, D, sz, al)
      BY TiledFacts DEF PkgHeap
    <3>2. ptr \in Nat /\ h.prol <= ptr /\ h.prol = Start + 8
      BY <3>1 DEF TiledIs
    <3>3. ptr # NULL
      BY <3>2, MemAssumption DEF NULL
    <3>4. r = Result(mm_free(h, ptr), NULL)
      BY <2>2, <2>3, <3>3 DEF ReallocCases
    <3>5. PkgFree(h, ptr) = mm_free(h, ptr)
      BY <1>3 DEF PkgFree
    <3> QED
      BY <1>3, <2>3, <3>4, <3>5 DEF Result
  <2>4. CASE size # 0
    <3>1. r.heap = h
      BY <2>1, <2>2, <2>4, CasesFail
    <3> QED
      BY <2>4, <3>1
  <2> QED
    BY <2>3, <2>4
<1> QED
  BY <1>1, <1>2, <1>3 DEF AllPackages

-----------------------------------------------------------------------------
(* What the calls do to the blocks of the driver's table.                  *)

PkgIs(h, D, sz, al) ==
    /\ h.prol = Start + 8 /\ h \in Heaps /\ al \subseteq D /\ h.prol \in al /\ Layout(h.prol, h.brk, D, sz)
    /\ \A x \in D : x \in Nat /\ sz[x] \in Nat

LEMMA PkgFacts ==
  ASSUME NEW pk, NEW h, NEW D, NEW sz, NEW al, PkgHeap(pk, h, D, sz, al)
  PROVE  PkgIs(h, D, sz, al)
<1>1. TiledIs(h, D, sz, al)
  BY TiledFacts DEF PkgHeap
<1> QED
  BY <1>1 DEF TiledIs, PkgIs

LEMMA SizesOk ==
  ASSUME NEW size \in Sizes
  PROVE  SizeOk(size) /\ size \in Nat /\ BlockSizeIs(size, BlockSize(size))
<1>1. SizeOk(size)
  BY DriverAssumption DEF SizeOk, WSIZE, DSIZE
<1> QED
  BY <1>1, BlockSizes DEF SizeOk

\* The blocks of J are as they were, and filled as they were.
KeepsFilled(h, g, bl, bl2, J) ==
    \A j \in J : /\ bl2[j] = bl[j]
                 /\ \A n \in Nat : n <= bl[j].size /\ Filled(h, bl, j, n) => Filled(g, bl2, j, n)

\* These blocks are among the blocks X.
Among(bl, bl2, J, sz, X) ==
    \A j \in J : bl[j].ptr \in X /\ sz[bl[j].ptr] \in Nat /\ bl2[j] = bl[j]

LEMMA KeptFilled ==
  ASSUME NEW h, NEW g, NEW sz, NEW zs, NEW X, Kept(h, g, sz, zs, X),
         NEW bl \in BlockTable, NEW bl2, NEW J \in SUBSET Ids, Roomy(bl, J, sz),
         Among(bl, bl2, J, sz, X)
  PROVE  KeepsFilled(h, g, bl, bl2, J) /\ Roomy(bl2, J, zs)
<1>1. ASSUME NEW j \in J
      PROVE  /\ bl[j].ptr \in Nat /\ bl[j].size \in Nat /\ bl[j].ptr \in X /\ bl2[j] = bl[j]
             /\ bl[j].size > 0 /\ bl[j].size + 8 <= sz[bl[j].ptr] /\ sz[bl[j].ptr] \in Nat
  BY DEF BlockTable, Roomy, Among
<1>2. ASSUME NEW j \in J, NEW n \in Nat, n <= bl[j].size, Filled(h, bl, j, n) PROVE Filled(g, bl2, j, n)
  <2>1. PICK p \in Nat, z \in Nat, s \in Nat : p = bl[j].ptr /\ z = bl[j].size /\ s = sz[p]
    BY <1>1
  <2>2. p \in X /\ z + 8 <= s
    BY <1>1, <2>1
  <2>3. ASSUME NEW a \in Payload(p, n) PROVE g.mem[a] = h.mem[a]
    <3>1. a \in Addr /\ p <= a /\ a < p + n /\ a \in Nat
      BY AddrIsNat DEF Payload
    <3>2. a < p + s - 8
      BY <1>2, <2>1, <2>2, <3>1
    <3> QED
      BY <2>1, <2>2, <3>1, <3>2 DEF Kept
  <2> QED
    BY <1>1, <1>2, <2>1, <2>3 DEF Filled
<1>3. Roomy(bl2, J, zs)
  BY <1>1 DEF Roomy, Kept
<1> QED
  BY <1>1, <1>2, <1>3 DEF KeepsFilled

\* An index gets a new block, whatever the sizes in the table.
\* The table bl2 is bl with the block at p entered for the index i.
Entered(bl, bl2, i, p, z) == bl2 = [bl EXCEPT ![i] = [ptr |-> p, size |-> z]]

MallocDone(h, g, bl, bl2, I, i, sized) ==
    /\ bl2 \in BlockTable /\ Kempt(package, g, bl2, I \cup {i}, sized)
    /\ sized => KeepsFilled(h, g, bl, bl2, I)

LEMMA MallocKempt ==
  ASSUME NEW h, NEW bl \in BlockTable, NEW I \in SUBSET Ids, NEW sized \in BOOLEAN,
         Kempt(package, h, bl, I, sized), NEW i \in Ids \ I, NEW size \in Sizes,
         NEW r, r = PkgMalloc(h, size), r.ptr # NULL, NEW z \in Nat, sized => z = size,
         NEW bl2, Entered(bl, bl2, i, r.ptr, z)
  PROVE  MallocDone(h, r.heap, bl, bl2, I, i, sized)
<1>1. PICK D, sz, al : /\ al = {h.prol} \cup Ptrs(bl, I) /\ PkgHeap(package, h, D, sz, al)
                       /\ Owned(bl, I, h.prol) /\ (sized => Roomy(bl, I, sz))
  BY DEF Kempt
<1>2. PICK g, p : g = r.heap /\ p = r.ptr
  OBVIOUS
<1>3. SizeOk(size) /\ size \in Nat /\ BlockSize(size) \in Nat /\ BlockSize(size) >= size + 8
  BY SizesOk DEF BlockSizeIs
<1>4. size # 0 /\ PkgAllocated(h, g, sz, al, p, BlockSize(size))
  BY <1>1, <1>2, <1>3, PkgMallocs
<1>5. PICK E, zs : /\ PkgHeap(package, g, E, zs, al \cup {p}) /\ p \notin al /\ zs[p] >= BlockSize(size)
                   /\ Kept(h, g, sz, zs, al \ {h.prol}) /\ g.prol = h.prol
  BY <1>4 DEF PkgAllocated
<1>6. PkgIs(h, D, sz, al) /\ PkgIs(g, E, zs, al \cup {p})
  BY <1>1, <1>5, PkgFacts, Zenon
<1>7. p \in Nat /\ zs[p] \in Nat
  BY <1>6 DEF PkgIs
<1>8. /\ bl2 \in BlockTable /\ bl2[i].ptr = p /\ bl2[i].size = z
      /\ \A j \in Ids \ {i} : bl2[j] = bl[j]
  BY <1>2, <1>7 DEF BlockTable, Entered
<1>9. \A j \in I : j # i /\ bl2[j] = bl[j] /\ bl[j].ptr \in al \ {h.prol} /\ sz[bl[j].ptr] \in Nat
  <2>1. ASSUME NEW j \in I PROVE j # i /\ bl2[j] = bl[j] /\ bl[j].ptr \in al \ {h.prol}
    BY <1>1, <1>8 DEF Ptrs, Owned
  <2> QED
    BY <1>6, <2>1 DEF PkgIs
<1>10. {g.prol} \cup Ptrs(bl2, I \cup {i}) = al \cup {p}
  <2>1. Ptrs(bl2, I \cup {i}) = Ptrs(bl, I) \cup {p}
    <3>1. \A x : x \in Ptrs(bl2, I \cup {i}) <=> x \in Ptrs(bl, I) \cup {p}
      BY <1>8, <1>9 DEF Ptrs
    <3> QED
      BY <3>1
  <2> QED
    BY <1>1, <1>5, <2>1
<1>11. Owned(bl2, I \cup {i}, g.prol)
  <2>1. \A j \in I : bl2[j].ptr # p
    BY <1>5, <1>9
  <2>2. p # h.prol
    BY <1>5, <1>6 DEF PkgIs
  <2> QED
    BY <1>1, <1>5, <1>8, <1>9, <2>1, <2>2 DEF Owned
<1>12. ASSUME sized PROVE Roomy(bl2, I \cup {i}, zs) /\ KeepsFilled(h, g, bl, bl2, I)
  <2>1. KeepsFilled(h, g, bl, bl2, I) /\ Roomy(bl2, I, zs)
    <3>1. /\ Roomy(bl, I, sz) /\ Kept(h, g, sz, zs, al \ {h.prol})
          /\ Among(bl, bl2, I, sz, al \ {h.prol}) /\ bl2 \in BlockTable
      BY <1>1, <1>5, <1>8, <1>9, <1>12 DEF Among
    <3> QED
      BY <3>1, KeptFilled
  <2>2. bl2[i].size > 0 /\ bl2[i].size + 8 <= zs[bl2[i].ptr]
    BY <1>3, <1>4, <1>5, <1>7, <1>8, <1>12
  <2> QED
    BY <2>1, <2>2 DEF Roomy
<1>13. Kempt(package, g, bl2, I \cup {i}, sized)
  BY <1>5, <1>10, <1>11, <1>12 DEF Kempt
<1> QED
  BY <1>2, <1>8, <1>12, <1>13 DEF MallocDone

LEMMA FreeKempt ==
  ASSUME NEW h, NEW bl \in BlockTable, NEW I \in SUBSET Ids, NEW sized \in BOOLEAN,
         Kempt(package, h, bl, I, sized), NEW i \in I, NEW g, g = PkgFree(h, bl[i].ptr)
  PROVE  /\ Kempt(package, g, bl, I \ {i}, sized)
         /\ sized => KeepsFilled(h, g, bl, bl, I \ {i})
<1>1. PICK D, sz, al : /\ al = {h.prol} \cup Ptrs(bl, I) /\ PkgHeap(package, h, D, sz, al)
                       /\ Owned(bl, I, h.prol) /\ (sized => Roomy(bl, I, sz))
  BY DEF Kempt
<1>2. PICK ptr : ptr = bl[i].ptr
  OBVIOUS
<1>3. ptr \in al /\ ptr # h.prol
  BY <1>1, <1>2 DEF Ptrs, Owned
<1>4. PkgFreed(h, g, sz, al, ptr)
  BY <1>1, <1>2, <1>3, PkgFrees
<1>5. PICK E, zs : PkgHeap(package, g, E, zs, al \ {ptr}) /\ Kept(h, g, sz, zs, al \ {h.prol, ptr})
  BY <1>4 DEF PkgFreed
<1>6. PkgIs(h, D, sz, al) /\ PkgIs(g, E, zs, al \ {ptr})
  BY <1>1, <1>5, PkgFacts, Zenon
<1>7. g.prol = h.prol
  BY <1>6 DEF PkgIs
<1>8. \A j \in I \ {i} : bl[j].ptr \in al \ {h.prol, ptr} /\ sz[bl[j].ptr] \in Nat
  <2>1. ASSUME NEW j \in I \ {i} PROVE bl[j].ptr \in al \ {h.prol, ptr}
    BY <1>1, <1>2 DEF Ptrs, Owned
  <2> QED
    BY <1>6, <2>1 DEF PkgIs
<1>9. {g.prol} \cup Ptrs(bl, I \ {i}) = al \ {ptr}
  <2>1. \A x : x \in {g.prol} \cup Ptrs(bl, I \ {i}) <=> x \in al \ {ptr}
    BY <1>1, <1>2, <1>3, <1>7, <1>8 DEF Ptrs
  <2> QED
    BY <2>1
<1>10. Owned(bl, I \ {i}, g.prol)
  BY <1>1, <1>7 DEF Owned
<1>11. ASSUME sized PROVE Roomy(bl, I \ {i}, zs) /\ KeepsFilled(h, g, bl, bl, I \ {i})
  <2>1. /\ Roomy(bl, I \ {i}, sz) /\ I \ {i} \in SUBSET Ids
        /\ Among(bl, bl, I \ {i}, sz, al \ {h.prol, ptr})
    BY <1>1, <1>8, <1>11 DEF Roomy, Among
  <2> QED
    BY <1>5, <2>1, KeptFilled
<1>12. Kempt(package, g, bl, I \ {i}, sized)
  BY <1>5, <1>9, <1>10, <1>11 DEF Kempt
<1> QED
  BY <1>11, <1>12

\* What the block of index i had it still has, as far as it fits.
CarriesFilled(h, g, bl, bl2, i) ==
    \A n \in Nat : n <= bl[i].size /\ n <= bl2[i].size /\ Filled(h, bl, i, n) => Filled(g, bl2, i, n)

ReallocDone(h, g, bl, bl2, I, i, sized) ==
    /\ bl2 \in BlockTable /\ Kempt(package, g, bl2, I, sized)
    /\ sized => KeepsFilled(h, g, bl, bl2, I \ {i}) /\ CarriesFilled(h, g, bl, bl2, i)

LEMMA ReallocKempt ==
  ASSUME NEW h, NEW bl \in BlockTable, NEW I \in SUBSET Ids, NEW sized \in BOOLEAN, package \in AllPackages,
         Kempt(package, h, bl, I, sized), NEW i \in I, NEW size \in Sizes,
         NEW r, r = PkgRealloc(h, bl[i].ptr, size), r.ptr # NULL, NEW z \in Nat, sized => z = size,
         NEW bl2, Entered(bl, bl2, i, r.ptr, z)
  PROVE  ReallocDone(h, r.heap, bl, bl2, I, i, sized)
<1>1. PICK D, sz, al : /\ al = {h.prol} \cup Ptrs(bl, I) /\ PkgHeap(package, h, D, sz, al)
                       /\ Owned(bl, I, h.prol) /\ (sized => Roomy(bl, I, sz))
  BY DEF Kempt
<1>2. PICK g, p, ptr : g = r.heap /\ p = r.ptr /\ ptr = bl[i].ptr
  OBVIOUS
<1>3. SizeOk(size) /\ size \in Nat
  BY SizesOk
<1>4. ptr \in al /\ ptr # h.prol
  BY <1>1, <1>2 DEF Ptrs, Owned
<1>5. size # 0 /\ PkgMoved(h, g, sz, al, ptr, p, size)
  BY <1>1, <1>2, <1>3, <1>4, PkgReallocs
<1>6. PICK E, zs : /\ PkgHeap(package, g, E, zs, (al \ {ptr}) \cup {p}) /\ p \notin al \ {ptr}
                   /\ zs[p] >= size + 8 /\ Kept(h, g, sz, zs, al \ {h.prol, ptr})
                   /\ Carries(h, g, sz, ptr, p, size)
  BY <1>5 DEF PkgMoved
<1>7. PkgIs(h, D, sz, al) /\ PkgIs(g, E, zs, (al \ {ptr}) \cup {p})
  BY <1>1, <1>6, PkgFacts, Zenon
<1>8. p \in Nat /\ zs[p] \in Nat /\ g.prol = h.prol /\ p # h.prol /\ ptr \in Nat /\ sz[ptr] \in Nat
      /\ ptr \in D /\ p \in E
  BY <1>4, <1>6, <1>7 DEF PkgIs
<1>9. /\ bl2 \in BlockTable /\ bl2[i].ptr = p /\ bl2[i].size = z
      /\ \A j \in Ids \ {i} : bl2[j] = bl[j]
  BY <1>2, <1>8 DEF BlockTable, Entered
<1>10. \A j \in I \ {i} : bl2[j] = bl[j] /\ bl[j].ptr \in al \ {h.prol, ptr} /\ sz[bl[j].ptr] \in Nat
  <2>1. ASSUME NEW j \in I \ {i} PROVE bl2[j] = bl[j] /\ bl[j].ptr \in al \ {h.prol, ptr}
    BY <1>1, <1>2, <1>9 DEF Ptrs, Owned
  <2> QED
    BY <1>7, <2>1 DEF PkgIs
<1>11. {g.prol} \cup Ptrs(bl2, I) = (al \ {ptr}) \cup {p}
  <2>1. Ptrs(bl2, I) = (Ptrs(bl, I) \ {ptr}) \cup {p}
    <3>1. ASSUME NEW x \in Ptrs(bl2, I) PROVE x \in (Ptrs(bl, I) \ {ptr}) \cup {p}
      BY <1>9, <1>10 DEF Ptrs
    <3>2. p \in Ptrs(bl2, I)
      BY <1>9 DEF Ptrs
    <3>3. ASSUME NEW x \in Ptrs(bl, I) \ {ptr} PROVE x \in Ptrs(bl2, I)
      <4>1. PICK j \in I : x = bl[j].ptr
        BY DEF Ptrs
      <4>2. j \in I \ {i}
        BY <1>2, <3>3, <4>1
      <4> QED
        BY <1>10, <4>1, <4>2 DEF Ptrs
    <3> QED
      BY <3>1, <3>2, <3>3
  <2> QED
    BY <1>1, <1>4, <1>8, <2>1
<1>12. Owned(bl2, I, g.prol)
  <2>1. \A j \in I \ {i} : bl2[j].ptr # p
    BY <1>6, <1>10
  <2> QED
    BY <1>1, <1>8, <1>9, <1>10, <2>1 DEF Owned
<1>13. ASSUME sized PROVE KeepsFilled(h, g, bl, bl2, I \ {i}) /\ Roomy(bl2, I, zs)
  <2>1. /\ Roomy(bl, I \ {i}, sz) /\ Kept(h, g, sz, zs, al \ {h.prol, ptr}) /\ I \ {i} \in SUBSET Ids
        /\ Among(bl, bl2, I \ {i}, sz, al \ {h.prol, ptr})
    BY <1>1, <1>6, <1>10, <1>13 DEF Among, Roomy
  <2>2. KeepsFilled(h, g, bl, bl2, I \ {i}) /\ Roomy(bl2, I \ {i}, zs)
    BY <2>1, KeptFilled
  <2>3. bl2[i].size > 0 /\ bl2[i].size + 8 <= zs[bl2[i].ptr]
    BY <1>3, <1>5, <1>6, <1>8, <1>9, <1>13
  <2> QED
    BY <2>2, <2>3 DEF Roomy
<1>14. ASSUME sized PROVE CarriesFilled(h, g, bl, bl2, i)
  <2>1. PICK old \in Nat : old = bl[i].size /\ old + 8 <= sz[ptr]
    BY <1>1, <1>2, <1>14 DEF Roomy, BlockTable
  <2>2. ASSUME NEW n \in Nat, n <= old, n <= size, Filled(h, bl, i, n), NEW a \in Payload(p, n)
        PROVE  g.mem[a] = i
    <3>1. a \in Addr /\ a \in Nat /\ p <= a /\ a < p + n /\ a % 4 = 0
      BY <2>2, AddrIsNat, Addresses DEF Payload
    <3>2. p % 4 = 0
      <4>1. Layout(g.prol, g.brk, E, zs)
        BY <1>7 DEF PkgIs
      <4>2. p % 8 = 0
        BY <1>8, <4>1 DEF Layout
      <4> QED
        BY <1>8, <4>2
    <3>3. PICK o \in Nat : a = p + o
      <4>1. a - p \in Nat /\ a = p + (a - p)
        BY <1>8, <3>1
      <4> QED
        BY <4>1
    <3>4. o % 4 = 0 /\ o < n /\ o < size /\ o < sz[ptr] - 8
      BY <1>3, <1>8, <2>1, <2>2, <3>1, <3>2, <3>3
    <3>5. g.mem[p + o] = h.mem[ptr + o]
      BY <1>6, <3>4 DEF Carries
    <3>6. ptr + o \in Addr
      <4>1. Layout(h.prol, h.brk, D, sz)
        BY <1>7 DEF PkgIs
      <4> QED
        BY <1>8, <3>4, <4>1, OffsetWords
    <3>7. ptr + o \in Payload(ptr, n)
      BY <1>8, <3>4, <3>6 DEF Payload
    <3> QED
      BY <1>2, <2>2, <3>3, <3>5, <3>7 DEF Filled
  <2>3. bl2[i].size = size
    BY <1>9, <1>14
  <2> QED
    BY <1>9, <2>1, <2>2, <2>3 DEF CarriesFilled, Filled
<1>15. Kempt(package, g, bl2, I, sized)
  BY <1>6, <1>11, <1>12, <1>13 DEF Kempt
<1> QED
  BY <1>2, <1>9, <1>13, <1>14, <1>15 DEF ReallocDone

\* eval_mm_valid fills the block of index i.
LEMMA FillKempt ==
  ASSUME NEW h, NEW bl \in BlockTable, NEW I \in SUBSET Ids, Kempt(package, h, bl, I, TRUE), NEW i \in I,
         NEW g, g = memset(h, bl[i].ptr, bl[i].size, i)
  PROVE  /\ Kempt(package, g, bl, I, TRUE) /\ KeepsFilled(h, g, bl, bl, I \ {i})
         /\ Filled(g, bl, i, bl[i].size)
<1>1. PICK D, sz, al : /\ al = {h.prol} \cup Ptrs(bl, I) /\ PkgHeap(package, h, D, sz, al)
                       /\ Owned(bl, I, h.prol) /\ Roomy(bl, I, sz)
  BY DEF Kempt
<1>2. PICK p, z : p = bl[i].ptr /\ z = bl[i].size
  OBVIOUS
<1>3. p \in al /\ p # h.prol /\ p \in Nat /\ z \in Nat /\ z + 8 <= sz[p] /\ i \in Nat
  <2>1. i \in Nat
    BY DriverAssumption
  <2> QED
    BY <1>1, <1>2, <2>1 DEF Ptrs, Owned, Roomy, BlockTable
<1>4. PkgIs(h, D, sz, al)
  BY <1>1, PkgFacts, Zenon
<1>5. p \in D /\ sz[p] \in Nat /\ h \in Heaps
  BY <1>3, <1>4 DEF PkgIs
<1>6. PICK m : m = [a \in Addr |-> IF a \in Payload(p, z) THEN i ELSE h.mem[a]]
  OBVIOUS
<1>7. g = [h EXCEPT !.mem = m] /\ m \in [Addr -> Nat]
  BY <1>2, <1>3, <1>5, <1>6 DEF memset, Heaps
<1>8. Fills(h, g, p, p + z)
  <2>1. g \in Heaps /\ g.brk = h.brk /\ g.prol = h.prol /\ g.root = h.root /\ g.mem = m
    BY <1>5, <1>7 DEF Heaps
  <2>2. \A a \in Addr : m[a] = h.mem[a] \/ (p <= a /\ a < p + z)
    BY <1>6 DEF Payload
  <2> QED
    BY <2>1, <2>2 DEF Fills
<1>9. g.prol = h.prol /\ Filled(g, bl, i, z)
  <2>1. g.mem = m
    BY <1>5, <1>7 DEF Heaps
  <2>2. \A a \in Payload(p, z) : m[a] = i
    BY <1>6 DEF Payload
  <2> QED
    BY <1>2, <1>8, <2>1, <2>2 DEF Fills, Filled
<1>10. p + z \in Int /\ p + z <= p + sz[p] - 8
  BY <1>3, <1>5
<1>11. Kept(h, g, sz, sz, al \ {p}) /\ PkgHeap(package, g, D, sz, al)
  <2>1. CASE package = "implicit"
    <3>1. Tiled(h, D, sz, al) /\ Apart(D, sz, al)
      BY <1>1 DEF PkgHeap
    <3>2. Tiled(g, D, sz, al) /\ Kept(h, g, sz, sz, D \ {p})
      BY <1>5, <1>8, <1>10, <3>1, FillsTiled, Zenon
    <3>3. al \ {p} \subseteq D \ {p}
      BY <1>4 DEF PkgIs
    <3>4. Kept(h, g, sz, sz, al \ {p})
      BY <3>2, <3>3, Zenon DEF Kept
    <3>5. PlainHeap(g, D, sz, al)
      BY <3>1, <3>2 DEF PlainHeap
    <3> QED
      BY <2>1, <3>4, <3>5, PkgHeapIs, Zenon
  <2>2. CASE package # "implicit"
    <3>1. ListHeap(h, D, sz, al)
      BY <1>1, <2>2, PkgHeapIs
    <3>2. ListHeap(g, D, sz, al) /\ Kept(h, g, sz, sz, al \ {p})
      BY <1>3, <1>8, <1>10, <3>1, FillsList, Zenon
    <3> QED
      BY <3>2, PkgHeapIs, Zenon
  <2> QED
    BY <2>1, <2>2
<1>12. KeepsFilled(h, g, bl, bl, I \ {i})
  <2>1. ASSUME NEW j \in I \ {i} PROVE bl[j].ptr \in al \ {p} /\ sz[bl[j].ptr] \in Nat
    <3>1. bl[j].ptr \in al \ {p}
      BY <1>1, <1>2 DEF Ptrs, Owned
    <3> QED
      BY <1>4, <3>1 DEF PkgIs
  <2>2. Roomy(bl, I \ {i}, sz) /\ I \ {i} \in SUBSET Ids /\ Among(bl, bl, I \ {i}, sz, al \ {p})
    BY <1>1, <2>1 DEF Roomy, Among
  <2> QED
    BY <1>11, <2>2, KeptFilled
<1>13. Kempt(package, g, bl, I, TRUE)
  BY <1>1, <1>9, <1>11 DEF Kempt
<1> QED
  BY <1>2, <1>9, <1>12, <1>13

-----------------------------------------------------------------------------
(* The checks of eval_mm_valid.                                            *)

\* add_range accepts a block next to the extents of the others.
LEMMA RangeKempt ==
  ASSUME NEW bl \in BlockTable, NEW I \in SUBSET Ids, Kempt(package, heap, bl, I, TRUE), NEW i \in I,
         NEW known, known = Extents(bl, I \ {i})
  PROVE  RangeOK(known, bl[i].ptr, bl[i].size)
<1>1. PICK D, sz, al : /\ al = {heap.prol} \cup Ptrs(bl, I) /\ PkgHeap(package, heap, D, sz, al)
                       /\ Owned(bl, I, heap.prol) /\ Roomy(bl, I, sz)
  BY DEF Kempt
<1>2. PkgIs(heap, D, sz, al)
  BY <1>1, PkgFacts, Zenon
<1>3. /\ \A x \in D : x \in Nat /\ sz[x] \in Nat /\ x % 8 = 0 /\ Start + 8 <= x /\ x + sz[x] <= heap.brk
      /\ \A x, y \in D : x < y => x + sz[x] <= y
      /\ heap.brk \in Nat
  <2>1. Layout(heap.prol, heap.brk, D, sz) /\ heap.prol = Start + 8
    BY <1>2 DEF PkgIs
  <2>2. \A x \in D : x + sz[x] <= heap.brk
    BY <2>1, LayoutFacts
  <2> QED
    BY <2>1, <2>2 DEF Layout
<1>4. ASSUME NEW j \in I PROVE /\ bl[j].ptr \in D /\ bl[j].size \in Nat /\ bl[j].size > 0
                               /\ bl[j].size + 8 <= sz[bl[j].ptr]
  <2>1. bl[j].ptr \in al
    BY <1>1 DEF Ptrs
  <2> QED
    BY <1>1, <1>2, <2>1 DEF PkgIs, Roomy, BlockTable
<1>5. PICK p, z : p = bl[i].ptr /\ z = bl[i].size
  OBVIOUS
<1>6. p \in D /\ z \in Nat /\ z > 0 /\ z + 8 <= sz[p]
  BY <1>4, <1>5
<1>7. p % 8 = 0 /\ p >= Start /\ p + z - 1 <= heap.brk - 1
  <2>1. p \in Nat /\ sz[p] \in Nat /\ p % 8 = 0 /\ Start + 8 <= p /\ p + sz[p] <= heap.brk /\ heap.brk \in Nat
    BY <1>3, <1>6
  <2> QED
    BY <1>6, <2>1, MemAssumption
<1>8. ASSUME NEW e \in known
      PROVE  ~ (p >= e.lo /\ p <= e.hi) /\ ~ (p + z - 1 >= e.lo /\ p + z - 1 <= e.hi)
  <2>1. PICK j \in I \ {i} : e = Extent(bl[j].ptr, bl[j].size)
    BY <1>8 DEF Extents
  <2>2. PICK q, w : q = bl[j].ptr /\ w = bl[j].size
    OBVIOUS
  <2>3. q \in D /\ w \in Nat /\ w > 0 /\ w + 8 <= sz[q] /\ q # p
    BY <1>1, <1>4, <1>5, <2>2 DEF Owned
  <2>4. e.lo = q /\ e.hi = q + w - 1
    BY <2>1, <2>2 DEF Extent
  <2>5. /\ p \in Nat /\ q \in Nat /\ sz[p] \in Nat /\ sz[q] \in Nat /\ (p < q => p + sz[p] <= q)
        /\ (q < p => q + sz[q] <= p)
    BY <1>3, <1>6, <2>3
  <2>6. p + sz[p] <= q \/ q + sz[q] <= p
    BY <2>3, <2>5
  <2> QED
    BY <1>6, <2>3, <2>4, <2>5, <2>6
<1> QED
  BY <1>5, <1>7, <1>8 DEF RangeOK, Extent

\* remove_range takes out the extent of one block.
LEMMA ExtentsRemoved ==
  ASSUME NEW bl, NEW I, NEW prol, Owned(bl, I, prol), NEW i \in I
  PROVE  remove_range(Extents(bl, I), bl[i].ptr) = Extents(bl, I \ {i})
<1>1. \A j \in I : Extent(bl[j].ptr, bl[j].size).lo = bl[j].ptr
  BY DEF Extent
<1>2. \A e : e \in remove_range(Extents(bl, I), bl[i].ptr) <=> e \in Extents(bl, I \ {i})
  <2>1. ASSUME NEW e, e \in remove_range(Extents(bl, I), bl[i].ptr) PROVE e \in Extents(bl, I \ {i})
    BY <1>1, <2>1 DEF remove_range, Extents
  <2>2. ASSUME NEW e, e \in Extents(bl, I \ {i}) PROVE e \in remove_range(Extents(bl, I), bl[i].ptr)
    <3>1. PICK j \in I \ {i} : e = Extent(bl[j].ptr, bl[j].size)
      BY <2>2 DEF Extents
    <3>2. e.lo # bl[i].ptr
      BY <1>1, <3>1 DEF Owned
    <3> QED
      BY <3>1, <3>2 DEF remove_range, Extents
  <2> QED
    BY <2>1, <2>2
<1> QED
  BY <1>2

LEMMA ExtentsSame ==
  ASSUME NEW bl, NEW bl2, NEW I, \A j \in I : bl2[j] = bl[j]
  PROVE  Extents(bl2, I) = Extents(bl, I)
BY DEF Extents

\* What was filled stays filled.
LEMMA KnownOn ==
  ASSUME NEW h, NEW g, NEW bl \in BlockTable, NEW bl2, NEW I \in SUBSET Ids, NEW J \in SUBSET I,
         NEW known, Known(h, bl, I, known), KeepsFilled(h, g, bl, bl2, J)
  PROVE  Known(g, bl2, J, Extents(bl, J))
<1>1. Extents(bl2, J) = Extents(bl, J)
  <2>1. \A j \in J : bl2[j] = bl[j]
    BY DEF KeepsFilled
  <2> QED
    BY <2>1, ExtentsSame, Zenon
<1>2. ASSUME NEW j \in J PROVE Filled(g, bl2, j, bl2[j].size)
  <2>1. Filled(h, bl, j, bl[j].size) /\ bl[j].size \in Nat /\ bl[j].size <= bl[j].size
    BY DEF Known, BlockTable
  <2> QED
    BY <2>1 DEF KeepsFilled
<1> QED
  BY <1>1, <1>2 DEF Known

LEMMA FilledLess ==
  ASSUME NEW h, NEW bl \in BlockTable, NEW i \in Ids, NEW m \in Nat, Filled(h, bl, i, m), NEW n \in Nat, n <= m
  PROVE  Filled(h, bl, i, n)
<1>1. PICK p \in Nat : p = bl[i].ptr
  BY DEF BlockTable
<1>2. Payload(p, n) \subseteq Payload(p, m)
  <2>1. ASSUME NEW a \in Addr, p <= a, a < p + n PROVE a < p + m
    <3>1. a \in Nat
      BY AddrIsNat
    <3> QED
      BY <2>1, <3>1
  <2> QED
    BY <2>1 DEF Payload
<1> QED
  BY <1>1, <1>2 DEF Filled

-----------------------------------------------------------------------------
(* The trace.                                                              *)

LEMMA RequestsTo ==
  ASSUME NEW I \in SUBSET Ids, NEW op, NEW J, Requests(I, op, J)
  PROVE  J \in SUBSET Ids
BY DEF Requests

LEMMA TraceGrows ==
  ASSUME TypeInv, TraceInv, pass = "valid", pass' = "valid", NEW op \in OpRecords, Recorded(op),
         Requests(held, op, held')
  PROVE  TraceInv' /\ ops' \in Seq(OpRecords) /\ at' \in Nat /\ held' \in SUBSET Ids
<1>1. at \in Nat /\ MaxReplay \in Nat /\ held \in SUBSET Ids /\ ops \in Seq(OpRecords) /\ at' = at + 1
  BY DriverAssumption DEF TypeInv, Recorded
<1>2. held' \in SUBSET Ids
  BY <1>1, RequestsTo, Zenon
<1>3. CASE at < MaxReplay
  <2>1. ops' = Append(ops, op) /\ at <= MaxReplay
    BY <1>1, <1>3 DEF Recorded
  <2>2. Len(ops) = at
    BY <2>1 DEF TraceInv
  <2>3. PICK hs : Trace(ops, hs) /\ held = hs[at]
    BY <2>1 DEF TraceInv
  <2>4. ops' \in Seq(OpRecords) /\ Len(ops') = at + 1 /\ ops'[at + 1] = op /\ \A k \in 1 .. at : ops'[k] = ops[k]
    BY <1>1, <2>1, <2>2
  <2>5. PICK us : us = [k \in 0 .. at + 1 |-> IF k <= at THEN hs[k] ELSE held']
    OBVIOUS
  <2>6. /\ hs \in [0 .. at -> SUBSET Ids] /\ hs[0] = {}
        /\ \A k \in 1 .. at : Requests(hs[k - 1], ops[k], hs[k])
    BY <2>2, <2>3 DEF Trace
  <2>7. us \in [0 .. at + 1 -> SUBSET Ids] /\ us[0] = {} /\ us[at + 1] = held' /\ \A k \in 0 .. at : us[k] = hs[k]
    <3>1. \A k \in 0 .. at + 1 : (k <= at => k \in 0 .. at) /\ (k \in 0 .. at => k <= at)
      BY <1>1
    <3>2. 0 \in 0 .. at + 1 /\ 0 <= at /\ at + 1 \in 0 .. at + 1 /\ ~(at + 1 <= at) /\ 0 .. at \subseteq 0 .. at + 1
      BY <1>1
    <3> QED
      BY <1>2, <2>5, <2>6, <3>1, <3>2
  <2>8. ASSUME NEW k \in 1 .. at + 1 PROVE Requests(us[k - 1], ops'[k], us[k])
    <3>1. CASE k = at + 1
      <4>1. k - 1 = at /\ at \in 0 .. at
        BY <1>1, <3>1
      <4>2. us[k - 1] = held /\ us[k] = held' /\ ops'[k] = op
        BY <2>3, <2>4, <2>7, <3>1, <4>1
      <4> QED
        BY <4>2
    <3>2. CASE k # at + 1
      <4>1. k \in 1 .. at /\ k \in 0 .. at /\ k - 1 \in 0 .. at
        BY <1>1, <3>2
      <4>2. us[k - 1] = hs[k - 1] /\ us[k] = hs[k] /\ ops'[k] = ops[k]
        BY <2>4, <2>7, <4>1
      <4> QED
        BY <2>6, <4>1, <4>2
    <3> QED
      BY <3>1, <3>2
  <2>9. Trace(ops', us)
    BY <2>4, <2>7, <2>8 DEF Trace
  <2>10. at' <= Len(ops') /\ Len(ops') = at' /\ held' = us[at'] /\ at' \in Nat
    BY <1>1, <2>4, <2>7
  <2> QED
    BY <1>2, <2>4, <2>9, <2>10 DEF TraceInv
<1>4. CASE ~(at < MaxReplay)
  <2>1. ops' = <<>> /\ ~(at' <= MaxReplay) /\ at' \in Nat
    BY <1>1, <1>4 DEF Recorded
  <2> QED
    BY <1>2, <2>1 DEF TraceInv
<1> QED
  BY <1>3, <1>4

\* A pass over the whole trace starts.
LEMMA TraceStarts ==
  ASSUME TypeInv, NEW hs, Trace(ops, hs), pass' \in {"util", "speed"}, UNCHANGED ops, at' = 0, held' = {}
  PROVE  TraceInv'
<1>1. at' <= Len(ops') /\ Trace(ops', hs) /\ held' = hs[at']
  BY DEF TypeInv, Trace
<1> QED
  BY <1>1 DEF TraceInv

LEMMA TraceFollowed ==
  ASSUME TypeInv, TraceInv, pass \in {"util", "speed"}, at < Len(ops),
         UNCHANGED <<ops, pass>>, at' = at + 1, \A J : Requests(held, ops[at + 1], J) => held' = J
  PROVE  TraceInv' /\ Requests(held, ops[at + 1], held') /\ held' \in SUBSET Ids
<1>1. PICK hs : Trace(ops, hs) /\ held = hs[at]
  BY DEF TraceInv
<1>2. at \in Nat /\ Len(ops) \in Nat /\ held \in SUBSET Ids
  BY DEF TypeInv
<1>3. at + 1 \in 1 .. Len(ops) /\ (at + 1) - 1 = at /\ at' <= Len(ops)
  BY <1>2
<1>4. Requests(held, ops[at + 1], hs[at + 1])
  <2>1. Requests(hs[(at + 1) - 1], ops[at + 1], hs[at + 1])
    BY <1>1, <1>3 DEF Trace
  <2> QED
    BY <1>1, <1>3, <2>1
<1>5. held' = hs[at']
  BY <1>4
<1>6. held' \in SUBSET Ids
  BY <1>2, <1>4, <1>5, RequestsTo
<1> QED
  BY <1>1, <1>3, <1>4, <1>5, <1>6 DEF TraceInv

-----------------------------------------------------------------------------
(* A pass starts.                                                          *)

LEMMA InitHeap == mem_init \in Heaps
BY MemAssumption DEF mem_init, Heaps, Junk, NULL

LEMMA KemptHeap ==
  ASSUME NEW pk, NEW h, NEW bl, NEW I, NEW sized, Kempt(pk, h, bl, I, sized)
  PROVE  h \in Heaps
BY DEF Kempt, PkgHeap, Tiled

LEMMA PassStarts ==
  ASSUME heap \in Heaps, NEW next, NEW onfail, StartPass(next, onfail), NEW bl, NEW sized
  PROVE  /\ heap' \in Heaps
         /\ pass' # onfail => pass' = next /\ Kempt(package, heap', bl, {}, sized)
<1>1. PICK h : h = mem_reset_brk(heap)
  OBVIOUS
<1>2. h \in Heaps /\ h.brk = Start
  BY <1>1, MemAssumption DEF mem_reset_brk, Heaps
<1>3. PICK r : r = PkgInit(h)
  OBVIOUS
<1>4. heap' = r.heap /\ pass' = (IF r.ptr = NULL THEN onfail ELSE next)
  BY <1>1, <1>3 DEF StartPass
<1>5. r.heap \in Heaps
  BY <1>2, <1>3, PkgStarts
<1>6. ASSUME pass' # onfail PROVE pass' = next /\ Kempt(package, r.heap, bl, {}, sized)
  <2>1. r.ptr # NULL /\ pass' = next
    BY <1>4, <1>6
  <2>2. PICK E, zs : PkgHeap(package, r.heap, E, zs, {r.heap.prol})
    BY <1>2, <1>3, <2>1, PkgStarts
  <2>3. {r.heap.prol} \cup Ptrs(bl, {}) = {r.heap.prol}
    BY DEF Ptrs
  <2>4. Owned(bl, {}, r.heap.prol) /\ Roomy(bl, {}, zs)
    BY DEF Owned, Roomy
  <2> QED
    BY <2>1, <2>2, <2>3, <2>4 DEF Kempt
<1> QED
  BY <1>4, <1>5, <1>6

-----------------------------------------------------------------------------
(* Every step of the driver keeps the invariant.                           *)

LEMMA InitKeeps == Init => DriverInv
<1>1. ASSUME Init PROVE DriverInv
  <2>1. TypeInv
    BY <1>1, DriverAssumption DEF Init, TypeInv, BlockTable, NoBlocks, NULL
  <2>2. TraceInv
    BY <1>1 DEF Init, TraceInv
  <2>3. heap \in Heaps
    BY <1>1, InitHeap DEF Init
  <2> QED
    BY <1>1, <2>1, <2>2, <2>3 DEF Init, DriverInv, Running
<1> QED
  BY <1>1

LEMMA StartValidKeeps == ASSUME DriverInv, StartValid PROVE DriverInv'
<1>1. /\ TypeInv /\ pass = "start" /\ heap \in Heaps /\ ops = <<>> /\ request = {}
  BY DEF DriverInv, StartValid
<1>2. /\ StartPass("valid", "done") /\ ranges' = {} /\ UNCHANGED <<package, ops, blocks, request>>
  BY DEF StartValid
<1>3. at' = 0 /\ held' = {} /\ pass' \in {"valid", "done"}
  BY <1>2 DEF StartPass
<1>4. TypeInv'
  BY <1>1, <1>2, <1>3 DEF TypeInv
<1>a. heap' \in Heaps
  BY <1>1, <1>2, PassStarts
<1>5. CASE pass' = "done"
  BY <1>1, <1>2, <1>4, <1>5, <1>a DEF DriverInv, TraceInv, Running
<1>6. CASE pass' = "valid"
  <2>1. PICK bl : bl = blocks
    OBVIOUS
  <2>2. pass' # "done"
    BY <1>6
  <2>3. Kempt(package, heap', bl, {}, TRUE)
    BY <1>1, <1>2, <2>2, PassStarts
  <2>4. Kempt(package', heap', blocks', held', pass' # "speed")
    <3>1. (pass' # "speed") = TRUE
      BY <1>6
    <3> QED
      BY <1>2, <1>3, <2>1, <2>3, <3>1
  <2>5. TraceInv'
    <3>1. PICK hs : hs = [k \in 0 .. 0 |-> {}]
      OBVIOUS
    <3>2. Trace(ops', hs) /\ held' = hs[at'] /\ Len(ops') = 0
      BY <1>1, <1>2, <1>3, <3>1 DEF Trace
    <3> QED
      BY <1>3, <1>6, <3>2 DEF TraceInv
  <2>6. CheckInv'
    <3>1. request' = {} /\ held' = {} /\ ranges' = {}
      BY <1>1, <1>2, <1>3
    <3> QED
      BY <3>1 DEF CheckInv, Known, Extents
  <2> QED
    BY <1>4, <1>6, <2>4, <2>5, <2>6 DEF DriverInv
<1> QED
  BY <1>3, <1>5, <1>6

\* eval_mm_util and eval_mm_speed start.
LEMMA NextPassKeeps ==
  ASSUME DriverInv, pass \in {"valid", "util", "speed"}, request = {}, \E hs : Trace(ops, hs),
         NEW next \in {"util", "speed"}, StartPass(next, "exit"), UNCHANGED <<package, ops, blocks, request>>
  PROVE  DriverInv'
<1>1. TypeInv /\ heap \in Heaps
  BY KemptHeap DEF DriverInv, Running
<1>2. at' = 0 /\ held' = {} /\ pass' \in {next, "exit"}
  BY DEF StartPass
<1>3. TypeInv'
  BY <1>1, <1>2 DEF TypeInv
<1>4. CASE pass' = "exit"
  BY <1>3, <1>4 DEF DriverInv, TraceInv, Running
<1>5. CASE pass' # "exit"
  <2>1. PICK bl, sized : bl = blocks /\ sized = (pass' # "speed")
    OBVIOUS
  <2>3. pass' = next /\ Kempt(package, heap', bl, {}, sized)
    BY <1>1, <1>5, PassStarts
  <2>4. TraceInv'
    <3>1. PICK hs : Trace(ops, hs)
      OBVIOUS
    <3>2. pass' \in {"util", "speed"} /\ UNCHANGED ops
      BY <2>3
    <3> QED
      BY <1>1, <1>2, <3>1, <3>2, TraceStarts
  <2>5. Kempt(package', heap', blocks', held', pass' # "speed")
    BY <1>2, <2>1, <2>3
  <2> QED
    BY <1>3, <2>3, <2>4, <2>5 DEF DriverInv
<1> QED
  BY <1>4, <1>5

LEMMA StartUtilKeeps == ASSUME DriverInv, StartUtil PROVE DriverInv'
<1>1. pass \in {"valid", "util", "speed"} /\ request = {} /\ StartPass("util", "exit") /\ UNCHANGED <<package, ops, blocks, request>>
  BY DEF StartUtil
<1>2. \E hs : Trace(ops, hs)
  BY DEF StartUtil, DriverInv, TraceInv
<1>3. PICK next \in {"util", "speed"} : next = "util"
  OBVIOUS
<1> QED
  BY <1>1, <1>2, <1>3, NextPassKeeps

LEMMA StartSpeedKeeps == ASSUME DriverInv, StartSpeed PROVE DriverInv'
<1>1. pass \in {"valid", "util", "speed"} /\ request = {} /\ StartPass("speed", "exit") /\ UNCHANGED <<package, ops, blocks, request>>
  BY DEF StartSpeed, DriverInv
<1>2. \E hs : Trace(ops, hs)
  BY DEF StartSpeed, DriverInv, TraceInv
<1>3. PICK next \in {"util", "speed"} : next = "speed"
  OBVIOUS
<1> QED
  BY <1>1, <1>2, <1>3, NextPassKeeps

LEMMA EndTraceKeeps == ASSUME DriverInv, EndTrace PROVE DriverInv'
<1>1. TypeInv /\ pass \in {"failed", "speed"} /\ request = {} /\ pass' = "done"
      /\ UNCHANGED <<package, heap, ops, at, held, blocks, request>>
  BY DEF DriverInv, EndTrace
<1>2. TypeInv'
  BY <1>1 DEF TypeInv
<1>3. heap \in Heaps
  BY <1>1, KemptHeap DEF DriverInv, Running
<1> QED
  BY <1>1, <1>2, <1>3 DEF DriverInv, TraceInv, Running

LEMMA NextTraceKeeps == ASSUME DriverInv, NextTrace PROVE DriverInv'
<1>1. /\ TypeInv /\ pass = "done" /\ pass' = "start" /\ heap \in Heaps /\ request = {}
      /\ ops' = <<>> /\ at' = 0 /\ held' = {} /\ blocks' = NoBlocks /\ UNCHANGED <<package, heap, request>>
  BY DEF DriverInv, NextTrace
<1>2. TypeInv'
  BY <1>1 DEF TypeInv, NoBlocks, BlockTable, NULL
<1> QED
  BY <1>1, <1>2 DEF DriverInv, TraceInv, Running

\* A request failed: the blocks of I are there as before.
LEMMA FailureKeeps ==
  ASSUME DriverInv, NEW op \in OpRecords, Recorded(op), NEW h, NEW I \in SUBSET Ids, Failure(h, I),
         UNCHANGED <<package, blocks>>, Kempt(package, h, blocks, I, TRUE),
         \A i \in I : Filled(h, blocks, i, blocks[i].size)
  PROVE  DriverInv'
<1>1. TypeInv /\ pass' = "failed" /\ request' = {} /\ held' = I /\ heap' = h
  BY DEF DriverInv, Failure
<1>2. ops' \in Seq(OpRecords) /\ at' \in Nat
  <2>1. ops \in Seq(OpRecords) /\ at \in Nat
    BY <1>1 DEF TypeInv
  <2> QED
    BY <2>1 DEF Recorded
<1>3. TypeInv'
  BY <1>1, <1>2 DEF TypeInv
<1>4. Kempt(package', heap', blocks', held', pass' # "speed")
  <2>1. (pass' # "speed") = TRUE
    BY <1>1
  <2> QED
    BY <1>1, <2>1
<1>5. \A i \in held' : Filled(heap', blocks', i, blocks'[i].size)
  BY <1>1
<1> QED
  BY <1>1, <1>3, <1>4, <1>5 DEF DriverInv, TraceInv

\* What a failed request leaves.
LEMMA MallocNull ==
  ASSUME NEW h, NEW bl, NEW I, Kempt(package, h, bl, I, TRUE), NEW size \in Sizes,
         NEW r, r = PkgMalloc(h, size), r.ptr = NULL
  PROVE  r.heap = h
<1>1. PICK D, sz, al : PkgHeap(package, h, D, sz, al)
  BY DEF Kempt
<1> QED
  BY <1>1, SizesOk, PkgMallocFails

\* g is the heap that a realloc of ptr leaves that returns NULL.
NullLeaves(h, g, ptr, size) == g = IF size = 0 /\ package \in {"clean", "mm"} THEN PkgFree(h, ptr) ELSE h

LEMMA ReallocNull ==
  ASSUME NEW h, NEW bl, NEW I, Kempt(package, h, bl, I, TRUE), package \in AllPackages, NEW i \in I,
         NEW size \in Sizes, NEW r, r = PkgRealloc(h, bl[i].ptr, size), r.ptr = NULL
  PROVE  NullLeaves(h, r.heap, bl[i].ptr, size)
<1>1. PICK D, sz, al : /\ al = {h.prol} \cup Ptrs(bl, I) /\ PkgHeap(package, h, D, sz, al)
                       /\ Owned(bl, I, h.prol)
  BY DEF Kempt
<1>2. PICK ptr : ptr = bl[i].ptr
  OBVIOUS
<1>3. ptr \in al /\ ptr # h.prol /\ SizeOk(size)
  BY <1>1, <1>2, SizesOk DEF Ptrs, Owned
<1>4. r.heap = IF size = 0 /\ package \in {"clean", "mm"} THEN PkgFree(h, ptr) ELSE h
  BY <1>1, <1>2, <1>3, PkgReallocFails
<1> QED
  BY <1>2, <1>4 DEF NullLeaves

\* What the invariant says of a call that eval_mm_valid makes.
ValidIs ==
    /\ TypeInv /\ TraceInv /\ Kempt(package, heap, blocks, held, TRUE)
    /\ package \in AllPackages /\ blocks \in BlockTable /\ held \in SUBSET Ids
    /\ Known(heap, blocks, held, ranges)

LEMMA ValidFacts ==
  ASSUME DriverInv, pass = "valid", request = {}
  PROVE  ValidIs
<1>1. (pass # "speed") = TRUE
  OBVIOUS
<1> QED
  BY <1>1 DEF DriverInv, Running, CheckInv, ValidIs, TypeInv

LEMMA ValidOps ==
  ASSUME NEW i \in Ids, NEW size \in Nat, NEW type \in {"ALLOC", "REALLOC", "FREE"}
  PROVE  Op(type, i, size) \in OpRecords
BY DEF Op, OpRecords

LEMMA ValidAllocKeeps ==
  ASSUME DriverInv, NEW i \in Ids, NEW size \in Sizes, ValidAlloc(i, size)
  PROVE  DriverInv'
<1>1. pass = "valid" /\ request = {} /\ i \notin held /\ Recorded(Op("ALLOC", i, size)) /\ UNCHANGED <<package, ranges>>
  BY DEF ValidAlloc
<1>2. ValidIs
  BY <1>1, ValidFacts
<1>3. /\ TypeInv /\ TraceInv /\ Kempt(package, heap, blocks, held, TRUE)
      /\ blocks \in BlockTable /\ held \in SUBSET Ids /\ Known(heap, blocks, held, ranges)
  BY <1>2 DEF ValidIs
<1>4. PICK op : op = Op("ALLOC", i, size)
  OBVIOUS
<1>5. op \in OpRecords /\ Recorded(op) /\ size \in Nat
  BY <1>1, <1>4, SizesOk, ValidOps
<1>6. PICK r : r = PkgMalloc(heap, size)
  OBVIOUS
<1>7. CASE r.ptr = NULL
  <2>1. Failure(r.heap, held) /\ UNCHANGED <<package, blocks>>
    BY <1>1, <1>6, <1>7 DEF ValidAlloc
  <2>2. r.heap = heap
    BY <1>3, <1>6, <1>7, MallocNull
  <2>3. \A j \in held : Filled(heap, blocks, j, blocks[j].size)
    BY <1>3 DEF Known
  <2> QED
    BY <1>3, <1>5, <2>1, <2>2, <2>3, FailureKeeps
<1>8. CASE r.ptr # NULL
  <2>1. /\ heap' = r.heap /\ held' = held \cup {i} /\ pass' = pass
        /\ blocks' = [blocks EXCEPT ![i] = [ptr |-> r.ptr, size |-> size]]
        /\ request' = {[type |-> "ALLOC", index |-> i, oldp |-> NULL, oldsize |-> 0]}
    BY <1>6, <1>8 DEF ValidAlloc
  <2>a. PICK sized \in BOOLEAN : sized = TRUE
    OBVIOUS
  <2>b. PICK bl, I, bl2 : bl = blocks /\ I = held /\ bl2 = blocks'
    OBVIOUS
  <2>2. bl = blocks /\ I = held /\ sized = TRUE /\ bl2 = blocks'
    BY <2>a, <2>b
  <2>3. /\ bl2 \in BlockTable /\ Kempt(package, r.heap, bl2, I \cup {i}, sized)
        /\ sized => KeepsFilled(heap, r.heap, bl, bl2, I)
    <3>0. PICK z \in Nat : z = size
      BY <1>5
    <3>1. /\ bl \in BlockTable /\ I \in SUBSET Ids /\ Kempt(package, heap, bl, I, sized) /\ i \in Ids \ I
          /\ bl2 = [bl EXCEPT ![i] = [ptr |-> r.ptr, size |-> z]] /\ (sized => z = size)
          /\ r = PkgMalloc(heap, size) /\ r.ptr # NULL
      BY <1>1, <1>3, <1>6, <1>8, <2>1, <2>2, <3>0
    <3>2. Entered(bl, bl2, i, r.ptr, z)
      BY <3>1 DEF Entered
    <3>3. MallocDone(heap, r.heap, bl, bl2, I, i, sized)
      BY <3>1, <3>2, MallocKempt
    <3> QED
      BY <3>3 DEF MallocDone
  <2>4. TraceInv' /\ ops' \in Seq(OpRecords) /\ at' \in Nat /\ held' \in SUBSET Ids
    <3>1. Requests(held, op, held')
      BY <1>1, <1>4, <2>1 DEF Requests, Op
    <3>2. pass' = "valid"
      BY <1>1, <2>1
    <3> QED
      BY <1>1, <1>3, <1>5, <3>1, <3>2, TraceGrows
  <2>5. TypeInv'
    BY <1>1, <1>3, <2>1, <2>2, <2>3, <2>4 DEF TypeInv
  <2>6. Kempt(package', heap', blocks', held', pass' # "speed")
    <3>1. (pass' # "speed") = sized
      BY <1>1, <2>1, <2>2
    <3> QED
      BY <1>1, <2>1, <2>2, <2>3, <3>1
  <2>7. CheckInv'
    <3>1. PICK q : q = [type |-> "ALLOC", index |-> i, oldp |-> NULL, oldsize |-> 0]
      OBVIOUS
    <3>2. request' = {q} /\ q.index = i /\ q.oldsize = 0 /\ q.type = "ALLOC"
      BY <2>1, <3>1
    <3>3. held' \ {i} = I /\ i \in held'
      BY <1>1, <2>1, <2>2
    <3>4. ranges' = Extents(bl, I)
      BY <1>1, <1>3, <2>2 DEF Known
    <3>5. Known(heap', blocks', held' \ {i}, ranges')
      <4>1. I \in SUBSET I /\ bl \in BlockTable /\ I \in SUBSET Ids /\ Known(heap, bl, I, ranges) 
            /\ KeepsFilled(heap, r.heap, bl, bl2, I)
        BY <1>3, <2>2, <2>3
      <4>2. Known(r.heap, bl2, I, Extents(bl, I))
        BY <4>1, KnownOn
      <4> QED
        BY <2>1, <2>2, <3>3, <3>4, <4>2
    <3>6. KnownAt(q, ranges') = ranges'
      BY <3>2 DEF KnownAt
    <3>7. ASSUME NEW n \in Nat, n <= 0 PROVE Filled(heap', blocks', i, n)
      <4>1. PICK p \in Nat : p = blocks'[i].ptr
        BY <2>2, <2>3 DEF BlockTable
      <4>2. \A a \in Payload(p, n) : FALSE
        BY <3>7, AddrIsNat DEF Payload
      <4> QED
        BY <4>1, <4>2 DEF Filled
    <3> QED
      BY <3>2, <3>3, <3>5, <3>6, <3>7 DEF CheckInv
  <2> QED
    BY <1>1, <2>1, <2>4, <2>5, <2>6, <2>7 DEF DriverInv
<1> QED
  BY <1>7, <1>8

LEMMA ValidReallocKeeps ==
  ASSUME DriverInv, NEW i \in Ids, NEW size \in Sizes, ValidRealloc(i, size)
  PROVE  DriverInv'
<1>1. pass = "valid" /\ request = {} /\ i \in held /\ Recorded(Op("REALLOC", i, size)) /\ UNCHANGED <<package, ranges>>
  BY DEF ValidRealloc
<1>2. ValidIs
  BY <1>1, ValidFacts
<1>3. /\ TypeInv /\ TraceInv /\ Kempt(package, heap, blocks, held, TRUE) /\ package \in AllPackages
      /\ blocks \in BlockTable /\ held \in SUBSET Ids /\ Known(heap, blocks, held, ranges)
  BY <1>2 DEF ValidIs
<1>4. PICK op : op = Op("REALLOC", i, size)
  OBVIOUS
<1>5. op \in OpRecords /\ Recorded(op) /\ size \in Nat
  BY <1>1, <1>4, SizesOk, ValidOps
<1>6. PICK r : r = PkgRealloc(heap, blocks[i].ptr, size)
  OBVIOUS
<1>7. CASE r.ptr = NULL
  <2>1. Failure(r.heap, HeldAfterNull(i, size)) /\ UNCHANGED <<package, blocks>>
    BY <1>1, <1>6, <1>7 DEF ValidRealloc
  <2>2. r.heap = IF size = 0 /\ package \in {"clean", "mm"} THEN PkgFree(heap, blocks[i].ptr) ELSE heap
    <3>1. PICK h, bl, I : h = heap /\ bl = blocks /\ I = held
      OBVIOUS
    <3>2. Kempt(package, h, bl, I, TRUE) /\ i \in I /\ r = PkgRealloc(h, bl[i].ptr, size)
      BY <1>1, <1>3, <1>6, <3>1
    <3>3. NullLeaves(h, r.heap, bl[i].ptr, size)
      BY <1>3, <1>7, <3>2, ReallocNull
    <3> QED
      BY <3>1, <3>3 DEF NullLeaves
  <2>3. \A j \in held : Filled(heap, blocks, j, blocks[j].size)
    BY <1>3 DEF Known
  <2>4. CASE size = 0 /\ package \in {"clean", "mm"}
    <3>1. HeldAfterNull(i, size) = held \ {i} /\ r.heap = PkgFree(heap, blocks[i].ptr)
      BY <2>2, <2>4 DEF HeldAfterNull
    <3>2. PICK bl, I, g, sized : bl = blocks /\ I = held /\ g = r.heap /\ sized = TRUE
      OBVIOUS
    <3>3. /\ bl \in BlockTable /\ I \in SUBSET Ids /\ sized \in BOOLEAN /\ Kempt(package, heap, bl, I, sized)
          /\ i \in I /\ g = PkgFree(heap, bl[i].ptr)
      BY <1>1, <1>3, <3>1, <3>2
    <3>4. Kempt(package, g, bl, I \ {i}, sized) /\ (sized => KeepsFilled(heap, g, bl, bl, I \ {i}))
      BY <3>3, FreeKempt
    <3>5. \A j \in I \ {i} : Filled(g, bl, j, bl[j].size)
      <4>1. \A j \in I : bl[j].size \in Nat /\ bl[j].size <= bl[j].size
        BY <3>3 DEF BlockTable
      <4> QED
        BY <2>3, <3>2, <3>4, <4>1 DEF KeepsFilled
    <3>6. /\ Kempt(package, r.heap, blocks, held \ {i}, TRUE) /\ held \ {i} \in SUBSET Ids
          /\ \A j \in held \ {i} : Filled(r.heap, blocks, j, blocks[j].size)
      BY <1>3, <3>2, <3>4, <3>5
    <3>7. Failure(r.heap, held \ {i})
      BY <2>1, <3>1
    <3> QED
      BY <1>5, <2>1, <3>6, <3>7, FailureKeeps
  <2>5. CASE ~(size = 0 /\ package \in {"clean", "mm"})
    <3>1. HeldAfterNull(i, size) = held /\ r.heap = heap
      BY <2>2, <2>5 DEF HeldAfterNull
    <3>2. Failure(heap, held)
      BY <2>1, <3>1
    <3> QED
      BY <1>3, <1>5, <2>1, <2>3, <3>2, FailureKeeps
  <2> QED
    BY <2>4, <2>5
<1>8. CASE r.ptr # NULL
  <2>1. /\ heap' = r.heap /\ held' = held /\ pass' = pass
        /\ blocks' = [blocks EXCEPT ![i] = [ptr |-> r.ptr, size |-> size]]
        /\ request' = {[type |-> "REALLOC", index |-> i, oldp |-> blocks[i].ptr, oldsize |-> blocks[i].size]}
    BY <1>6, <1>8 DEF ValidRealloc
  <2>a. PICK sized \in BOOLEAN : sized = TRUE
    OBVIOUS
  <2>b. PICK bl, I, bl2 : bl = blocks /\ I = held /\ bl2 = blocks'
    OBVIOUS
  <2>2. bl = blocks /\ I = held /\ sized = TRUE /\ bl2 = blocks'
    BY <2>a, <2>b
  <2>3. /\ bl2 \in BlockTable /\ Kempt(package, r.heap, bl2, I, sized)
        /\ sized => KeepsFilled(heap, r.heap, bl, bl2, I \ {i}) /\ CarriesFilled(heap, r.heap, bl, bl2, i)
    <3>0. PICK z \in Nat : z = size
      BY <1>5
    <3>1. /\ bl \in BlockTable /\ I \in SUBSET Ids /\ Kempt(package, heap, bl, I, sized) /\ i \in I
          /\ bl2 = [bl EXCEPT ![i] = [ptr |-> r.ptr, size |-> z]] /\ (sized => z = size)
          /\ r = PkgRealloc(heap, bl[i].ptr, size) /\ r.ptr # NULL /\ package \in AllPackages
      BY <1>1, <1>3, <1>6, <1>8, <2>1, <2>2, <3>0
    <3>2. Entered(bl, bl2, i, r.ptr, z)
      BY <3>1 DEF Entered
    <3>3. ReallocDone(heap, r.heap, bl, bl2, I, i, sized)
      BY <3>1, <3>2, ReallocKempt
    <3> QED
      BY <3>3 DEF ReallocDone
  <2>4. TraceInv' /\ ops' \in Seq(OpRecords) /\ at' \in Nat /\ held' \in SUBSET Ids
    <3>1. Requests(held, op, held')
      BY <1>1, <1>4, <2>1 DEF Requests, Op
    <3>2. pass' = "valid"
      BY <1>1, <2>1
    <3> QED
      BY <1>1, <1>3, <1>5, <3>1, <3>2, TraceGrows
  <2>5. TypeInv'
    BY <1>1, <1>3, <2>1, <2>2, <2>3, <2>4 DEF TypeInv
  <2>6. Kempt(package', heap', blocks', held', pass' # "speed")
    <3>1. (pass' # "speed") = sized
      BY <1>1, <2>1, <2>2
    <3> QED
      BY <1>1, <2>1, <2>2, <2>3, <3>1
  <2>7. CheckInv'
    <3>1. PICK q : q = [type |-> "REALLOC", index |-> i, oldp |-> blocks[i].ptr, oldsize |-> blocks[i].size]
      OBVIOUS
    <3>2. request' = {q} /\ q.index = i /\ q.oldsize = bl[i].size /\ q.type = "REALLOC" /\ q.oldp = bl[i].ptr
      BY <2>1, <2>2, <3>1
    <3>3. held' = I /\ i \in I /\ I \ {i} \in SUBSET I /\ bl \in BlockTable /\ I \in SUBSET Ids
          /\ Known(heap, bl, I, ranges) /\ bl[i].size \in Nat
      BY <1>1, <1>3, <2>1, <2>2 DEF BlockTable
    <3>4. KnownAt(q, ranges') = Extents(bl, I \ {i})
      <4>1. PICK prol : Owned(bl, I, prol)
        BY <1>3, <2>2 DEF Kempt
      <4>2. ranges' = Extents(bl, I)
        BY <1>1, <3>3 DEF Known
      <4> QED
        BY <3>2, <3>3, <4>1, <4>2, ExtentsRemoved DEF KnownAt
    <3>5. KeepsFilled(heap, r.heap, bl, bl2, I \ {i}) /\ CarriesFilled(heap, r.heap, bl, bl2, i)
      BY <2>2, <2>3
    <3>6. Known(heap', blocks', held' \ {i}, KnownAt(q, ranges'))
      <4>1. Known(r.heap, bl2, I \ {i}, Extents(bl, I \ {i}))
        BY <3>3, <3>5, KnownOn
      <4> QED
        BY <2>1, <2>2, <3>3, <3>4, <4>1
    <3>7. ASSUME NEW n \in Nat, n <= bl[i].size, n <= bl2[i].size PROVE Filled(heap', blocks', i, n)
      <4>1. Filled(heap, bl, i, bl[i].size)
        BY <3>3 DEF Known
      <4>2. Filled(heap, bl, i, n)
        BY <3>3, <3>7, <4>1, FilledLess
      <4>3. Filled(r.heap, bl2, i, n)
        BY <3>5, <3>7, <4>2 DEF CarriesFilled
      <4> QED
        BY <2>1, <2>2, <4>3
    <3> QED
      BY <2>2, <3>2, <3>3, <3>6, <3>7 DEF CheckInv
  <2> QED
    BY <1>1, <2>1, <2>4, <2>5, <2>6, <2>7 DEF DriverInv
<1> QED
  BY <1>7, <1>8

LEMMA ValidFreeKeeps ==
  ASSUME DriverInv, NEW i \in Ids, ValidFree(i)
  PROVE  DriverInv'
<1>1. /\ pass = "valid" /\ request = {} /\ i \in held /\ Recorded(Op("FREE", i, 0))
      /\ ranges' = remove_range(ranges, blocks[i].ptr) /\ held' = held \ {i}
      /\ heap' = PkgFree(heap, blocks[i].ptr) /\ UNCHANGED <<package, pass, blocks, request>>
  BY DEF ValidFree
<1>2. ValidIs
  BY <1>1, ValidFacts
<1>3. /\ TypeInv /\ TraceInv /\ Kempt(package, heap, blocks, held, TRUE)
      /\ blocks \in BlockTable /\ held \in SUBSET Ids /\ Known(heap, blocks, held, ranges)
  BY <1>2 DEF ValidIs
<1>4. PICK op : op = Op("FREE", i, 0)
  OBVIOUS
<1>5. op \in OpRecords /\ Recorded(op)
  BY <1>1, <1>4, ValidOps
<1>a. PICK sized \in BOOLEAN : sized = TRUE
  OBVIOUS
<1>b. PICK bl, I, g : bl = blocks /\ I = held /\ g = heap'
  OBVIOUS
<1>6. bl = blocks /\ I = held /\ sized = TRUE /\ g = heap'
  BY <1>a, <1>b
<1>7. /\ bl \in BlockTable /\ I \in SUBSET Ids /\ Kempt(package, heap, bl, I, sized) /\ i \in I
      /\ g = PkgFree(heap, bl[i].ptr) /\ Known(heap, bl, I, ranges) /\ I \ {i} \in SUBSET I
  BY <1>1, <1>3, <1>6
<1>8. /\ Kempt(package, g, bl, I \ {i}, sized) /\ (sized => KeepsFilled(heap, g, bl, bl, I \ {i}))
  BY <1>7, FreeKempt
<1>9. TraceInv' /\ ops' \in Seq(OpRecords) /\ at' \in Nat /\ held' \in SUBSET Ids
  <2>1. Requests(held, op, held')
    BY <1>1, <1>4 DEF Requests, Op
  <2>2. pass' = "valid"
    BY <1>1
  <2> QED
    BY <1>1, <1>3, <1>5, <2>1, <2>2, TraceGrows
<1>10. TypeInv'
  BY <1>1, <1>3, <1>9 DEF TypeInv
<1>11. Kempt(package', heap', blocks', held', pass' # "speed")
  <2>1. (pass' # "speed") = sized
    BY <1>1, <1>6
  <2> QED
    BY <1>1, <1>6, <1>8, <2>1
<1>12. CheckInv'
  <2>1. KeepsFilled(heap, g, bl, bl, I \ {i})
    BY <1>6, <1>8
  <2>2. Known(g, bl, I \ {i}, Extents(bl, I \ {i}))
    BY <1>7, <2>1, KnownOn
  <2>3. ranges' = Extents(bl, I \ {i})
    <3>1. PICK prol : Owned(bl, I, prol)
      BY <1>7 DEF Kempt
    <3>2. ranges = Extents(bl, I)
      BY <1>7 DEF Known
    <3> QED
      BY <1>1, <1>6, <1>7, <3>1, <3>2, ExtentsRemoved
  <2>4. Known(heap', blocks', held', ranges') /\ request' = {}
    BY <1>1, <1>6, <2>2, <2>3
  <2> QED
    BY <2>4 DEF CheckInv
<1> QED
  BY <1>1, <1>9, <1>10, <1>11, <1>12 DEF DriverInv

LEMMA IdBytes ==
  ASSUME NEW i \in Ids
  PROVE  Byte(i) = i /\ Char(i) = i
<1>1. i \in 0 .. 127
  BY DriverAssumption
<1> QED
  BY <1>1 DEF Byte, Char

\* The check of a result succeeds: the block is in range, and holds what the
\* old one held.
LEMMA ValidCheckKeeps ==
  ASSUME DriverInv, ValidCheck
  PROVE  DriverInv' /\ errors' = errors /\ pass' = pass
<1>1. pass = "valid" /\ TypeInv /\ TraceInv /\ CheckInv /\ package \in AllPackages
      /\ blocks \in BlockTable /\ held \in SUBSET Ids
  BY DEF DriverInv, ValidCheck, TypeInv
<1>2. Kempt(package, heap, blocks, held, TRUE)
  <2>1. (pass # "speed") = TRUE
    BY <1>1
  <2> QED
    BY <1>1, <2>1 DEF DriverInv, Running
<1>3. PICK q \in request :
        LET b == blocks[q.index]
            known == IF q.type = "REALLOC" THEN remove_range(ranges, q.oldp) ELSE ranges
            kept == IF b.size < q.oldsize THEN b.size ELSE q.oldsize
            inrange == RangeOK(known, b.ptr, b.size)
        IN  /\ ranges' = IF inrange THEN known \cup {Extent(b.ptr, b.size)} ELSE known
            /\ IF inrange /\ Preserved(b.ptr, kept, q.index)
               THEN /\ heap' = memset(heap, b.ptr, b.size, Byte(q.index))
                    /\ request' = {}
                    /\ UNCHANGED <<pass, errors, held>>
               ELSE Failure(heap, held)
            /\ UNCHANGED <<package, spent, ops, at, blocks, total_size, max_total_size>>
  BY DEF ValidCheck
<1>4. PICK i : i = q.index
  OBVIOUS
<1>5. PICK known : known = KnownAt(q, ranges)
  OBVIOUS
<1>6. /\ i \in held /\ i \in Ids /\ q.oldsize \in Nat /\ blocks[i].size \in Nat
      /\ Known(heap, blocks, held \ {i}, known)
      /\ \A n \in Nat : n <= q.oldsize /\ n <= blocks[i].size => Filled(heap, blocks, i, n)
  BY <1>1, <1>3, <1>4, <1>5 DEF CheckInv, BlockTable
<1>7. known = Extents(blocks, held \ {i})
  BY <1>6 DEF Known
<1>8. RangeOK(known, blocks[i].ptr, blocks[i].size)
  BY <1>1, <1>2, <1>6, <1>7, RangeKempt
<1>9. PICK kept : kept = IF blocks[i].size < q.oldsize THEN blocks[i].size ELSE q.oldsize
  OBVIOUS
<1>10. Preserved(blocks[i].ptr, kept, i)
  <2>1. kept \in Nat /\ kept <= q.oldsize /\ kept <= blocks[i].size
    BY <1>6, <1>9
  <2>2. Filled(heap, blocks, i, kept)
    BY <1>6, <2>1
  <2> QED
    BY <1>6, <2>2, IdBytes DEF Filled, Preserved
<1>11. /\ ranges' = known \cup {Extent(blocks[i].ptr, blocks[i].size)}
       /\ heap' = memset(heap, blocks[i].ptr, blocks[i].size, Byte(i))
       /\ request' = {} /\ UNCHANGED <<pass, errors, held>> /\ UNCHANGED <<package, ops, at, blocks>>
  BY <1>3, <1>4, <1>5, <1>8, <1>9, <1>10 DEF KnownAt
<1>12. PICK bl, I, g : bl = blocks /\ I = held /\ g = heap'
  OBVIOUS
<1>13. /\ Kempt(package, g, bl, I, TRUE) /\ KeepsFilled(heap, g, bl, bl, I \ {i})
       /\ Filled(g, bl, i, bl[i].size)
  <2>1. /\ bl \in BlockTable /\ I \in SUBSET Ids /\ Kempt(package, heap, bl, I, TRUE) /\ i \in I
        /\ g = memset(heap, bl[i].ptr, bl[i].size, i)
    BY <1>1, <1>2, <1>6, <1>11, <1>12, IdBytes
  <2> QED
    BY <2>1, FillKempt
<1>14. Kempt(package', heap', blocks', held', pass' # "speed")
  <2>1. (pass' # "speed") = TRUE
    BY <1>1, <1>11
  <2> QED
    BY <1>11, <1>12, <1>13, <2>1
<1>15. CheckInv'
  <2>1. /\ bl \in BlockTable /\ I \in SUBSET Ids /\ I \ {i} \in SUBSET I /\ I \ {i} \in SUBSET Ids /\ i \in I
        /\ Known(heap, bl, I \ {i}, known) /\ KeepsFilled(heap, g, bl, bl, I \ {i})
    BY <1>1, <1>6, <1>12, <1>13
  <2>2. Known(g, bl, I \ {i}, Extents(bl, I \ {i}))
    <3>1. I \ {i} \in SUBSET (I \ {i})
      OBVIOUS
    <3> QED
      BY <2>1, <3>1, KnownOn
  <2>3. Extents(bl, I) = Extents(bl, I \ {i}) \cup {Extent(bl[i].ptr, bl[i].size)}
    <3>1. \A x : x \in Extents(bl, I) <=> x \in Extents(bl, I \ {i}) \cup {Extent(bl[i].ptr, bl[i].size)}
      BY <2>1 DEF Extents
    <3> QED
      BY <3>1
  <2>4. Known(g, bl, I, Extents(bl, I))
    BY <1>13, <2>2 DEF Known
  <2>5. ranges' = Extents(bl, I)
    BY <1>7, <1>11, <1>12, <2>3
  <2>6. Known(heap', blocks', held', ranges')
    BY <1>11, <1>12, <2>4, <2>5
  <2> QED
    BY <1>11, <2>6 DEF CheckInv
<1>16. TypeInv' /\ TraceInv'
  BY <1>1, <1>11 DEF TypeInv, TraceInv
<1> QED
  BY <1>1, <1>11, <1>14, <1>15, <1>16 DEF DriverInv

\* A step of the second or the third pass that the package has served.
LEMMA ReplayedKeeps ==
  ASSUME DriverInv, pass \in {"util", "speed"}, at < Len(ops), at' = at + 1, UNCHANGED <<package, ops, pass, request>>,
         \A J : Requests(held, ops[at + 1], J) => held' = J,
         blocks' \in BlockTable, Kempt(package, heap', blocks', held', pass # "speed")
  PROVE  DriverInv'
<1>1. TypeInv /\ TraceInv /\ request = {}
  BY DEF DriverInv
<1>2. TraceInv' /\ held' \in SUBSET Ids
  BY <1>1, TraceFollowed
<1>3. TypeInv'
  BY <1>1, <1>2 DEF TypeInv
<1> QED
  BY <1>1, <1>2, <1>3 DEF DriverInv

LEMMA ReplayStepKeeps == ASSUME DriverInv, ReplayStep PROVE DriverInv'
<1>1. /\ pass \in {"util", "speed"} /\ at < Len(ops) /\ Replay(ops[at + 1])
      /\ UNCHANGED <<package, ops, request>>
  BY DEF ReplayStep
<1>2. /\ TypeInv /\ TraceInv /\ package \in AllPackages /\ blocks \in BlockTable /\ held \in SUBSET Ids
      /\ request = {} /\ at \in Nat /\ ops \in Seq(OpRecords)
  BY <1>1 DEF DriverInv, TypeInv
<1>3. PICK op : op = ops[at + 1]
  OBVIOUS
<1>4. PICK r : /\ r = Called(op) /\ at' = at + 1 /\ heap' = r.heap
               /\ IF op.type = "FREE"
                  THEN held' = held \ {op.index} /\ UNCHANGED <<pass, blocks>>
                  ELSE IF r.ptr = NULL
                  THEN pass' = "exit" /\ UNCHANGED <<held, blocks>>
                  ELSE /\ blocks' = [blocks EXCEPT ![op.index] =
                                        [ptr |-> r.ptr, size |-> IF pass = "util" THEN op.size ELSE @.size]]
                       /\ held' = held \cup {op.index}
                       /\ UNCHANGED pass
  BY <1>1, <1>3 DEF Replay
<1>5. op \in OpRecords
  BY <1>1, <1>2, <1>3
<1>6. PICK J0 : Requests(held, op, J0)
  <2>1. PICK hs : Trace(ops, hs) /\ held = hs[at]
    BY <1>1, <1>2 DEF TraceInv
  <2>2. at + 1 \in 1 .. Len(ops) /\ (at + 1) - 1 = at
    BY <1>1, <1>2
  <2>3. Requests(held, op, hs[at + 1])
    BY <1>3, <2>1, <2>2 DEF Trace
  <2> QED
    BY <2>3
<1>7. PICK i \in Ids : i = op.index
  BY <1>6 DEF Requests
<1>a. PICK sized \in BOOLEAN : sized = (pass # "speed")
  OBVIOUS
<1>b. PICK bl, I, g : bl = blocks /\ I = held /\ g = heap'
  OBVIOUS
<1>8. /\ bl \in BlockTable /\ I \in SUBSET Ids /\ Kempt(package, heap, bl, I, sized)
  BY <1>1, <1>2, <1>a, <1>b DEF DriverInv, Running
<1>9. ASSUME op.type # "FREE", r.ptr = NULL PROVE DriverInv'
  <2>1. pass' = "exit" /\ UNCHANGED <<held, blocks>>
    BY <1>4, <1>9
  <2>2. TypeInv'
    BY <1>1, <1>2, <1>4, <2>1 DEF TypeInv
  <2> QED
    BY <1>1, <1>2, <2>1, <2>2 DEF DriverInv, TraceInv, Running
<1>10. ASSUME op.type = "FREE" PROVE DriverInv'
  <2>1. i \in I /\ held' = I \ {i} /\ UNCHANGED <<pass, blocks>> /\ g = PkgFree(heap, bl[i].ptr)
    <3>1. i \in I
      BY <1>6, <1>7, <1>10, <1>b DEF Requests
    <3>2. r.heap = PkgFree(heap, bl[i].ptr)
      BY <1>4, <1>7, <1>10, <1>b DEF Called, Result
    <3> QED
      BY <1>4, <1>7, <1>10, <1>b, <3>1, <3>2
  <2>2. Kempt(package, g, bl, I \ {i}, sized)
    <3>1. /\ bl \in BlockTable /\ I \in SUBSET Ids /\ Kempt(package, heap, bl, I, sized) /\ i \in I
          /\ g = PkgFree(heap, bl[i].ptr)
      BY <1>8, <2>1
    <3>2. /\ Kempt(package, g, bl, I \ {i}, sized)
          /\ sized => KeepsFilled(heap, g, bl, bl, I \ {i})
      BY <3>1, FreeKempt
    <3> QED
      BY <3>2
  <2>3. Kempt(package, heap', blocks', held', pass # "speed") /\ blocks' \in BlockTable
    BY <1>8, <1>a, <1>b, <2>1, <2>2
  <2>4. \A J : Requests(held, ops[at + 1], J) => held' = J
    BY <1>3, <1>7, <1>10, <1>b, <2>1 DEF Requests
  <2> QED
    BY <1>1, <1>4, <2>1, <2>3, <2>4, ReplayedKeeps
<1>11. ASSUME op.type # "FREE", r.ptr # NULL PROVE DriverInv'
  <2>1. PICK z \in Nat : z = IF pass = "util" THEN op.size ELSE bl[i].size
    BY <1>5, <1>8 DEF OpRecords, BlockTable
  <2>2. PICK bl2 : bl2 = blocks'
    OBVIOUS
  <2>3. /\ held' = I \cup {i} /\ UNCHANGED pass /\ bl2 = [bl EXCEPT ![i] = [ptr |-> r.ptr, size |-> z]]
    BY <1>4, <1>7, <1>11, <1>b, <2>1, <2>2
  <2>4. Entered(bl, bl2, i, r.ptr, z)
    BY <2>3 DEF Entered
  <2>5. PICK size \in Sizes : size = op.size
    BY <1>6, <1>11 DEF Requests
  <2>6. sized => z = size
    BY <1>1, <1>a, <2>1, <2>5
  <2>7. CASE op.type = "ALLOC"
    <3>1. i \in Ids \ I
      BY <1>6, <1>7, <1>b, <2>7 DEF Requests
    <3>2. r = PkgMalloc(heap, size)
      BY <1>4, <2>5, <2>7 DEF Called
    <3>3. MallocDone(heap, r.heap, bl, bl2, I, i, sized)
      BY <1>8, <1>11, <2>4, <2>6, <3>1, <3>2, MallocKempt
    <3>4. Kempt(package, heap', blocks', held', pass # "speed") /\ blocks' \in BlockTable
      BY <1>4, <1>a, <1>b, <2>2, <2>3, <3>3 DEF MallocDone
    <3>5. \A J : Requests(held, ops[at + 1], J) => held' = J
      BY <1>3, <1>7, <1>b, <2>3, <2>7 DEF Requests
    <3> QED
      BY <1>1, <1>4, <2>3, <3>4, <3>5, ReplayedKeeps
  <2>8. CASE op.type = "REALLOC"
    <3>1. i \in I /\ held' = I
      BY <1>6, <1>7, <1>b, <2>3, <2>8 DEF Requests
    <3>2. r = PkgRealloc(heap, bl[i].ptr, size)
      BY <1>4, <1>7, <1>b, <2>5, <2>8 DEF Called
    <3>3. ReallocDone(heap, r.heap, bl, bl2, I, i, sized)
      BY <1>2, <1>8, <1>11, <2>4, <2>6, <3>1, <3>2, ReallocKempt
    <3>4. Kempt(package, heap', blocks', held', pass # "speed") /\ blocks' \in BlockTable
      BY <1>4, <1>a, <1>b, <2>2, <3>1, <3>3 DEF ReallocDone
    <3>5. \A J : Requests(held, ops[at + 1], J) => held' = J
      BY <1>3, <1>7, <1>b, <2>8, <3>1 DEF Requests
    <3> QED
      BY <1>1, <1>4, <2>3, <3>4, <3>5, ReplayedKeeps
  <2> QED
    BY <1>6, <1>11, <2>7, <2>8 DEF Requests
<1> QED
  BY <1>9, <1>10, <1>11

LEMMA StutterKeeps == ASSUME DriverInv, UNCHANGED vars PROVE DriverInv'
<1>1. UNCHANGED <<package, heap, pass, ops, at, held, blocks, request, ranges>>
  BY DEF vars
<1>2. TypeInv' /\ TraceInv' /\ (pass = "valid" => CheckInv')
  BY <1>1 DEF DriverInv, TypeInv, TraceInv, CheckInv
<1>3. Running' = Running
  BY <1>1 DEF Running
<1> QED
  BY <1>1, <1>2, <1>3 DEF DriverInv

LEMMA NextKeeps == ASSUME DriverInv, [Next]_vars PROVE DriverInv'
<1>1. CASE UNCHANGED vars
  BY <1>1, StutterKeeps
<1>2. ASSUME NEW i \in Ids, NEW size \in Sizes, ValidAlloc(i, size) \/ ValidRealloc(i, size) PROVE DriverInv'
  BY <1>2, ValidAllocKeeps, ValidReallocKeeps
<1>3. ASSUME NEW i \in Ids, ValidFree(i) PROVE DriverInv'
  BY <1>3, ValidFreeKeeps
<1> QED
  BY <1>1, <1>2, <1>3, StartValidKeeps, StartUtilKeeps, StartSpeedKeeps, EndTraceKeeps, NextTraceKeeps,
     ValidCheckKeeps, ReplayStepKeeps DEF Next

\* Whatever the driver asks of a package, the heap is tiled by blocks of which
\* exactly the trace's are allocated, and the packages with a free list have
\* the others in it (mm_init, mm_malloc, mm_free and mm_realloc of the four
\* packages, and the passes of the driver over one trace after the other).
THEOREM DriverInvariance == Spec => []DriverInv
<1>1. Init => DriverInv
  BY InitKeeps
<1>2. DriverInv /\ [Next]_vars => DriverInv'
  BY NextKeeps
<1> QED
  BY <1>1, <1>2, PTL DEF Spec

-----------------------------------------------------------------------------
(* What the tags say of a tiled heap.                                      *)

Below(h, D, x) == {y \in D : h.prol < y /\ y < x}
Visit(h, D, x) == [at |-> x, seen |-> Below(h, D, x)]
Steps(h, sz, x) == IF x = h.brk THEN x ELSE x + sz[x]

LEMMA WalkSteps ==
  ASSUME NEW h, NEW D, NEW sz, NEW al, Tiled(h, D, sz, al), NEW x \in (D \cup {h.brk}) \ {h.prol}
  PROVE  /\ Walk(h, Visit(h, D, x)) = Visit(h, D, Steps(h, sz, x))
         /\ Steps(h, sz, x) \in (D \cup {h.brk}) \ {h.prol}
         /\ x = h.brk \/ Steps(h, sz, x) >= x + 8
<1>1. TiledIs(h, D, sz, al)
  BY TiledFacts
<1>2. PICK w : w = Visit(h, D, x)
  OBVIOUS
<1>3. w.at = x /\ w.seen = Below(h, D, x)
  BY <1>2 DEF Visit
<1>4. h.brk \in Nat /\ h.prol \in Nat /\ h.prol \in D
  BY <1>1 DEF TiledIs
<1>5. CASE x = h.brk
  <2>1. Walk(h, w) = w
    BY <1>3, <1>4, <1>5 DEF Walk
  <2> QED
    BY <1>2, <1>5, <2>1 DEF Steps
<1>6. CASE x # h.brk
  <2>1. /\ x \in D /\ x \in Nat /\ h.prol <= x /\ x < h.brk /\ sz[x] \in Nat /\ sz[x] >= 8
        /\ x + sz[x] \in D \cup {h.brk} /\ Reads(h, sz, al, x)
    BY <1>1, <1>6 DEF TiledIs
  <2>2. GET_SIZE(h, HDRP(x)) = sz[x] /\ NEXT_BLKP(h, x) = x + sz[x]
    BY <2>1 DEF Reads
  <2>3. Walk(h, w) = [at |-> x + sz[x], seen |-> Below(h, D, x) \cup {x}]
    BY <1>3, <1>4, <2>1, <2>2 DEF Walk
  <2>4. Below(h, D, x + sz[x]) = Below(h, D, x) \cup {x}
    <3>1. ASSUME NEW y \in D PROVE y < x + sz[x] <=> y < x \/ y = x
      <4>1. y \in Nat /\ (x < y => x + sz[x] <= y)
        BY <1>1, <2>1 DEF TiledIs
      <4> QED
        BY <2>1, <4>1
    <3>2. h.prol < x
      BY <1>4, <2>1
    <3> QED
      BY <2>1, <3>1, <3>2 DEF Below
  <2>5. Steps(h, sz, x) = x + sz[x]
    BY <1>6 DEF Steps
  <2>6. x + sz[x] # h.prol /\ x + sz[x] >= x + 8
    BY <1>4, <2>1
  <2> QED
    BY <1>2, <2>1, <2>3, <2>4, <2>5, <2>6 DEF Visit
<1> QED
  BY <1>5, <1>6

\* Blocks finds the blocks of the layout.
LEMMA BlocksAre ==
  ASSUME NEW h, NEW D, NEW sz, NEW al, Tiled(h, D, sz, al)
  PROVE  Blocks(h) = D \ {h.prol}
<1>1. TiledIs(h, D, sz, al)
  BY TiledFacts
<1>2. PICK N \in Nat : N = HeapUnits /\ 8 * N + 4 >= MAX_HEAP
  BY MemAssumption DEF HeapUnits, DSIZE
<1>3. PICK X : X = (D \cup {h.brk}) \ {h.prol}
  OBVIOUS
<1>4. PICK x0 \in X : x0 = NEXT_BLKP(h, h.prol) /\ Below(h, D, x0) = {} /\ x0 >= Start + 16
  <2>1. /\ h.prol \in D /\ h.prol \in Nat /\ sz[h.prol] \in Nat /\ sz[h.prol] >= 8 /\ h.prol = Start + 8
        /\ h.prol + sz[h.prol] \in D \cup {h.brk} /\ Reads(h, sz, al, h.prol)
    BY <1>1 DEF TiledIs
  <2>2. NEXT_BLKP(h, h.prol) = h.prol + sz[h.prol]
    BY <2>1 DEF Reads
  <2>3. h.prol + sz[h.prol] # h.prol /\ h.prol + sz[h.prol] >= Start + 16
    BY <2>1, MemAssumption
  <2>4. ASSUME NEW y \in D PROVE ~(h.prol < y /\ y < h.prol + sz[h.prol])
    <3>1. y \in Nat /\ (h.prol < y => h.prol + sz[h.prol] <= y)
      BY <1>1, <2>1 DEF TiledIs
    <3> QED
      BY <2>1, <3>1
  <2>5. Below(h, D, h.prol + sz[h.prol]) = {}
    BY <2>4 DEF Below
  <2> QED
    BY <1>3, <2>1, <2>2, <2>3, <2>5
<1>5. ASSUME NEW x \in X
      PROVE  /\ Walk(h, Visit(h, D, x)) = Visit(h, D, Steps(h, sz, x)) /\ Steps(h, sz, x) \in X
             /\ x = h.brk \/ Steps(h, sz, x) >= x + 8
  BY <1>3, WalkSteps
<1> DEFINE Fits(g) == g = [k \in 0 .. HeapUnits |-> IF k = 0 THEN [at |-> NEXT_BLKP(h, h.prol), seen |-> {}]
                                                    ELSE Walk(h, g[k - 1])]
<1>6. \E f : Fits(f)
  <2>1. PICK G : G = [x \in X |-> Steps(h, sz, x)]
    OBVIOUS
  <2>2. G \in [X -> X]
    BY <1>5, <2>1
  <2>3. PICK f \in [0 .. N -> X] : f[0] = x0 /\ \A k \in 1 .. N : f[k] = G[f[k - 1]]
    <3>1. \E f : Loops(f, N, X, x0, G)
      BY <2>2, LoopExists, Zenon
    <3> QED
      BY <3>1 DEF Loops
  <2>4. PICK v : v = [k \in 0 .. N |-> Visit(h, D, f[k])]
    OBVIOUS
  <2>5. ASSUME NEW k \in 0 .. N
        PROVE  v[k] = IF k = 0 THEN [at |-> NEXT_BLKP(h, h.prol), seen |-> {}] ELSE Walk(h, v[k - 1])
    <3>1. CASE k = 0
      BY <1>4, <2>3, <2>4, <3>1 DEF Visit
    <3>2. CASE k # 0
      <4>1. k \in 1 .. N /\ k - 1 \in 0 .. N
        BY <3>2
      <4>2. PICK x \in X : x = f[k - 1]
        BY <4>1
      <4>3. f[k] = Steps(h, sz, x)
        BY <2>1, <2>3, <4>1, <4>2
      <4> QED
        BY <1>5, <2>4, <3>2, <4>1, <4>2, <4>3
    <3> QED
      BY <3>1, <3>2
  <2>6. v = [k \in 0 .. N |-> v[k]]
    BY <2>4
  <2>7. Fits(v)
    BY <1>2, <2>5, <2>6
  <2> QED
    BY <2>7
<1>7. PICK g : g = CHOOSE w : Fits(w)
  OBVIOUS
<1>8. Fits(g)
  BY <1>6, <1>7
<1>9. Blocks(h) = g[N].seen
  BY <1>2, <1>7 DEF Blocks
<1>10. g[0] = Visit(h, D, x0) /\ \A k \in 1 .. N : g[k] = Walk(h, g[k - 1])
  <2>1. g = [k \in 0 .. N |-> IF k = 0 THEN [at |-> NEXT_BLKP(h, h.prol), seen |-> {}] ELSE Walk(h, g[k - 1])]
    BY <1>2, <1>8
  <2>2. 0 \in 0 .. N /\ g[0] = [at |-> NEXT_BLKP(h, h.prol), seen |-> {}]
    BY <2>1
  <2>3. ASSUME NEW k \in 1 .. N PROVE g[k] = Walk(h, g[k - 1])
    <3>1. k \in 0 .. N /\ k # 0
      OBVIOUS
    <3>2. PICK w, w0 : w = Walk(h, g[k - 1]) /\ w0 = [at |-> NEXT_BLKP(h, h.prol), seen |-> {}]
      OBVIOUS
    <3>3. g[k] = IF k = 0 THEN w0 ELSE w
      BY <2>1, <3>1, <3>2, Zenon
    <3> QED
      BY <3>1, <3>2, <3>3
  <2> QED
    BY <1>4, <2>2, <2>3 DEF Visit
<1> HIDE DEF Fits
<1>11. PICK S : S = {k \in 0 .. N : \E x \in X : g[k] = Visit(h, D, x) /\ (x = h.brk \/ x >= Start + 16 + 8 * k)}
  OBVIOUS
<1>12. 0 \in S
  BY <1>4, <1>10, <1>11, MemAssumption
<1>13. ASSUME NEW k \in 1 .. N, k - 1 \in S PROVE k \in S
  <2>1. PICK x \in X : g[k - 1] = Visit(h, D, x) /\ (x = h.brk \/ x >= Start + 16 + 8 * (k - 1))
    BY <1>11, <1>13
  <2>2. g[k] = Visit(h, D, Steps(h, sz, x)) /\ Steps(h, sz, x) \in X
    BY <1>5, <1>10, <2>1
  <2>3. CASE x = h.brk
    <3>1. Steps(h, sz, x) = h.brk
      BY <2>3 DEF Steps
    <3> QED
      BY <1>11, <2>2, <3>1
  <2>4. CASE x # h.brk
    <3>1. PICK y \in X : y = Steps(h, sz, x)
      BY <2>2
    <3>2. x \in Nat /\ y \in Nat /\ y >= x + 8 /\ x >= Start + 16 + 8 * (k - 1)
      BY <1>1, <1>3, <1>5, <2>1, <2>4, <3>1 DEF TiledIs
    <3>3. y >= Start + 16 + 8 * k
      BY <3>2, MemAssumption
    <3> QED
      BY <1>11, <2>2, <3>1, <3>3
  <2> QED
    BY <2>3, <2>4
<1>14. \A k \in 0 .. N : k \in S
  BY <1>12, <1>13, Stepwise, Zenon
<1>15. PICK x \in X : g[N] = Visit(h, D, x) /\ (x = h.brk \/ x >= Start + 16 + 8 * N)
  <2>1. N \in S
    BY <1>14
  <2> QED
    BY <1>11, <2>1
<1>16. x = h.brk
  <2>1. x \in Nat /\ x <= h.brk /\ h.brk \in Nat /\ h.brk <= Start + MAX_HEAP
    BY <1>1, <1>3 DEF TiledIs
  <2>2. ~(x >= Start + 16 + 8 * N)
    BY <1>2, <2>1, MemAssumption
  <2> QED
    BY <1>15, <2>2
<1>17. Blocks(h) = Below(h, D, h.brk)
  BY <1>9, <1>15, <1>16 DEF Visit
<1>18. Below(h, D, h.brk) = D \ {h.prol}
  <2>1. ASSUME NEW y \in D PROVE h.prol < y /\ y < h.brk <=> y # h.prol
    <3>1. y \in Nat /\ h.prol \in Nat /\ h.prol <= y /\ y < h.brk
      BY <1>1 DEF TiledIs
    <3> QED
      BY <3>1
  <2> QED
    BY <2>1 DEF Below
<1> QED
  BY <1>17, <1>18

LEMMA FreeBlocksAre ==
  ASSUME NEW h, NEW D, NEW sz, NEW al, Tiled(h, D, sz, al)
  PROVE  FreeBlocks(h) = D \ al
<1>1. TiledIs(h, D, sz, al)
  BY TiledFacts
<1>2. ASSUME NEW x \in D PROVE IsFree(h, x) <=> x \notin al
  <2>1. Reads(h, sz, al, x)
    BY <1>1 DEF TiledIs
  <2> QED
    BY <2>1 DEF Reads, IsFree
<1>3. h.prol \in al
  BY <1>1 DEF TiledIs
<1> QED
  BY <1>2, <1>3, BlocksAre DEF FreeBlocks

\* The list has as many steps as there are free blocks.
LEMMA ChainLength ==
  ASSUME NEW h, NEW F, NEW n, NEW s, Chain(h, F, n, s)
  PROVE  n \in Nat /\ Cardinality(F) = n
<1>1. /\ n \in Nat /\ \A k \in 0 .. n - 1 : s[k] \in F
      /\ \A x \in F : \E k \in 0 .. n - 1 : s[k] = x
      /\ \A j, k \in 0 .. n : s[j] = s[k] => j = k
  BY DEF Chain
<1>2. PICK t : t = [k \in 1 .. n |-> s[k - 1]]
  OBVIOUS
<1>3. ASSUME NEW k \in 1 .. n PROVE k - 1 \in 0 .. n - 1 /\ k - 1 \in 0 .. n /\ t[k] = s[k - 1] /\ t[k] \in F
  <2>1. k - 1 \in 0 .. n - 1 /\ k - 1 \in 0 .. n
    BY <1>1
  <2> QED
    BY <1>1, <1>2, <2>1
<1>4. t \in [1 .. n -> F] /\ DOMAIN t = 1 .. n
  BY <1>2, <1>3
<1>5. ASSUME NEW j \in 1 .. n, NEW k \in 1 .. n, t[j] = t[k] PROVE j = k
  <2>1. j - 1 = k - 1
    BY <1>1, <1>3, <1>5
  <2> QED
    BY <2>1
<1>6. ASSUME NEW x \in F PROVE \E k \in 1 .. n : t[k] = x
  <2>1. PICK k \in 0 .. n - 1 : s[k] = x
    BY <1>1
  <2>2. k + 1 \in 1 .. n /\ (k + 1) - 1 = k
    BY <1>1
  <2> QED
    BY <1>2, <2>1, <2>2
<1>7. t \in Bijection(1 .. n, F)
  <2>1. t \in Injection(1 .. n, F)
    BY <1>4, <1>5 DEF Injection, IsInjective
  <2>2. t \in Surjection(1 .. n, F)
    BY <1>4, <1>6 DEF Surjection
  <2> QED
    BY <2>1, <2>2 DEF Bijection
<1>8. ExistsBijection(1 .. n, F)
  BY <1>7 DEF ExistsBijection
<1> QED
  BY <1>1, <1>8, FS_CountingElements, Zenon

\* The heap of a running pass, for the properties.
LEMMA RunningHeap ==
  ASSUME DriverInv, Running
  PROVE  \E D, sz, al : /\ al = {heap.prol} \cup Ptrs(blocks, held) /\ PkgHeap(package, heap, D, sz, al)
                        /\ Owned(blocks, held, heap.prol) /\ (pass # "speed" => Roomy(blocks, held, sz))
                        /\ Tiled(heap, D, sz, al) /\ TiledIs(heap, D, sz, al) /\ Blocks(heap) = D \ {heap.prol}
                        /\ FreeBlocks(heap) = D \ al
<1>1. PICK D, sz, al : /\ al = {heap.prol} \cup Ptrs(blocks, held) /\ PkgHeap(package, heap, D, sz, al)
                       /\ Owned(blocks, held, heap.prol) /\ (pass # "speed" => Roomy(blocks, held, sz))
  BY DEF DriverInv, Kempt
<1>2. Tiled(heap, D, sz, al)
  BY <1>1 DEF PkgHeap
<1>3. TiledIs(heap, D, sz, al)
  BY <1>2, TiledFacts
<1>4. Blocks(heap) = D \ {heap.prol} /\ FreeBlocks(heap) = D \ al
  BY <1>2, BlocksAre, FreeBlocksAre
<1> QED
  BY <1>1, <1>2, <1>3, <1>4

LEMMA TiledHolds == DriverInv => HeapTiled
<1> SUFFICES ASSUME DriverInv, Running PROVE HeapTiled
  BY DEF HeapTiled
<1>1. PICK D, sz, al : TiledIs(heap, D, sz, al) /\ Blocks(heap) = D \ {heap.prol}
  BY RunningHeap
<1>2. Blocks(heap) \cup {heap.prol} = D
  BY <1>1 DEF TiledIs
<1>3. ASSUME NEW bp \in D PROVE GET(heap, HDRP(bp)) = GET(heap, FTRP(heap, bp)) /\ NEXT_BLKP(heap, bp) = bp + sz[bp]
  <2>1. FTRP(heap, bp) = bp + sz[bp] - 8 /\ NEXT_BLKP(heap, bp) = bp + sz[bp]
    BY <1>1 DEF TiledIs, Reads
  <2>2. heap.mem[bp - 4] = heap.mem[bp + sz[bp] - 8]
    BY <1>1 DEF TiledIs, Tagged
  <2> QED
    BY <2>1, <2>2 DEF GET, HDRP, WSIZE
<1>4. heap.brk \in {NEXT_BLKP(heap, bp) : bp \in D}
  <2>1. PICK x \in D : x + sz[x] = heap.brk
    BY <1>1 DEF TiledIs, Layout
  <2> QED
    BY <1>3, <2>1
<1>5. GET(heap, HDRP(heap.brk)) = PACK(0, 1)
  BY <1>1 DEF TiledIs, Tagged, GET, HDRP, WSIZE, PACK
<1> QED
  BY <1>2, <1>3, <1>4, <1>5 DEF HeapTiled

LEMMA NeighboursHold == DriverInv => NoFreeNeighbours
<1> SUFFICES ASSUME DriverInv, Running PROVE NoFreeNeighbours
  BY DEF NoFreeNeighbours
<1>1. PICK D, sz, al : TiledIs(heap, D, sz, al) /\ FreeBlocks(heap) = D \ al /\ Apart(D, sz, al)
  BY RunningHeap DEF PkgHeap
<1>2. ASSUME NEW bp \in D \ al PROVE NEXT_BLKP(heap, bp) \notin D \ al
  BY <1>1 DEF TiledIs, Reads, Apart
<1> QED
  BY <1>1, <1>2 DEF NoFreeNeighbours

LEMMA NothingLeaksHolds == DriverInv => NothingLeaks
<1> SUFFICES ASSUME DriverInv, Running PROVE NothingLeaks
  BY DEF NothingLeaks
<1>1. PICK D, sz, al : /\ al = {heap.prol} \cup Ptrs(blocks, held)
                       /\ Owned(blocks, held, heap.prol) /\ (pass # "speed" => Roomy(blocks, held, sz))
                       /\ TiledIs(heap, D, sz, al) /\ Blocks(heap) = D \ {heap.prol}
                       /\ FreeBlocks(heap) = D \ al
  BY RunningHeap
<1>2. Blocks(heap) \ FreeBlocks(heap) = {blocks[i].ptr : i \in held}
  <2>1. Blocks(heap) \ FreeBlocks(heap) = al \ {heap.prol}
    BY <1>1 DEF TiledIs
  <2>2. heap.prol \notin Ptrs(blocks, held)
    BY <1>1 DEF Ptrs, Owned
  <2> QED
    BY <1>1, <2>1, <2>2 DEF Ptrs
<1>3. \A i, j \in held : blocks[i].ptr = blocks[j].ptr => i = j
  BY <1>1 DEF Owned
<1>4. ASSUME pass # "speed", NEW i \in held
      PROVE  blocks[i].size <= GET_SIZE(heap, HDRP(blocks[i].ptr)) - DSIZE
  <2>1. PICK p \in D : p = blocks[i].ptr
    BY <1>1 DEF TiledIs, Ptrs
  <2>2. sz[p] \in Nat /\ GET_SIZE(heap, HDRP(p)) = sz[p]
    BY <1>1 DEF TiledIs, Reads
  <2>3. blocks[i].size \in Nat
    BY DEF DriverInv, TypeInv, BlockTable
  <2>4. blocks[i].size + 8 <= sz[p]
    BY <1>1, <1>4, <2>1 DEF Roomy
  <2> QED
    BY <2>1, <2>2, <2>3, <2>4 DEF DSIZE
<1> QED
  BY <1>2, <1>3, <1>4 DEF NothingLeaks

LEMMA ListHolds == DriverInv => FreeListExact
<1> SUFFICES ASSUME DriverInv, Running, package # "implicit" PROVE FreeListExact
  BY DEF FreeListExact
<1>1. PICK F, n, s : FreeBlocks(heap) = F /\ Chain(heap, F, n, s)
  BY RunningHeap DEF PkgHeap, Linked
<1>2. n \in Nat /\ Cardinality(F) = n
  BY <1>1, ChainLength
<1> DEFINE Fits(g) == g = [k \in 0 .. Cardinality(FreeBlocks(heap)) |->
                              IF k = 0 THEN heap.root ELSE GET(heap, SUCCP(g[k - 1]))]
<1>3. ASSUME NEW k \in 1 .. n
      PROVE  heap.mem[s[k - 1]] = s[k] /\ heap.mem[s[k] + 4] = s[k - 1] /\ k \in 0 .. n /\ k - 1 \in 0 .. n - 1
  <2>1. k - 1 \in 0 .. n - 1 /\ (k - 1) + 1 = k
    BY <1>2
  <2>2. heap.mem[s[k - 1]] = s[(k - 1) + 1] /\ heap.mem[s[(k - 1) + 1] + 4] = s[k - 1]
    BY <1>1, <2>1 DEF Chain
  <2> QED
    BY <1>2, <2>1, <2>2
<1>4. Fits(s)
  <2>1. ASSUME NEW k \in 0 .. n PROVE s[k] = IF k = 0 THEN heap.root ELSE GET(heap, SUCCP(s[k - 1]))
    <3>1. CASE k = 0
      BY <1>1, <3>1 DEF Chain
    <3>2. CASE k # 0
      <4>1. k \in 1 .. n
        BY <1>2, <3>2
      <4> QED
        BY <1>3, <3>2, <4>1 DEF GET, SUCCP
    <3> QED
      BY <3>1, <3>2
  <2>2. s = [k \in 0 .. n |-> s[k]]
    BY <1>1 DEF Chain
  <2> QED
    BY <1>1, <1>2, <2>1, <2>2
<1>5. PICK g : g = CHOOSE w : Fits(w)
  OBVIOUS
<1>6. Fits(g)
  BY <1>4, <1>5
<1>7. g = [k \in 0 .. n |-> IF k = 0 THEN heap.root ELSE heap.mem[g[k - 1]]]
  BY <1>1, <1>2, <1>6 DEF GET, SUCCP
<1>8. \A k \in 0 .. n : g[k] = s[k]
  <2>1. g[0] = s[0]
    BY <1>1, <1>2, <1>7 DEF Chain
  <2>2. ASSUME NEW k \in 1 .. n, g[k - 1] = s[k - 1] PROVE g[k] = s[k]
    <3>1. k \in 0 .. n /\ k # 0
      BY <1>2
    <3>2. g[k] = heap.mem[g[k - 1]]
      BY <1>7, <3>1
    <3> QED
      BY <1>3, <2>2, <3>2
  <2>3. EqualSteps(g, s, n)
    BY <2>1, <2>2 DEF EqualSteps
  <2> QED
    BY <1>2, <2>3, StepwiseEqual, Zenon
<1>9. FreeListExact <=> /\ {g[k] : k \in 0 .. n - 1} = F /\ g[n] = heap.prol
                        /\ n > 0 => GET(heap, PREDP(g[0])) = NULL
                        /\ \A k \in 1 .. n : GET(heap, PREDP(g[k])) = g[k - 1]
  BY <1>1, <1>2, <1>5 DEF FreeListExact
<1> HIDE DEF Fits
<1>10. {g[k] : k \in 0 .. n - 1} = F
  <2>1. ASSUME NEW k \in 0 .. n - 1 PROVE g[k] \in F
    BY <1>1, <1>2, <1>8 DEF Chain
  <2>2. ASSUME NEW x \in F PROVE \E k \in 0 .. n - 1 : g[k] = x
    <3>1. PICK k \in 0 .. n - 1 : s[k] = x
      BY <1>1 DEF Chain
    <3>2. k \in 0 .. n
      BY <1>2
    <3> QED
      BY <1>8, <3>1, <3>2
  <2> QED
    BY <2>1, <2>2
<1>11. g[n] = heap.prol /\ (n > 0 => GET(heap, PREDP(g[0])) = NULL)
  BY <1>1, <1>2, <1>8 DEF Chain, GET, PREDP, WSIZE
<1>12. ASSUME NEW k \in 1 .. n PROVE GET(heap, PREDP(g[k])) = g[k - 1]
  <2>1. k \in 0 .. n /\ k - 1 \in 0 .. n
    BY <1>2
  <2> QED
    BY <1>3, <1>8, <2>1 DEF GET, PREDP, WSIZE
<1> QED
  BY <1>9, <1>10, <1>11, <1>12

-----------------------------------------------------------------------------
(* The properties.                                                         *)

\* In every reachable state of a pass the blocks lie one behind the other from
\* the prologue to the epilogue at the break, with equal tags at both ends.
THEOREM HeapAlwaysTiled == Spec => []HeapTiled
BY DriverInvariance, TiledHolds, PTL

\* No two free blocks are ever neighbours between two calls: coalesce misses
\* none, and the case of mm_realloc that does not call it leaves none.
THEOREM FreeBlocksApart == Spec => []NoFreeNeighbours
BY DriverInvariance, NeighboursHold, PTL

\* The doubly linked list from root_bp to the prologue always has exactly the
\* free blocks (set_root and cut_out in coalesce, place and mm_realloc).
THEOREM FreeListAlwaysExact == Spec => []FreeListExact
BY DriverInvariance, ListHolds, PTL

\* The allocated blocks are always exactly those that the trace holds, each
\* index its own, with room for the size it asked for, also after a request
\* that failed.
THEOREM NeverLeaks == Spec => []NothingLeaks
BY DriverInvariance, NothingLeaksHolds, PTL

LEMMA CheckSucceeds ==
  ASSUME DriverInv, [Next]_vars, request # {}
  PROVE  errors' = errors
<1>1. pass = "valid"
  BY DEF DriverInv
<1>2. CASE UNCHANGED vars
  BY <1>2 DEF vars
<1>3. CASE ValidCheck
  BY <1>3, ValidCheckKeeps
<1>4. CASE Next /\ ~ValidCheck
  BY <1>1, <1>4 DEF Next, StartValid, StartUtil, StartSpeed, EndTrace, NextTrace, ValidAlloc, ValidRealloc, ValidFree,
     ReplayStep
<1> QED
  BY <1>2, <1>3, <1>4

\* The checks of eval_mm_valid never fail: a block that mm_malloc or mm_realloc
\* returns is aligned, inside the heap and clear of all known payloads, and
\* holds what the old block held.
THEOREM ChecksAlwaysPass == Spec => ChecksPass
<1>1. DriverInv /\ [Next]_vars => [request # {} => errors' = errors]_vars
  BY CheckSucceeds
<1> QED
  BY <1>1, DriverInvariance, PTL DEF Spec, ChecksPass

-----------------------------------------------------------------------------
(* The packages implement an allocator.                                    *)

LEMMA SizesKept ==
  ASSUME DriverInv, SizesInv, [Next]_vars
  PROVE  SizesInv'
<1> SUFFICES ASSUME pass' \in {"valid", "failed"}, NEW j \in held' PROVE blocks'[j].size \in Sizes
  BY DEF SizesInv
<1>1. blocks \in BlockTable
  BY DEF DriverInv, TypeInv
<1>2. CASE UNCHANGED vars
  BY <1>2 DEF vars, SizesInv
<1>3. CASE StartValid \/ StartUtil \/ StartSpeed \/ EndTrace \/ NextTrace
  BY <1>3 DEF StartValid, StartUtil, StartSpeed, EndTrace, NextTrace, StartPass
<1>4. ASSUME NEW i \in Ids, NEW size \in Sizes, ValidAlloc(i, size) PROVE blocks'[j].size \in Sizes
  <2>1. pass = "valid" /\ \A k \in held : blocks[k].size \in Sizes
    BY <1>4 DEF ValidAlloc, SizesInv
  <2>2. CASE held' = held /\ blocks' = blocks
    BY <2>1, <2>2
  <2>3. ASSUME NEW p, blocks' = [blocks EXCEPT ![i] = [ptr |-> p, size |-> size]], held' = held \cup {i}
        PROVE  blocks'[j].size \in Sizes
    BY <1>1, <2>1, <2>3 DEF BlockTable
  <2> QED
    BY <1>4, <2>2, <2>3 DEF ValidAlloc, Failure
<1>5. ASSUME NEW i \in Ids, NEW size \in Sizes, ValidRealloc(i, size) PROVE blocks'[j].size \in Sizes
  <2>1. pass = "valid" /\ \A k \in held : blocks[k].size \in Sizes
    BY <1>5 DEF ValidRealloc, SizesInv
  <2>2. CASE held' \subseteq held /\ blocks' = blocks
    BY <2>1, <2>2
  <2>3. ASSUME NEW p, blocks' = [blocks EXCEPT ![i] = [ptr |-> p, size |-> size]], held' = held
        PROVE  blocks'[j].size \in Sizes
    BY <1>1, <2>1, <2>3 DEF BlockTable
  <2>4. HeldAfterNull(i, size) \subseteq held
    BY DEF HeldAfterNull
  <2> QED
    BY <1>5, <2>2, <2>3, <2>4 DEF ValidRealloc, Failure
<1>6. ASSUME NEW i \in Ids, ValidFree(i) PROVE blocks'[j].size \in Sizes
  BY <1>6 DEF ValidFree, SizesInv
<1>7. CASE ValidCheck
  <2>1. pass = "valid"
    BY <1>7 DEF DriverInv, ValidCheck
  <2>2. held' = held /\ blocks' = blocks
    BY <1>7 DEF ValidCheck, Failure
  <2> QED
    BY <2>1, <2>2 DEF SizesInv
<1>8. CASE ReplayStep
  BY <1>8 DEF ReplayStep, Replay
<1> QED
  BY <1>2, <1>3, <1>4, <1>5, <1>6, <1>7, <1>8 DEF Next

Data(h, bl, i) == [k \in 1 .. bl[i].size \div 4 |-> h.mem[bl[i].ptr + 4 * (k - 1)]]
Holdings(h, bl, I) == [i \in I |-> [lo |-> bl[i].ptr, data |-> Data(h, bl, i)]]

\* Where the block of index i is.
LEMMA HeldBlock ==
  ASSUME NEW h, NEW bl \in BlockTable, NEW I \in SUBSET Ids, Kempt(package, h, bl, I, TRUE), NEW i \in I
  PROVE  /\ bl[i].ptr \in Nat /\ bl[i].size \in Nat /\ bl[i].size > 0 /\ bl[i].ptr % 8 = 0
         /\ Start <= bl[i].ptr /\ bl[i].ptr + bl[i].size <= Start + MAX_HEAP
         /\ \A j \in I \ {i} : /\ bl[j].ptr \in Nat /\ bl[j].size \in Nat
                               /\ bl[i].ptr + bl[i].size <= bl[j].ptr \/ bl[j].ptr + bl[j].size <= bl[i].ptr
         /\ \A o \in Nat : o % 4 = 0 /\ o < bl[i].size => bl[i].ptr + o \in Payload(bl[i].ptr, bl[i].size)
<1>1. PICK D, sz, al : /\ al = {h.prol} \cup Ptrs(bl, I) /\ PkgHeap(package, h, D, sz, al)
                       /\ Owned(bl, I, h.prol) /\ Roomy(bl, I, sz)
  BY DEF Kempt
<1>2. PkgIs(h, D, sz, al)
  BY <1>1, PkgFacts, Zenon
<1>3. Layout(h.prol, h.brk, D, sz) /\ h.prol = Start + 8
  BY <1>2 DEF PkgIs
<1>4. /\ \A x \in D : x \in Nat /\ sz[x] \in Nat /\ x % 8 = 0 /\ Start + 8 <= x /\ x + sz[x] <= h.brk
      /\ \A x, y \in D : x < y => x + sz[x] <= y
      /\ h.brk \in Nat /\ h.brk <= Start + MAX_HEAP
  <2>1. \A x \in D : x + sz[x] <= h.brk
    BY <1>3, LayoutFacts
  <2> QED
    BY <1>3, <2>1 DEF Layout
<1>5. ASSUME NEW j \in I PROVE /\ bl[j].ptr \in D /\ bl[j].size \in Nat /\ bl[j].size > 0
                               /\ bl[j].size + 8 <= sz[bl[j].ptr]
  <2>1. bl[j].ptr \in al
    BY <1>1 DEF Ptrs
  <2> QED
    BY <1>1, <1>2, <2>1 DEF PkgIs, Roomy, BlockTable
<1>6. PICK p, z : p = bl[i].ptr /\ z = bl[i].size
  OBVIOUS
<1>7. p \in D /\ z \in Nat /\ z > 0 /\ z + 8 <= sz[p]
  BY <1>5, <1>6
<1>8. /\ p \in Nat /\ sz[p] \in Nat /\ p % 8 = 0 /\ Start + 8 <= p /\ p + sz[p] <= h.brk /\ h.brk \in Nat
      /\ h.brk <= Start + MAX_HEAP
  BY <1>4, <1>7
<1>9. Start <= p /\ p + z <= Start + MAX_HEAP
  BY <1>7, <1>8, MemAssumption
<1>10. ASSUME NEW j \in I \ {i}
       PROVE  bl[j].ptr \in Nat /\ bl[j].size \in Nat /\ (p + z <= bl[j].ptr \/ bl[j].ptr + bl[j].size <= p)
  <2>1. PICK q, w : q = bl[j].ptr /\ w = bl[j].size
    OBVIOUS
  <2>2. q \in D /\ w \in Nat /\ w > 0 /\ w + 8 <= sz[q] /\ q # p
    BY <1>1, <1>5, <1>6, <2>1 DEF Owned
  <2>3. /\ q \in Nat /\ sz[q] \in Nat /\ (p < q => p + sz[p] <= q) /\ (q < p => q + sz[q] <= p)
    BY <1>4, <1>7, <2>2
  <2>4. p + sz[p] <= q \/ q + sz[q] <= p
    BY <1>8, <2>2, <2>3
  <2>5. p + z <= q \/ q + w <= p
    BY <1>7, <1>8, <2>2, <2>3, <2>4
  <2> QED
    BY <2>1, <2>2, <2>3, <2>5
<1>11. ASSUME NEW o \in Nat, o % 4 = 0, o < z PROVE p + o \in Payload(p, z)
  <2>1. o < sz[p] - 8
    BY <1>7, <1>8, <1>11
  <2>2. p + o \in Addr
    BY <1>3, <1>7, <1>11, <2>1, OffsetWords
  <2> QED
    BY <1>7, <1>8, <1>11, <2>2 DEF Payload
<1> QED
  BY <1>6, <1>7, <1>8, <1>9, <1>10, <1>11

\* A filled block holds nothing but its index.
FilledWith(h, bl, i, n) == \A k \in 1 .. n \div 4 : h.mem[bl[i].ptr + 4 * (k - 1)] = i

LEMMA FilledData ==
  ASSUME NEW h, NEW bl \in BlockTable, NEW I \in SUBSET Ids, Kempt(package, h, bl, I, TRUE), NEW i \in I,
         NEW n \in Nat, n <= bl[i].size, Filled(h, bl, i, n)
  PROVE  FilledWith(h, bl, i, n)
<1> SUFFICES ASSUME NEW k \in 1 .. n \div 4 PROVE h.mem[bl[i].ptr + 4 * (k - 1)] = i
  BY DEF FilledWith
<1>1. PICK p, z : p = bl[i].ptr /\ z = bl[i].size
  OBVIOUS
<1>2. p \in Nat /\ z \in Nat /\ \A o \in Nat : o % 4 = 0 /\ o < z => p + o \in Payload(p, z)
  BY <1>1, HeldBlock
<1>3. PICK o \in Nat : o = 4 * (k - 1)
  OBVIOUS
<1>4. o % 4 = 0 /\ o < n /\ n <= z
  BY <1>1, <1>3
<1>5. p + o \in Payload(p, z)
  BY <1>2, <1>4
<1>6. p + o \in Payload(p, n)
  BY <1>2, <1>4, <1>5 DEF Payload
<1> QED
  BY <1>1, <1>3, <1>6 DEF Filled

LEMMA HoldingsPlaced ==
  ASSUME NEW h, NEW bl \in BlockTable, NEW I \in SUBSET Ids, Kempt(package, h, bl, I, TRUE), NEW i \in I,
         \A j \in I : bl[j].size \in Sizes
  PROVE  Promise!Placed(Holdings(h, bl, I), i)
<1>1. PICK b : b = Holdings(h, bl, I)
  OBVIOUS
<1>2. ASSUME NEW j \in I
      PROVE  /\ b[j].lo = bl[j].ptr /\ bl[j].size \in Nat /\ bl[j].size % 4 = 0 /\ bl[j].ptr \in Nat
             /\ Len(b[j].data) = bl[j].size \div 4 /\ 4 * (bl[j].size \div 4) = bl[j].size
             /\ Promise!Bytes(b[j]) = bl[j].ptr .. bl[j].ptr + bl[j].size - 1
  <2>1. b[j].lo = bl[j].ptr /\ b[j].data = Data(h, bl, j)
    BY <1>1 DEF Holdings
  <2>2. PICK p \in Nat, z \in Nat : p = bl[j].ptr /\ z = bl[j].size
    BY DEF BlockTable
  <2>3. z % 4 = 0
    BY <2>2, DriverAssumption DEF WSIZE
  <2>4. PICK m \in Nat : m = z \div 4 /\ 4 * m = z
    BY <2>2, <2>3
  <2>5. Len(b[j].data) = m
    <3>1. PICK c : c = b[j].data
      OBVIOUS
    <3>2. c = [k \in 1 .. m |-> h.mem[bl[j].ptr + 4 * (k - 1)]]
      BY <2>1, <2>2, <2>4, <3>1 DEF Data
    <3>3. PICK R : R = {c[k] : k \in 1 .. m}
      OBVIOUS
    <3>4. c \in [1 .. m -> R]
      BY <3>2, <3>3
    <3>5. c \in Seq(R)
      BY <3>4, SeqDef, Zenon
    <3>6. DOMAIN c = 1 .. m
      BY <3>4
    <3> QED
      BY <3>1, <3>5, <3>6
  <2>6. Promise!Bytes(b[j]) = p .. p + z - 1
    BY <2>1, <2>2, <2>4, <2>5 DEF Promise!Bytes, WSIZE
  <2> QED
    BY <2>1, <2>2, <2>3, <2>4, <2>5, <2>6
<1>3. PICK p \in Nat, z \in Nat : p = bl[i].ptr /\ z = bl[i].size
  BY DEF BlockTable
<1>4. /\ z > 0 /\ p % 8 = 0 /\ Start <= p /\ p + z <= Start + MAX_HEAP
      /\ \A j \in I \ {i} : p + z <= bl[j].ptr \/ bl[j].ptr + bl[j].size <= p
  BY <1>3, HeldBlock
<1>5. b[i].lo % (2 * WSIZE) = 0 /\ Len(b[i].data) > 0
  <2>1. b[i].lo = p /\ Len(b[i].data) = z \div 4 /\ 4 * (z \div 4) = z
    BY <1>2, <1>3
  <2>2. z \div 4 > 0
    BY <1>4, <2>1
  <2> QED
    BY <1>4, <2>1, <2>2 DEF WSIZE
<1>6. Promise!Bytes(b[i]) \subseteq Start .. (Start + MAX_HEAP) - 1
  <2>1. p .. p + z - 1 \subseteq Start .. (Start + MAX_HEAP) - 1
    BY <1>3, <1>4, MemAssumption
  <2> QED
    BY <1>2, <1>3, <2>1
<1>7. ASSUME NEW j \in I \ {i} PROVE Promise!Bytes(b[i]) \cap Promise!Bytes(b[j]) = {}
  <2>1. PICK q \in Nat, w \in Nat : q = bl[j].ptr /\ w = bl[j].size
    BY DEF BlockTable
  <2>2. p + z <= q \/ q + w <= p
    BY <1>4, <2>1
  <2>3. (p .. p + z - 1) \cap (q .. q + w - 1) = {}
    BY <1>3, <2>1, <2>2
  <2> QED
    BY <1>2, <1>3, <2>1, <2>3
<1>8. DOMAIN b = I
  BY <1>1 DEF Holdings
<1>9. Promise!Placed(b, i)
  BY <1>5, <1>6, <1>7, <1>8 DEF Promise!Placed
<1> QED
  BY <1>1, <1>9

\* The state of the allocator that the driver's state stands for.
HeldBar == [i \in (IF pass \in {"valid", "failed"} THEN held ELSE {}) |->
               [lo |-> blocks[i].ptr, data |-> Contents(i)]]
FreshBar == {q.index : q \in request}

LEMMA BarIs ==
  /\ pass \in {"valid", "failed"} => HeldBar = Holdings(heap, blocks, held)
  /\ pass \notin {"valid", "failed"} => DOMAIN HeldBar = {}
  /\ DOMAIN HeldBar = IF pass \in {"valid", "failed"} THEN held ELSE {}
<1>1. \A i : Contents(i) = Data(heap, blocks, i)
  BY DEF Contents, Data, WSIZE
<1> QED
  BY <1>1 DEF HeldBar, Holdings

LEMMA BarIsNext ==
  /\ pass' \in {"valid", "failed"} => HeldBar' = Holdings(heap', blocks', held')
  /\ pass' \notin {"valid", "failed"} => DOMAIN HeldBar' = {}
  /\ DOMAIN HeldBar' = IF pass' \in {"valid", "failed"} THEN held' ELSE {}
<1>1. \A i : Contents(i)' = Data(heap', blocks', i)
  BY DEF Contents, Data, WSIZE
<1> QED
  BY <1>1 DEF HeldBar, Holdings

OthersKeptBar(i) == \A j \in DOMAIN HeldBar \ {i} : j \in DOMAIN HeldBar' /\ HeldBar'[j] = HeldBar[j]

LEMMA PromiseSteps ==
  ASSUME NEW i
  PROVE  /\ Promise!Malloc(i) <=>
                /\ FreshBar = {} /\ FreshBar' = {i} /\ i \notin DOMAIN HeldBar
                /\ DOMAIN HeldBar' = DOMAIN HeldBar \cup {i}
                /\ Promise!Placed(HeldBar', i) /\ OthersKeptBar(i)
         /\ Promise!Realloc(i) <=>
                /\ FreshBar = {} /\ FreshBar' = {i} /\ i \in DOMAIN HeldBar /\ DOMAIN HeldBar' = DOMAIN HeldBar
                /\ Promise!Placed(HeldBar', i)
                /\ \A k \in 1 .. Promise!SmallerOf(Len(HeldBar[i].data), Len(HeldBar'[i].data)) :
                       HeldBar'[i].data[k] = HeldBar[i].data[k]
                /\ OthersKeptBar(i)
         /\ Promise!Write(i) <=>
                /\ FreshBar = {i} /\ FreshBar' = {} /\ i \in DOMAIN HeldBar /\ DOMAIN HeldBar' = DOMAIN HeldBar
                /\ HeldBar'[i].lo = HeldBar[i].lo /\ Len(HeldBar'[i].data) = Len(HeldBar[i].data)
                /\ OthersKeptBar(i)
         /\ Promise!Free(i) <=>
                /\ FreshBar = {} /\ FreshBar' = {} /\ i \in DOMAIN HeldBar
                /\ DOMAIN HeldBar' = DOMAIN HeldBar \ {i} /\ OthersKeptBar(i)
<1>1. Promise!OthersKept(i) <=> OthersKeptBar(i)
  BY DEF Promise!OthersKept, OthersKeptBar, HeldBar
<1>2. Promise!Malloc(i) <=>
                /\ FreshBar = {} /\ FreshBar' = {i} /\ i \notin DOMAIN HeldBar
                /\ DOMAIN HeldBar' = DOMAIN HeldBar \cup {i}
                /\ Promise!Placed(HeldBar', i) /\ OthersKeptBar(i)
  BY <1>1 DEF Promise!Malloc, HeldBar, FreshBar
<1>3. Promise!Realloc(i) <=>
                /\ FreshBar = {} /\ FreshBar' = {i} /\ i \in DOMAIN HeldBar /\ DOMAIN HeldBar' = DOMAIN HeldBar
                /\ Promise!Placed(HeldBar', i)
                /\ \A k \in 1 .. Promise!SmallerOf(Len(HeldBar[i].data), Len(HeldBar'[i].data)) :
                       HeldBar'[i].data[k] = HeldBar[i].data[k]
                /\ OthersKeptBar(i)
  BY <1>1 DEF Promise!Realloc, HeldBar, FreshBar
<1>4. Promise!Write(i) <=>
                /\ FreshBar = {i} /\ FreshBar' = {} /\ i \in DOMAIN HeldBar /\ DOMAIN HeldBar' = DOMAIN HeldBar
                /\ HeldBar'[i].lo = HeldBar[i].lo /\ Len(HeldBar'[i].data) = Len(HeldBar[i].data)
                /\ OthersKeptBar(i)
  BY <1>1 DEF Promise!Write, HeldBar, FreshBar
<1>5. Promise!Free(i) <=>
                /\ FreshBar = {} /\ FreshBar' = {} /\ i \in DOMAIN HeldBar
                /\ DOMAIN HeldBar' = DOMAIN HeldBar \ {i} /\ OthersKeptBar(i)
  BY <1>1 DEF Promise!Free, HeldBar, FreshBar
<1> QED
  BY <1>2, <1>3, <1>4, <1>5

ValidHeap(h, bl, I) ==
    /\ bl \in BlockTable /\ I \in SUBSET Ids /\ Kempt(package, h, bl, I, TRUE)
    /\ \A j \in I : bl[j].size \in Sizes

\* The block of index j is the same in both heaps, and filled.
StillFilled(h, g, bl, bl2, j) ==
    bl2[j] = bl[j] /\ Filled(h, bl, j, bl[j].size) /\ Filled(g, bl2, j, bl2[j].size)

LEMMA SameHolding ==
  ASSUME NEW h, NEW bl, NEW I, ValidHeap(h, bl, I), NEW g, NEW bl2, NEW J, ValidHeap(g, bl2, J),
         NEW j \in I, j \in J, StillFilled(h, g, bl, bl2, j)
  PROVE  Holdings(g, bl2, J)[j] = Holdings(h, bl, I)[j]
<1>0. /\ bl \in BlockTable /\ I \in SUBSET Ids /\ Kempt(package, h, bl, I, TRUE)
      /\ bl2 \in BlockTable /\ J \in SUBSET Ids /\ Kempt(package, g, bl2, J, TRUE)
      /\ bl2[j] = bl[j] /\ Filled(h, bl, j, bl[j].size) /\ Filled(g, bl2, j, bl2[j].size)
  BY DEF ValidHeap, StillFilled
<1>1. PICK z \in Nat : z = bl[j].size /\ z = bl2[j].size
  BY <1>0 DEF BlockTable
<1>2. FilledWith(h, bl, j, z)
  <2>1. z \in Nat /\ z <= bl[j].size /\ Filled(h, bl, j, z)
    BY <1>0, <1>1
  <2> QED
    BY <1>0, <2>1, FilledData
<1>3. FilledWith(g, bl2, j, z)
  <2>1. z \in Nat /\ z <= bl2[j].size /\ Filled(g, bl2, j, z) /\ j \in J
    BY <1>0, <1>1
  <2> QED
    BY <1>0, <2>1, FilledData
<1>4. Data(h, bl, j) = Data(g, bl2, j)
  BY <1>0, <1>1, <1>2, <1>3 DEF Data, FilledWith
<1> QED
  BY <1>0, <1>4 DEF Holdings

LEMMA ValidStates ==
  ASSUME DriverInv, SizesInv, DriverInv', SizesInv', package' = package
  PROVE  /\ pass = "valid" => ValidHeap(heap, blocks, held) /\ CheckInv
         /\ pass' \in {"valid", "failed"} => ValidHeap(heap', blocks', held')
         /\ pass' = "valid" => CheckInv'
<1>1. ASSUME pass = "valid" PROVE ValidHeap(heap, blocks, held) /\ CheckInv
  <2>1. (pass # "speed") = TRUE
    BY <1>1
  <2> QED
    BY <1>1, <2>1 DEF DriverInv, TypeInv, Running, SizesInv, ValidHeap
<1>2. ASSUME pass' \in {"valid", "failed"} PROVE ValidHeap(heap', blocks', held')
  <2>1. (pass' # "speed") = TRUE
    BY <1>2
  <2>2. Kempt(package, heap', blocks', held', TRUE)
    BY <1>2, <2>1 DEF DriverInv, Running
  <2> QED
    BY <1>2, <2>2 DEF DriverInv, TypeInv, SizesInv, ValidHeap
<1>3. pass' = "valid" => CheckInv'
  BY DEF DriverInv
<1> QED
  BY <1>1, <1>2, <1>3

\* The blocks of the other indices are as they were.
LEMMA OthersStay ==
  ASSUME NEW h, NEW bl, NEW I, ValidHeap(h, bl, I), NEW g, NEW bl2, NEW J, ValidHeap(g, bl2, J),
         NEW i, I \ {i} \subseteq J, \A j \in I \ {i} : StillFilled(h, g, bl, bl2, j)
  PROVE  \A j \in I \ {i} : Holdings(g, bl2, J)[j] = Holdings(h, bl, I)[j]
<1> SUFFICES ASSUME NEW j \in I \ {i} PROVE Holdings(g, bl2, J)[j] = Holdings(h, bl, I)[j]
  OBVIOUS
<1>1. j \in I /\ j \in J /\ StillFilled(h, g, bl, bl2, j)
  OBVIOUS
<1> QED
  BY <1>1, SameHolding

LEMMA PlacedThere ==
  ASSUME NEW h, NEW bl, NEW I, ValidHeap(h, bl, I), NEW i \in I
  PROVE  Promise!Placed(Holdings(h, bl, I), i)
<1>1. /\ bl \in BlockTable /\ I \in SUBSET Ids /\ Kempt(package, h, bl, I, TRUE)
      /\ \A j \in I : bl[j].size \in Sizes
  BY DEF ValidHeap
<1> QED
  BY <1>1, HoldingsPlaced, Zenon

\* The calls of mm_malloc and mm_free, and the writing of the driver.
LEMMA AllocPromised ==
  ASSUME DriverInv, SizesInv, DriverInv', SizesInv',
         NEW i \in Ids, NEW size \in Sizes, ValidAlloc(i, size), pass' = "valid"
  PROVE  Promise!Malloc(i)
<1>1. PICK p, q : /\ pass = "valid" /\ request = {} /\ i \notin held /\ package' = package
                  /\ held' = held \cup {i} /\ blocks' = [blocks EXCEPT ![i] = [ptr |-> p, size |-> size]]
                  /\ request' = {q} /\ q.index = i
  <2>1. PICK r : /\ r = PkgMalloc(heap, size)
                 /\ held' = held \cup {i} /\ blocks' = [blocks EXCEPT ![i] = [ptr |-> r.ptr, size |-> size]]
                 /\ request' = {[type |-> "ALLOC", index |-> i, oldp |-> NULL, oldsize |-> 0]}
    BY DEF ValidAlloc, Failure
  <2>2. PICK p, q : p = r.ptr /\ q = [type |-> "ALLOC", index |-> i, oldp |-> NULL, oldsize |-> 0]
    OBVIOUS
  <2>3. pass = "valid" /\ request = {} /\ i \notin held /\ package' = package
    BY DEF ValidAlloc
  <2>4. q.index = i
    BY <2>2
  <2> QED
    BY <2>1, <2>2, <2>3, <2>4
<1>2. ValidHeap(heap, blocks, held) /\ CheckInv /\ ValidHeap(heap', blocks', held') /\ CheckInv'
  BY <1>1, ValidStates
<1>3. PICK h, bl, I, g, bl2, J : h = heap /\ bl = blocks /\ I = held /\ g = heap' /\ bl2 = blocks' /\ J = held'
  OBVIOUS
<1>4. ValidHeap(h, bl, I) /\ ValidHeap(g, bl2, J) /\ J = I \cup {i} /\ i \notin I /\ J \ {i} = I /\ I \ {i} = I
  BY <1>1, <1>2, <1>3
<1>5. ASSUME NEW j \in I PROVE StillFilled(h, g, bl, bl2, j)
  <2>1. bl2[j] = bl[j]
    BY <1>1, <1>3, <1>4 DEF ValidHeap, BlockTable
  <2>2. Filled(h, bl, j, bl[j].size)
    BY <1>1, <1>2, <1>3 DEF CheckInv, Known
  <2>3. Filled(g, bl2, j, bl2[j].size)
    BY <1>1, <1>2, <1>3, <1>4 DEF CheckInv, Known
  <2> QED
    BY <2>1, <2>2, <2>3 DEF StillFilled
<1>6. \A j \in I \ {i} : Holdings(g, bl2, J)[j] = Holdings(h, bl, I)[j]
  BY <1>4, <1>5, OthersStay
<1>7. Promise!Placed(Holdings(g, bl2, J), i)
  BY <1>4, PlacedThere
<1>8. HeldBar = Holdings(h, bl, I) /\ HeldBar' = Holdings(g, bl2, J) /\ DOMAIN HeldBar = I /\ DOMAIN HeldBar' = J
  BY <1>1, <1>3, BarIs, BarIsNext
<1>9. FreshBar = {} /\ FreshBar' = {i}
  BY <1>1 DEF FreshBar
<1>10. OthersKeptBar(i)
  BY <1>4, <1>6, <1>8 DEF OthersKeptBar
<1>11. Promise!Placed(HeldBar', i)
  BY <1>7, <1>8
<1> QED
  BY <1>4, <1>8, <1>9, <1>10, <1>11, PromiseSteps

\* A block has left the table, in a call of mm_free or in a realloc to nothing.
LEMMA GivenBack ==
  ASSUME DriverInv, SizesInv, DriverInv', SizesInv', NEW i \in Ids,
         pass = "valid", pass' \in {"valid", "failed"}, request = {}, request' = {}, i \in held,
         package' = package, held' = held \ {i}, blocks' = blocks
  PROVE  Promise!Free(i)
<1>1. ValidHeap(heap, blocks, held) /\ CheckInv /\ ValidHeap(heap', blocks', held')
  BY ValidStates
<1>2. \A j \in held' : Filled(heap', blocks', j, blocks'[j].size)
  <2>1. CASE pass' = "valid"
    BY <2>1 DEF DriverInv, CheckInv, Known
  <2>2. CASE pass' = "failed"
    BY <2>2 DEF DriverInv
  <2> QED
    BY <2>1, <2>2
<1>3. PICK h, bl, I, g, bl2, J : h = heap /\ bl = blocks /\ I = held /\ g = heap' /\ bl2 = blocks' /\ J = held'
  OBVIOUS
<1>4. ValidHeap(h, bl, I) /\ ValidHeap(g, bl2, J) /\ J = I \ {i} /\ i \in I
  BY <1>1, <1>3
<1>5. ASSUME NEW j \in I \ {i} PROVE StillFilled(h, g, bl, bl2, j)
  <2>1. bl2[j] = bl[j]
    BY <1>3
  <2>2. Filled(h, bl, j, bl[j].size)
    BY <1>1, <1>3 DEF CheckInv, Known
  <2>3. Filled(g, bl2, j, bl2[j].size)
    BY <1>2, <1>3, <1>4
  <2> QED
    BY <2>1, <2>2, <2>3 DEF StillFilled
<1>6. \A j \in I \ {i} : Holdings(g, bl2, J)[j] = Holdings(h, bl, I)[j]
  BY <1>4, <1>5, OthersStay
<1>8. HeldBar = Holdings(h, bl, I) /\ HeldBar' = Holdings(g, bl2, J) /\ DOMAIN HeldBar = I /\ DOMAIN HeldBar' = J
  BY <1>3, BarIs, BarIsNext
<1>9. FreshBar = {} /\ FreshBar' = {}
  BY DEF FreshBar
<1>10. OthersKeptBar(i)
  BY <1>4, <1>6, <1>8 DEF OthersKeptBar
<1> QED
  BY <1>4, <1>8, <1>9, <1>10, PromiseSteps

LEMMA FreePromised ==
  ASSUME DriverInv, SizesInv, DriverInv', SizesInv', NEW i \in Ids, ValidFree(i)
  PROVE  Promise!Free(i)
<1>1. /\ pass = "valid" /\ pass' \in {"valid", "failed"} /\ request = {} /\ request' = {} /\ i \in held
      /\ package' = package /\ held' = held \ {i} /\ blocks' = blocks
  BY DEF ValidFree
<1> QED
  BY <1>1, GivenBack

\* A request that fails leaves all blocks as they are, or has freed its own.
LEMMA FailurePromised ==
  ASSUME DriverInv, SizesInv, DriverInv', SizesInv', NEW i \in Ids, NEW size \in Sizes,
         ValidAlloc(i, size) \/ ValidRealloc(i, size), pass' = "failed"
  PROVE  UNCHANGED <<HeldBar, FreshBar>> \/ (i \in DOMAIN HeldBar /\ Promise!Free(i))
<1>1. pass = "valid" /\ request = {} /\ request' = {} /\ package' = package
  BY DEF ValidAlloc, ValidRealloc, DriverInv
<1>2. /\ Kempt(package, heap, blocks, held, TRUE) /\ package \in AllPackages
      /\ HeldBar = Holdings(heap, blocks, held) /\ HeldBar' = Holdings(heap', blocks', held')
      /\ DOMAIN HeldBar = held /\ FreshBar = {} /\ FreshBar' = {}
  <2>1. ValidIs
    BY <1>1, ValidFacts
  <2> QED
    BY <1>1, <2>1, BarIs, BarIsNext DEF ValidIs, FreshBar
<1>3. ASSUME heap' = heap, blocks' = blocks, held' = held PROVE UNCHANGED <<HeldBar, FreshBar>>
  BY <1>2, <1>3
<1>4. CASE ValidAlloc(i, size)
  <2>1. PICK r : r = PkgMalloc(heap, size)
    OBVIOUS
  <2>2. r.ptr = NULL /\ Failure(r.heap, held) /\ blocks' = blocks
    BY <1>1, <1>4, <2>1 DEF ValidAlloc
  <2>3. r.heap = heap
    BY <1>2, <2>1, <2>2, MallocNull
  <2> QED
    BY <1>3, <2>2, <2>3 DEF Failure
<1>5. CASE ValidRealloc(i, size)
  <2>1. PICK r : r = PkgRealloc(heap, blocks[i].ptr, size)
    OBVIOUS
  <2>2. r.ptr = NULL /\ Failure(r.heap, HeldAfterNull(i, size)) /\ blocks' = blocks /\ i \in held
    BY <1>1, <1>5, <2>1 DEF ValidRealloc
  <2>3. r.heap = IF size = 0 /\ package \in {"clean", "mm"} THEN PkgFree(heap, blocks[i].ptr) ELSE heap
    <3>1. PICK h, bl, I : h = heap /\ bl = blocks /\ I = held
      OBVIOUS
    <3>2. Kempt(package, h, bl, I, TRUE) /\ i \in I /\ r = PkgRealloc(h, bl[i].ptr, size)
      BY <1>2, <2>1, <2>2, <3>1
    <3>3. NullLeaves(h, r.heap, bl[i].ptr, size)
      BY <1>2, <2>2, <3>2, ReallocNull
    <3> QED
      BY <3>1, <3>3 DEF NullLeaves
  <2>4. CASE size = 0 /\ package \in {"clean", "mm"}
    <3>1. held' = held \ {i} /\ pass' \in {"valid", "failed"}
      BY <2>2, <2>4 DEF HeldAfterNull, Failure
    <3>2. Promise!Free(i)
      BY <1>1, <2>2, <3>1, GivenBack
    <3> QED
      BY <1>2, <2>2, <3>2
  <2>5. CASE ~(size = 0 /\ package \in {"clean", "mm"})
    BY <1>3, <2>2, <2>3, <2>5 DEF HeldAfterNull, Failure
  <2> QED
    BY <2>4, <2>5
<1> QED
  BY <1>4, <1>5

LEMMA DataLength ==
  ASSUME NEW h, NEW bl \in BlockTable, NEW j \in Ids
  PROVE  Len(Data(h, bl, j)) = bl[j].size \div 4 /\ bl[j].size \in Nat
<1>1. PICK m \in Nat : m = bl[j].size \div 4
  BY DEF BlockTable
<1>2. PICK c : c = Data(h, bl, j)
  OBVIOUS
<1>3. c = [k \in 1 .. m |-> h.mem[bl[j].ptr + 4 * (k - 1)]]
  BY <1>1, <1>2 DEF Data
<1>4. PICK R : R = {c[k] : k \in 1 .. m}
  OBVIOUS
<1>5. c \in [1 .. m -> R]
  BY <1>3, <1>4
<1>6. c \in Seq(R)
  BY <1>5, SeqDef, Zenon
<1>7. DOMAIN c = 1 .. m
  BY <1>5
<1> QED
  BY <1>1, <1>2, <1>6, <1>7 DEF BlockTable

LEMMA ReallocPromised ==
  ASSUME DriverInv, SizesInv, DriverInv', SizesInv',
         NEW i \in Ids, NEW size \in Sizes, ValidRealloc(i, size), pass' = "valid"
  PROVE  Promise!Realloc(i)
<1>1. PICK p, q : /\ pass = "valid" /\ request = {} /\ i \in held /\ package' = package
                  /\ held' = held /\ blocks' = [blocks EXCEPT ![i] = [ptr |-> p, size |-> size]]
                  /\ request' = {q} /\ q.index = i /\ q.oldsize = blocks[i].size
  <2>1. PICK r : /\ r = PkgRealloc(heap, blocks[i].ptr, size)
                 /\ held' = held /\ blocks' = [blocks EXCEPT ![i] = [ptr |-> r.ptr, size |-> size]]
                 /\ request' = {[type |-> "REALLOC", index |-> i, oldp |-> blocks[i].ptr, oldsize |-> blocks[i].size]}
    BY DEF ValidRealloc, Failure
  <2>2. PICK p, q : p = r.ptr /\ q = [type |-> "REALLOC", index |-> i, oldp |-> blocks[i].ptr, oldsize |-> blocks[i].size]
    OBVIOUS
  <2>3. pass = "valid" /\ request = {} /\ i \in held /\ package' = package
    BY DEF ValidRealloc
  <2>4. q.index = i /\ q.oldsize = blocks[i].size
    BY <2>2
  <2> QED
    BY <2>1, <2>2, <2>3, <2>4
<1>2. ValidHeap(heap, blocks, held) /\ CheckInv /\ ValidHeap(heap', blocks', held') /\ CheckInv'
  BY <1>1, ValidStates
<1>3. PICK h, bl, I, g, bl2, J : h = heap /\ bl = blocks /\ I = held /\ g = heap' /\ bl2 = blocks' /\ J = held'
  OBVIOUS
<1>4. ValidHeap(h, bl, I) /\ ValidHeap(g, bl2, J) /\ J = I /\ i \in I /\ i \in J
  BY <1>1, <1>2, <1>3
<1>5. ASSUME NEW j \in I \ {i} PROVE StillFilled(h, g, bl, bl2, j)
  <2>1. bl2[j] = bl[j]
    BY <1>1, <1>3, <1>4 DEF ValidHeap, BlockTable
  <2>2. Filled(h, bl, j, bl[j].size)
    BY <1>1, <1>2, <1>3 DEF CheckInv, Known
  <2>3. Filled(g, bl2, j, bl2[j].size)
    BY <1>1, <1>2, <1>3, <1>4 DEF CheckInv, Known
  <2> QED
    BY <2>1, <2>2, <2>3 DEF StillFilled
<1>6. \A j \in I \ {i} : Holdings(g, bl2, J)[j] = Holdings(h, bl, I)[j]
  BY <1>4, <1>5, OthersStay
<1>7. Promise!Placed(Holdings(g, bl2, J), i)
  BY <1>4, PlacedThere
<1>8. HeldBar = Holdings(h, bl, I) /\ HeldBar' = Holdings(g, bl2, J) /\ DOMAIN HeldBar = I /\ DOMAIN HeldBar' = J
  BY <1>1, <1>3, BarIs, BarIsNext
<1>9. FreshBar = {} /\ FreshBar' = {i}
  BY <1>1 DEF FreshBar
<1>10. OthersKeptBar(i)
  BY <1>4, <1>6, <1>8 DEF OthersKeptBar
<1>11. Promise!Placed(HeldBar', i)
  BY <1>7, <1>8
<1>12. HeldBar[i].data = Data(h, bl, i) /\ HeldBar'[i].data = Data(g, bl2, i)
  BY <1>4, <1>8 DEF Holdings
<1>13. ASSUME NEW k \in 1 .. Promise!SmallerOf(Len(HeldBar[i].data), Len(HeldBar'[i].data))
       PROVE  HeldBar'[i].data[k] = HeldBar[i].data[k]
  <2>0. bl \in BlockTable /\ bl2 \in BlockTable /\ I \in SUBSET Ids /\ J \in SUBSET Ids
        /\ Kempt(package, h, bl, I, TRUE) /\ Kempt(package, g, bl2, J, TRUE)
    BY <1>4 DEF ValidHeap
  <2>1. PICK old \in Nat, new \in Nat : /\ old = bl[i].size /\ new = bl2[i].size
                                        /\ Len(HeldBar[i].data) = old \div 4 /\ Len(HeldBar'[i].data) = new \div 4
    BY <1>12, <2>0, DataLength
  <2>2. k \in Nat /\ k >= 1 /\ k <= old \div 4 /\ k <= new \div 4
    <3>1. PICK a \in Nat, b \in Nat : a = old \div 4 /\ b = new \div 4
      OBVIOUS
    <3>2. k \in 1 .. Promise!SmallerOf(a, b)
      BY <1>13, <2>1, <3>1
    <3>3. k \in 1 .. IF a < b THEN a ELSE b
      BY <3>2 DEF Promise!SmallerOf
    <3>4. CASE a < b
      BY <3>1, <3>3, <3>4
    <3>5. CASE ~(a < b)
      BY <3>1, <3>3, <3>5
    <3> QED
      BY <3>4, <3>5
  <2>3. PICK n \in Nat : n <= old /\ n <= new /\ k <= n \div 4
    <3>1. old <= new \/ new <= old
      OBVIOUS
    <3> QED
      BY <2>2, <3>1
  <2>4. FilledWith(h, bl, i, n)
    <3>1. Filled(h, bl, i, old)
      BY <1>1, <1>2, <1>3, <2>1 DEF CheckInv, Known
    <3>2. Filled(h, bl, i, n)
      BY <2>0, <2>3, <3>1, FilledLess
    <3>3. n <= bl[i].size
      BY <2>1, <2>3
    <3> QED
      BY <1>4, <2>0, <3>2, <3>3, FilledData
  <2>5. FilledWith(g, bl2, i, n)
    <3>1. n <= bl2[i].size /\ n <= bl[i].size
      BY <2>1, <2>3
    <3>2. Filled(g, bl2, i, n)
      BY <1>1, <1>2, <1>3, <3>1 DEF CheckInv
    <3> QED
      BY <1>4, <2>0, <3>1, <3>2, FilledData
  <2>6. k \in 1 .. n \div 4 /\ k \in 1 .. old \div 4 /\ k \in 1 .. new \div 4
    BY <2>2, <2>3
  <2>7. Data(h, bl, i)[k] = i
    BY <2>1, <2>4, <2>6 DEF Data, FilledWith
  <2>8. Data(g, bl2, i)[k] = i
    BY <2>1, <2>5, <2>6 DEF Data, FilledWith
  <2> QED
    BY <1>12, <2>7, <2>8
<1> QED
  BY <1>4, <1>8, <1>9, <1>10, <1>11, <1>13, PromiseSteps

LEMMA WritePromised ==
  ASSUME DriverInv, SizesInv, DriverInv', SizesInv', ValidCheck, pass' = "valid"
  PROVE  \E i \in DOMAIN HeldBar : Promise!Write(i)
<1>1. PICK q \in request : held' = held /\ blocks' = blocks /\ request' = {} /\ package' = package
  BY DEF ValidCheck, Failure
<1>2. pass = "valid"
  BY DEF DriverInv, ValidCheck
<1>3. ValidHeap(heap, blocks, held) /\ CheckInv /\ ValidHeap(heap', blocks', held') /\ CheckInv'
  BY <1>1, <1>2, ValidStates
<1>4. PICK h, bl, I, g, i : h = heap /\ bl = blocks /\ I = held /\ g = heap' /\ i = q.index
  OBVIOUS
<1>5. ValidHeap(h, bl, I) /\ ValidHeap(g, bl, I) /\ i \in I /\ i \in Ids /\ bl \in BlockTable
  BY <1>1, <1>3, <1>4 DEF CheckInv, ValidHeap
<1>6. ASSUME NEW j \in I \ {i} PROVE StillFilled(h, g, bl, bl, j)
  <2>1. Filled(h, bl, j, bl[j].size)
    BY <1>1, <1>3, <1>4 DEF CheckInv, Known
  <2>2. Filled(g, bl, j, bl[j].size)
    BY <1>1, <1>3, <1>4 DEF CheckInv, Known
  <2> QED
    BY <2>1, <2>2 DEF StillFilled
<1>7. \A j \in I \ {i} : Holdings(g, bl, I)[j] = Holdings(h, bl, I)[j]
  BY <1>5, <1>6, OthersStay
<1>8. HeldBar = Holdings(h, bl, I) /\ HeldBar' = Holdings(g, bl, I) /\ DOMAIN HeldBar = I /\ DOMAIN HeldBar' = I
  BY <1>1, <1>2, <1>4, BarIs, BarIsNext
<1>9. FreshBar = {i} /\ FreshBar' = {}
  BY <1>1, <1>3, <1>4 DEF FreshBar, CheckInv
<1>10. OthersKeptBar(i)
  BY <1>7, <1>8 DEF OthersKeptBar
<1>11. HeldBar'[i].lo = HeldBar[i].lo /\ Len(HeldBar'[i].data) = Len(HeldBar[i].data)
  <2>1. Len(Data(h, bl, i)) = bl[i].size \div 4 /\ Len(Data(g, bl, i)) = bl[i].size \div 4
    BY <1>5, DataLength
  <2> QED
    BY <1>5, <1>8, <2>1 DEF Holdings
<1>12. Promise!Write(i)
  BY <1>5, <1>8, <1>9, <1>10, <1>11, PromiseSteps
<1> QED
  BY <1>5, <1>8, <1>12

LEMMA PromiseNexts ==
  /\ \A i \in DOMAIN HeldBar' \cup DOMAIN HeldBar :
         Promise!Malloc(i) \/ Promise!Realloc(i) \/ Promise!Write(i) \/ Promise!Free(i) => Promise!Next
  /\ DOMAIN HeldBar' = {} /\ FreshBar' = {} => Promise!Next
BY DEF Promise!Next, Promise!StartOver, HeldBar, FreshBar

LEMMA StepPromised ==
  ASSUME DriverInv, SizesInv, DriverInv', SizesInv', Next
  PROVE  Promise!Next \/ UNCHANGED <<HeldBar, FreshBar>>
<1>1. ASSUME pass' \notin {"valid", "failed"} \/ held' = {}, request' = {} PROVE Promise!Next
  BY <1>1, BarIsNext, PromiseNexts DEF FreshBar
<1>2. ASSUME pass' \notin {"valid", "failed"} PROVE Promise!Next
  <2>1. request' = {}
    BY <1>2 DEF DriverInv
  <2> QED
    BY <1>1, <1>2, <2>1
<1>3. CASE StartValid \/ StartUtil \/ StartSpeed \/ EndTrace \/ NextTrace
  <2>1. (held' = {} /\ request' = {}) \/ pass' \notin {"valid", "failed"}
    BY <1>3 DEF StartValid, StartUtil, StartSpeed, EndTrace, NextTrace, StartPass, DriverInv
  <2> QED
    BY <1>1, <1>2, <2>1
<1>4. ASSUME NEW i \in Ids, NEW size \in Sizes, ValidAlloc(i, size) \/ ValidRealloc(i, size)
      PROVE  Promise!Next \/ UNCHANGED <<HeldBar, FreshBar>>
  <2>1. CASE pass' = "valid"
    <3>1. Promise!Malloc(i) \/ Promise!Realloc(i)
      BY <1>4, <2>1, AllocPromised, ReallocPromised
    <3>2. i \in DOMAIN HeldBar' \cup DOMAIN HeldBar
      BY <3>1, PromiseSteps
    <3> QED
      BY <3>1, <3>2, PromiseNexts
  <2>2. CASE pass' = "failed"
    BY <1>4, <2>2, FailurePromised, PromiseNexts
  <2> QED
    BY <1>2, <2>1, <2>2
<1>5. ASSUME NEW i \in Ids, ValidFree(i) PROVE Promise!Next
  <2>1. Promise!Free(i)
    BY <1>5, FreePromised
  <2>2. i \in DOMAIN HeldBar' \cup DOMAIN HeldBar
    BY <2>1, PromiseSteps
  <2> QED
    BY <2>1, <2>2, PromiseNexts
<1>6. CASE ValidCheck
  <2>1. pass = "valid"
    BY <1>6 DEF ValidCheck, DriverInv
  <2>2. pass' = "valid"
    BY <1>6, <2>1, ValidCheckKeeps
  <2> QED
    BY <1>6, <2>2, WritePromised, PromiseNexts
<1>7. CASE ReplayStep
  <2>1. pass' \notin {"valid", "failed"}
    BY <1>7 DEF ReplayStep, Replay
  <2> QED
    BY <1>2, <2>1
<1> QED
  BY <1>2, <1>3, <1>4, <1>5, <1>6, <1>7 DEF Next

\* Each package implements an allocator, for every heap size and every trace:
\* a block that mm_malloc or mm_realloc returns is aligned, inside the heap and
\* apart from all others, a realloc keeps the contents, and no call changes
\* the contents of a block that it was not asked about; a call that fails
\* changes nothing, except that a realloc to nothing may free the block.
THEOREM PackagesKeepPromise == Spec => KeepsPromise
<1>1. Init => SizesInv
  BY DEF Init, SizesInv
<1>2. DriverInv /\ SizesInv /\ [Next]_vars => SizesInv'
  BY SizesKept
<1>3. Init => Promise!Init
  <2>1. Init => DOMAIN HeldBar = {} /\ FreshBar = {}
    BY BarIs DEF Init, FreshBar
  <2> QED
    BY <2>1 DEF Promise!Init, HeldBar, FreshBar
<1>4. ASSUME DriverInv, SizesInv, DriverInv', SizesInv', [Next]_vars
      PROVE  [Promise!Next]_<<HeldBar, FreshBar>>
  <2>1. CASE Next
    BY <1>4, <2>1, StepPromised
  <2>2. CASE UNCHANGED vars
    BY <2>2 DEF vars, HeldBar, FreshBar, Contents
  <2> QED
    BY <1>4, <2>1, <2>2
<1>5. DriverInv /\ SizesInv /\ DriverInv' /\ SizesInv' /\ [Next]_vars
        => [Promise!Next]_<<[i \in (IF pass \in {"valid", "failed"} THEN held ELSE {}) |->
                                [lo |-> blocks[i].ptr, data |-> Contents(i)]],
                            {q.index : q \in request}>>
  BY <1>4 DEF HeldBar, FreshBar
<1> QED
  BY <1>1, <1>2, <1>3, <1>5, DriverInvariance, PTL DEF Spec, KeepsPromise, Promise!Spec
=============================================================================
