---------------------------- MODULE MemTraceProofs ----------------------------
(***************************************************************************)
(* The safety of the memory tracer: the list against the blocks of libc,   *)
(* the byte counts, and the reports.                                       *)
(***************************************************************************)
EXTENDS MemTraceInvariant, DataLemmas

(* The list, as the set of its items.                                      *)

LEMMA ItemType ==
  ASSUME NEW l \in Seq(Item), NEW k \in 1..Len(l)
  PROVE  /\ l[k] \in Item /\ l[k].ptr \in Ptrs /\ l[k].ptr \in Nat
         /\ l[k].size \in Nat /\ l[k].cnt \in Int
<1>1. l[k] \in Item
  OBVIOUS
<1>2. Ptrs \subseteq Nat
  BY TracerAssumption
<1> QED
  BY <1>1, <1>2 DEF Item

\* The walk for an address stops between the smaller ones and the others.
LEMMA BehindWorks ==
  ASSUME NEW l \in Seq(Item), Ordered(l), NEW p \in Nat
  PROVE  /\ Behind(l, p) \in 0..Len(l)
         /\ \A k \in 1..Len(l) : l[k].ptr < p <=> k <= Behind(l, p)
<1>1. \A k \in 1..Len(l) : l[k] \in Item /\ l[k].ptr \in Nat
  BY ItemType
<1> DEFINE S == {m \in 1..(Len(l) + 1) : m = Len(l) + 1 \/ l[m].ptr >= p}
<1>2. S \in SUBSET Nat /\ S # {}
  BY <1>1
<1>3. PICK m \in S : \A y \in S : m <= y
  BY <1>2, MinOfNat
<1>4. m - 1 \in 0..Len(l) /\ \A k \in 1..(m - 1) : l[k].ptr < p
  BY <1>1, <1>3
<1>5. m - 1 < Len(l) => l[(m - 1) + 1].ptr >= p
  BY <1>3
<1>6. PICK n \in 0..Len(l) :
        /\ n = Behind(l, p)
        /\ \A k \in 1..n : l[k].ptr < p
        /\ n < Len(l) => l[n + 1].ptr >= p
  <2> HIDE DEF S
  <2> QED
    BY <1>4, <1>5 DEF Behind
<1>7. ASSUME NEW k \in 1..Len(l), k > n PROVE ~(l[k].ptr < p)
  <2>1. n < Len(l) /\ l[n + 1].ptr >= p /\ n + 1 \in 1..Len(l)
    BY <1>6, <1>7
  <2>2. k = n + 1 \/ l[n + 1].ptr < l[k].ptr
    BY <1>7, <2>1 DEF Ordered
  <2> QED
    BY <1>1, <2>1, <2>2, TracerAssumption
<1> QED
  BY <1>6, <1>7

\* The items of a list.
LEMMA ItemsOf ==
  ASSUME NEW l \in Seq(Item)
  PROVE  /\ Range(l) = {l[k] : k \in 1..Len(l)} /\ Range(l) \subseteq Item
BY DEF Range

\* Two items of an ordered list have different addresses.
LEMMA OneItem ==
  ASSUME NEW l \in Seq(Item), Ordered(l), NEW i \in Range(l), NEW j \in Range(l), i.ptr = j.ptr
  PROVE  i = j
<1>1. PICK a \in 1..Len(l), b \in 1..Len(l) : i = l[a] /\ j = l[b]
  BY ItemsOf
<1>2. i.ptr \in Nat /\ j.ptr \in Nat
  BY ItemsOf, TracerAssumption DEF Item
<1>3. ~(a < b) /\ ~(b < a)
  BY <1>1, <1>2 DEF Ordered
<1> QED
  BY <1>1, <1>3

LEMMA FindWorks ==
  ASSUME NEW l \in Seq(Item), Ordered(l), NEW p \in Nat
  PROVE  find(l, p) = {i \in Range(l) : i.ptr = p}
<1>1. PICK n \in 0..Len(l) : /\ n = Behind(l, p)
                             /\ \A k \in 1..Len(l) : l[k].ptr < p <=> k <= n
  BY BehindWorks
<1>2. \A k \in 1..Len(l) : l[k] \in Item /\ l[k].ptr \in Nat
  BY ItemType
<1>3. find(l, p) = {l[k] : k \in {j \in {n + 1} \cap (1..Len(l)) : l[j].ptr = p}}
  BY <1>1 DEF find
<1>4. ASSUME NEW k \in 1..Len(l), l[k].ptr = p PROVE k = n + 1
  <2>1. k > n
    BY <1>1, <1>2, <1>4
  <2>2. ASSUME k > n + 1 PROVE FALSE
    <3>1. n + 1 \in 1..Len(l) /\ ~(l[n + 1].ptr < p) /\ l[n + 1].ptr \in Nat
      BY <1>1, <1>2, <2>2
    <3>2. l[n + 1].ptr < l[k].ptr
      BY <2>2, <3>1 DEF Ordered
    <3> QED
      BY <1>4, <3>1, <3>2
  <2> QED
    BY <2>1, <2>2
<1> QED
  BY <1>3, <1>4, ItemsOf

\* The items with the one of that address, if any, replaced by i.
Put(R, i) == {j \in R : j.ptr # i.ptr} \cup {i}

\* t is s with the element e behind the first n.
Inserted(s, t, n, e) ==
  /\ Len(t) = Len(s) + 1
  /\ \A k \in 1..n : t[k] = s[k]
  /\ t[n + 1] = e
  /\ \A k \in (n + 2)..(Len(s) + 1) : t[k] = s[k - 1]

LEMMA InsertAtWorks ==
  ASSUME NEW S, NEW s \in Seq(S), NEW e \in S, NEW n \in 0..Len(s)
  PROVE  InsertAt(s, n + 1, e) \in Seq(S) /\ Inserted(s, InsertAt(s, n + 1, e), n, e)
<1>1. PICK a : a = SubSeq(s, 1, n)
  OBVIOUS
<1>2. PICK b : b = SubSeq(s, n + 1, Len(s))
  OBVIOUS
<1>3. /\ a \in Seq(S) /\ Len(a) = n /\ b \in Seq(S) /\ Len(b) = Len(s) - n
      /\ \A k \in 1..n : a[k] = s[k]
      /\ \A k \in 1..(Len(s) - n) : b[k] = s[n + k]
  BY <1>1, <1>2
<1>4. PICK c : c = a \o <<e>>
  OBVIOUS
<1>5. /\ c \in Seq(S) /\ Len(c) = n + 1 /\ c[n + 1] = e
      /\ \A k \in 1..n : c[k] = s[k]
  BY <1>3, <1>4
<1>6. PICK t : t = c \o b
  OBVIOUS
<1>7. /\ t \in Seq(S) /\ Len(t) = Len(s) + 1
      /\ \A k \in 1..(n + 1) : t[k] = c[k]
      /\ \A k \in (n + 2)..(Len(s) + 1) : t[k] = b[k - (n + 1)]
  BY <1>3, <1>5, <1>6
<1>8. InsertAt(s, n + 1, e) = t
  <2>1. (n + 1) - 1 = n
    OBVIOUS
  <2> QED
    BY <1>1, <1>2, <1>4, <1>6, <2>1 DEF InsertAt
<1>9. \A k \in 1..n : t[k] = s[k]
  BY <1>5, <1>7
<1>10. t[n + 1] = e
  BY <1>5, <1>7
<1>11. ASSUME NEW k \in (n + 2)..(Len(s) + 1) PROVE t[k] = s[k - 1]
  <2>1. k - (n + 1) \in 1..(Len(s) - n) /\ n + (k - (n + 1)) = k - 1
    BY <1>3
  <2> QED
    BY <1>3, <1>7, <2>1
<1> QED
  BY <1>7, <1>8, <1>9, <1>10, <1>11 DEF Inserted

\* The item e takes the place of the one of its address, and counts one more.
Entered(R, p, size, e) ==
  /\ e \in Item /\ e.ptr = p /\ e.size = size
  /\ \A i \in R : i.ptr = p => e.cnt = i.cnt + 1
  /\ (\A i \in R : i.ptr # p) => e.cnt = 1

LEMMA AllocWorks ==
  ASSUME NEW l \in Seq(Item), Ordered(l), NEW p \in Ptrs, NEW size \in Nat
  PROVE  /\ alloc(l, p, size) \in Seq(Item) /\ Ordered(alloc(l, p, size))
         /\ \E e : Entered(Range(l), p, size, e)
                   /\ Range(alloc(l, p, size)) = Put(Range(l), e)
<1>0. p \in Nat
  BY TracerAssumption
<1>1. PICK n \in 0..Len(l) : /\ n = Behind(l, p)
                             /\ \A k \in 1..Len(l) : l[k].ptr < p <=> k <= n
  BY <1>0, BehindWorks
<1>2. \A k \in 1..Len(l) : l[k] \in Item /\ l[k].ptr \in Nat
  BY ItemType
<1>5. PICK t : t = alloc(l, p, size)
  OBVIOUS
<1>6. CASE n < Len(l) /\ l[n + 1].ptr = p
  <2>1. n + 1 \in 1..Len(l) /\ l[n + 1] \in Range(l) /\ l[n + 1] \in Item
    BY <1>2, <1>6, ItemsOf
  <2>2. PICK x \in Item : x = l[n + 1]
    BY <2>1
  <2>3. PICK e : e = [ptr |-> p, size |-> size, cnt |-> x.cnt + 1]
    OBVIOUS
  <2>4. e \in Item /\ e.ptr = p /\ e.size = size /\ e.cnt = x.cnt + 1
    BY <2>3 DEF Item
  <2>5. t = [l EXCEPT ![n + 1] = e]
    <3>1. t = [l EXCEPT ![n + 1].size = size, ![n + 1].cnt = @ + 1]
      BY <1>1, <1>5, <1>6, Zenon DEF alloc
    <3>2. [[l[n + 1] EXCEPT !.size = size] EXCEPT !.cnt = @ + 1] = e
      <4>1. PICK y : y = [x EXCEPT !.size = size]
        OBVIOUS
      <4>2. y = [ptr |-> p, size |-> size, cnt |-> x.cnt]
        BY <1>6, <2>2, <4>1 DEF Item
      <4>3. [y EXCEPT !.cnt = @ + 1] = e
        BY <2>3, <4>2
      <4> QED
        BY <2>2, <4>1, <4>3, Zenon
    <3> QED
      BY <2>1, <3>1, <3>2
  <2>6. t \in Seq(Item) /\ Len(t) = Len(l)
    BY <2>1, <2>4, <2>5
  <2>7. \A k \in 1..Len(l) : t[k] = IF k = n + 1 THEN e ELSE l[k]
    BY <2>1, <2>5
  <2>8. \A k \in 1..Len(l) : t[k].ptr = l[k].ptr
    BY <1>6, <2>4, <2>7
  <2>9. Ordered(t)
    BY <2>6, <2>8 DEF Ordered
  <2>10. \A k \in 1..Len(l) : l[k].ptr = p <=> k = n + 1
    BY <1>2, <1>6, <2>1 DEF Ordered
  <2>11. Range(t) = {t[k] : k \in 1..Len(l)} /\ Range(l) = {l[k] : k \in 1..Len(l)}
    BY <2>6, ItemsOf
  <2>12. Range(t) = Put(Range(l), e)
    BY <2>1, <2>4, <2>7, <2>10, <2>11 DEF Put
  <2>13. Entered(Range(l), p, size, e)
    BY <1>6, <2>1, <2>2, <2>4, <2>10, <2>11 DEF Entered
  <2> QED
    BY <1>5, <2>6, <2>9, <2>12, <2>13
<1>7. CASE ~(n < Len(l) /\ l[n + 1].ptr = p)
  <2>0. PICK e \in Item : e = [ptr |-> p, size |-> size, cnt |-> 1]
    <3>1. [ptr |-> p, size |-> size, cnt |-> 1] \in Item
      BY DEF Item
    <3> QED
      BY <3>1, Zenon
  <2>13. e.ptr = p /\ e.size = size /\ e.cnt = 1
    BY <2>0
  <2>1. t = InsertAt(l, n + 1, e)
    BY <1>1, <1>5, <1>7, <2>0 DEF alloc
  <2>2. /\ t \in Seq(Item) /\ Len(t) = Len(l) + 1
        /\ \A k \in 1..n : t[k] = l[k]
        /\ t[n + 1] = e
        /\ \A k \in (n + 2)..(Len(l) + 1) : t[k] = l[k - 1]
    <3>1. t \in Seq(Item) /\ Inserted(l, t, n, e)
      BY <2>1, InsertAtWorks
    <3> QED
      BY <3>1, Zenon DEF Inserted
  <2>3. ASSUME NEW k \in (n + 1)..Len(l) PROVE l[k].ptr > p
    <3>1. k \in 1..Len(l) /\ ~(l[k].ptr < p)
      BY <1>1
    <3>2. l[k].ptr # p
      <4>1. CASE k = n + 1
        BY <1>7, <4>1
      <4>2. CASE k > n + 1
        <5>1. n + 1 \in 1..Len(l) /\ ~(l[n + 1].ptr < p)
          BY <1>1, <4>2
        <5>2. l[n + 1].ptr < l[k].ptr
          BY <4>2, <3>1, <5>1 DEF Ordered
        <5> QED
          BY <1>0, <1>2, <3>1, <5>1, <5>2
      <4> QED
        BY <4>1, <4>2
    <3> QED
      BY <1>0, <1>2, <3>1, <3>2
  <2>4. \A k \in 1..n : l[k].ptr < p
    BY <1>1
  <2>5. ASSUME NEW j \in 1..(Len(l) + 1), NEW k \in 1..(Len(l) + 1), j < k
        PROVE  t[j].ptr < t[k].ptr
    <3>1. CASE k <= n
      <4>1. j \in 1..n /\ k \in 1..n /\ j \in 1..Len(l) /\ k \in 1..Len(l)
        BY <2>5, <3>1
      <4>2. l[j].ptr < l[k].ptr
        BY <2>5, <4>1 DEF Ordered
      <4> QED
        BY <2>2, <4>1, <4>2
    <3>2. CASE k = n + 1
      <4>1. j \in 1..n /\ t[j] = l[j] /\ t[k] = e
        BY <2>2, <2>5, <3>2
      <4> QED
        BY <2>13, <2>4, <4>1
    <3>3. CASE k > n + 1
      <4>1. t[k] = l[k - 1] /\ k - 1 \in (n + 1)..Len(l) /\ k - 1 \in 1..Len(l)
        BY <2>2, <3>3
      <4>2. l[k - 1].ptr > p /\ l[k - 1].ptr \in Nat
        BY <1>2, <2>3, <4>1
      <4>3. CASE j <= n
        <5>1. t[j] = l[j] /\ j \in 1..Len(l) /\ l[j].ptr < p /\ l[j].ptr \in Nat
          BY <1>2, <2>2, <2>4, <4>3
        <5> QED
          BY <1>0, <4>1, <4>2, <5>1
      <4>4. CASE j = n + 1
        BY <1>0, <2>13, <2>2, <4>1, <4>2, <4>4
      <4>5. CASE j > n + 1
        <5>1. t[j] = l[j - 1] /\ j - 1 \in 1..Len(l) /\ j - 1 < k - 1
          <6>1. j \in (n + 2)..(Len(l) + 1) /\ j - 1 \in 1..Len(l) /\ j - 1 < k - 1
            BY <2>5, <4>5
          <6> QED
            BY <2>2, <6>1
        <5> QED
          BY <4>1, <5>1 DEF Ordered
      <4> QED
        BY <4>3, <4>4, <4>5
    <3> QED
      BY <3>1, <3>2, <3>3
  <2>6. Ordered(t)
    BY <2>2, <2>5 DEF Ordered
  <2>7. \A k \in 1..Len(l) : l[k].ptr # p
    BY <1>0, <1>2, <2>3, <2>4
  <2>8. Range(t) = {t[k] : k \in 1..(Len(l) + 1)} /\ Range(l) = {l[k] : k \in 1..Len(l)}
    BY <2>2, ItemsOf
  <2>9. Range(t) \subseteq Range(l) \cup {e}
    <3>1. ASSUME NEW k \in 1..(Len(l) + 1) PROVE t[k] \in Range(l) \cup {e}
      <4>1. CASE k \in 1..n
        BY <2>2, <2>8, <4>1
      <4>2. CASE k = n + 1
        BY <2>2, <4>2
      <4>3. CASE k \in (n + 2)..(Len(l) + 1)
        <5>1. k - 1 \in 1..Len(l) /\ t[k] = l[k - 1]
          BY <2>2, <4>3
        <5> QED
          BY <2>8, <5>1
      <4> QED
        BY <4>1, <4>2, <4>3
    <3> QED
      BY <2>8, <3>1
  <2>10. Range(l) \cup {e} \subseteq Range(t)
    <3>1. ASSUME NEW k \in 1..Len(l) PROVE l[k] \in Range(t)
      <4>1. CASE k <= n
        BY <2>2, <2>8, <4>1
      <4>2. CASE k > n
        <5>1. k + 1 \in (n + 2)..(Len(l) + 1) /\ (k + 1) - 1 = k /\ k + 1 \in 1..(Len(l) + 1)
          BY <4>2
        <5>2. t[k + 1] = l[k]
          BY <2>2, <5>1
        <5> QED
          BY <2>8, <5>1, <5>2
      <4> QED
        BY <4>1, <4>2
    <3>2. n + 1 \in 1..(Len(l) + 1)
      OBVIOUS
    <3> QED
      BY <2>2, <2>8, <3>1, <3>2
  <2>11. Range(t) = Put(Range(l), e)
    BY <2>13, <2>7, <2>8, <2>9, <2>10 DEF Put
  <2>12. Entered(Range(l), p, size, e)
    BY <2>13, <2>7, <2>8 DEF Entered
  <2> QED
    BY <1>5, <2>2, <2>6, <2>11, <2>12
<1> QED
  BY <1>6, <1>7

LEMMA OneLess ==
  ASSUME NEW i \in Item
  PROVE  /\ [i EXCEPT !.cnt = @ - 1] \in Item /\ [i EXCEPT !.cnt = @ - 1].ptr = i.ptr
         /\ [i EXCEPT !.cnt = @ - 1].cnt = i.cnt - 1
<1>1. PICK c \in Int : c = i.cnt - 1
  BY DEF Item
<1>2. [i EXCEPT !.cnt = c] = [ptr |-> i.ptr, size |-> i.size, cnt |-> c]
      /\ i.ptr \in Ptrs /\ i.size \in Nat
  BY DEF Item
<1>3. [i EXCEPT !.cnt = c] \in Item /\ [i EXCEPT !.cnt = c].ptr = i.ptr
      /\ [i EXCEPT !.cnt = c].cnt = c
  BY <1>2 DEF Item
<1> QED
  BY <1>1, <1>3, Zenon

LEMMA DeallocWorks ==
  ASSUME NEW l \in Seq(Item), Ordered(l), NEW i \in Range(l)
  PROVE  /\ dealloc(l, i.ptr) \in Seq(Item) /\ Ordered(dealloc(l, i.ptr))
         /\ Range(dealloc(l, i.ptr)) = Put(Range(l), [i EXCEPT !.cnt = @ - 1])
<1>1. PICK a \in 1..Len(l) : i = l[a]
  BY ItemsOf
<1>2. \A k \in 1..Len(l) : l[k] \in Item /\ l[k].ptr \in Nat
  BY ItemType
<1>3. \A k \in 1..Len(l) : l[k].ptr = i.ptr <=> k = a
  BY <1>1, <1>2 DEF Ordered
<1>4. PICK e \in Item : e = [i EXCEPT !.cnt = @ - 1] /\ e.ptr = i.ptr
  <2>1. i \in Item
    BY <1>1, <1>2
  <2> QED
    BY <2>1, OneLess, Zenon
<1>5. PICK t : t = dealloc(l, i.ptr)
  OBVIOUS
<1>6. t = [l EXCEPT ![a] = e]
  <2> DEFINE here == {k \in DOMAIN l : l[k].ptr = i.ptr}
  <2>1. here = {a}
    BY <1>1, <1>3
  <2>2. (CHOOSE k \in here : \A j \in here : k <= j) = a
    BY <2>1
  <2>3. dealloc(l, i.ptr) = [l EXCEPT ![a].cnt = @ - 1]
    BY <2>1, <2>2, Zenon DEF dealloc
  <2>4. [l EXCEPT ![a].cnt = @ - 1] = [l EXCEPT ![a] = e]
    <3>1. [l[a] EXCEPT !.cnt = @ - 1] = e
      BY <1>1, <1>4
    <3> QED
      BY <3>1
  <2> QED
    BY <1>5, <2>3, <2>4
<1>7. t \in Seq(Item) /\ Len(t) = Len(l)
  BY <1>6
<1>8. \A k \in 1..Len(l) : t[k] = IF k = a THEN e ELSE l[k]
  BY <1>6
<1>9. \A k \in 1..Len(l) : t[k].ptr = l[k].ptr
  BY <1>1, <1>4, <1>8
<1>10. Ordered(t)
  BY <1>7, <1>9 DEF Ordered
<1>11. Range(t) = {t[k] : k \in 1..Len(l)} /\ Range(l) = {l[k] : k \in 1..Len(l)}
  BY <1>7, ItemsOf
<1>12. Range(t) = Put(Range(l), e)
  BY <1>1, <1>3, <1>4, <1>8, <1>11 DEF Put
<1> QED
  BY <1>4, <1>5, <1>7, <1>10, <1>12

-----------------------------------------------------------------------------
(* The bytes of the items.                                                 *)

\* Listed as a function of the items.
Units(R) == UNION {{i.ptr} \X (1..i.size) : i \in {j \in R : j.cnt > 0}}

LEMMA ListedUnits ==
  ASSUME list \in Seq(Item) PROVE Listed = Units(Range(list))
<1>1. DOMAIN list = 1..Len(list) /\ Range(list) = {list[k] : k \in 1..Len(list)}
  BY ItemsOf
<1> QED
  BY <1>1 DEF Listed, Units, InUse

Cells(p, n) == {p} \X (1..n)

\* A block adds its size to the bytes of others.
LEMMA AddBlock ==
  ASSUME NEW A, NEW p, NEW n \in Nat, A \cap Cells(p, n) = {},
         IsFiniteSet(A) \/ IsFiniteSet(A \cup Cells(p, n))
  PROVE  /\ IsFiniteSet(A) /\ IsFiniteSet(A \cup Cells(p, n))
         /\ Cardinality(A) \in Nat
         /\ Cardinality(A \cup Cells(p, n)) = Cardinality(A) + n
<1>0. PICK C : C = Cells(p, n)
  OBVIOUS
<1>1. IsFiniteSet(1..n) /\ Cardinality(1..n) = n
  BY FS_Interval
<1>2. IsFiniteSet({p}) /\ Cardinality({p}) = 1
  BY FS_Singleton
<1>3. IsFiniteSet(C) /\ Cardinality(C) = Cardinality({p}) * Cardinality(1..n)
  BY <1>0, <1>1, <1>2, FS_Product DEF Cells
<1>4. 1 * n = n
  OBVIOUS
<1>5. IsFiniteSet(C) /\ Cardinality(C) = n
  BY <1>1, <1>2, <1>3, <1>4
<1>6. A \subseteq A \cup C
  OBVIOUS
<1>7. IsFiniteSet(A)
  BY <1>0, <1>6, FS_Subset
<1>8. IsFiniteSet(A \cup C)
      /\ Cardinality(A \cup C) = Cardinality(A) + Cardinality(C) - Cardinality(A \cap C)
  BY <1>5, <1>7, FS_Union
<1>9. Cardinality(A \cap C) = 0
  BY <1>0, FS_EmptySet
<1>10. Cardinality(A) \in Nat
  BY <1>7, FS_CardinalityType
<1> QED
  BY <1>0, <1>5, <1>7, <1>8, <1>9, <1>10

LEMMA UnitsGain ==
  ASSUME NEW R \in SUBSET Item, NEW e \in Item, e.cnt = 1,
         \A j \in R : j.ptr = e.ptr => j.cnt = 0, IsFiniteSet(Units(R))
  PROVE  /\ IsFiniteSet(Units(Put(R, e)))
         /\ Cardinality(Units(R)) \in Nat
         /\ Cardinality(Units(Put(R, e))) = Cardinality(Units(R)) + e.size
<1>1. e.size \in Nat
  BY DEF Item
<1>2. Units(Put(R, e)) = Units(R) \cup Cells(e.ptr, e.size)
  BY DEF Units, Put, Item, Cells
<1>3. Units(R) \cap Cells(e.ptr, e.size) = {}
  BY DEF Units, Item, Cells
<1> QED
  <2>1. PICK n \in Nat : n = e.size
    BY <1>1
  <2>2. PICK p : p = e.ptr
    OBVIOUS
  <2>3. PICK A : A = Units(R)
    OBVIOUS
  <2>4. PICK B : B = Units(Put(R, e))
    OBVIOUS
  <2>5. B = A \cup Cells(p, n) /\ A \cap Cells(p, n) = {} /\ IsFiniteSet(A)
    BY <1>2, <1>3, <2>1, <2>2, <2>3, <2>4, Zenon
  <2>6. /\ IsFiniteSet(A \cup Cells(p, n)) /\ Cardinality(A) \in Nat
        /\ Cardinality(A \cup Cells(p, n)) = Cardinality(A) + n
    BY <2>5, AddBlock
  <2> QED
    BY <2>1, <2>3, <2>4, <2>5, <2>6, Zenon

LEMMA UnitsLose ==
  ASSUME NEW R \in SUBSET Item, NEW i \in R, i.cnt = 1, NEW e \in Item,
         e.ptr = i.ptr, e.cnt = 0, \A j \in R : j.ptr = i.ptr => j = i,
         IsFiniteSet(Units(R))
  PROVE  /\ IsFiniteSet(Units(Put(R, e)))
         /\ Cardinality(Units(Put(R, e))) \in Nat
         /\ Cardinality(Units(R)) = Cardinality(Units(Put(R, e))) + i.size
<1>1. i.size \in Nat
  BY DEF Item
<1>2. Units(R) = Units(Put(R, e)) \cup Cells(i.ptr, i.size)
  BY DEF Units, Put, Item, Cells
<1>3. Units(Put(R, e)) \cap Cells(i.ptr, i.size) = {}
  BY DEF Units, Put, Item, Cells
<1>4. PICK n \in Nat : n = i.size
  BY <1>1
<1>5. PICK p : p = i.ptr
  OBVIOUS
<1>6. PICK A : A = Units(Put(R, e))
  OBVIOUS
<1>7. /\ Units(R) = A \cup Cells(p, n) /\ A \cap Cells(p, n) = {}
      /\ IsFiniteSet(A \cup Cells(p, n))
  BY <1>2, <1>3, <1>4, <1>5, <1>6, Zenon
<1>8. /\ IsFiniteSet(A) /\ Cardinality(A) \in Nat
      /\ Cardinality(A \cup Cells(p, n)) = Cardinality(A) + n
  BY <1>7, AddBlock
<1> QED
  BY <1>4, <1>6, <1>7, <1>8, Zenon

-----------------------------------------------------------------------------
(* libc.                                                                   *)

GoodLive(lv) == DOMAIN lv \subseteq Ptrs /\ lv \in [DOMAIN lv -> Nat]

\* The blocks b are the blocks a and q, which has size bytes.
Grows(a, b, q, size) ==
  /\ DOMAIN b = DOMAIN a \cup {q} /\ b[q] = size
  /\ \A p \in DOMAIN a \ {q} : b[p] = a[p]

LEMMA WithWorks ==
  ASSUME NEW lv, GoodLive(lv), NEW q \in Ptrs, NEW size \in Nat
  PROVE  GoodLive(With(lv, q, size)) /\ Grows(lv, With(lv, q, size), q, size)
BY DEF GoodLive, Grows, With

LEMMA MallocResult ==
  ASSUME GoodLive(live), NEW size \in Nat, NEW r \in LibMalloc(size)
  PROVE  /\ GoodLive(r.live)
         /\ \/ r.ptr = NULL /\ r.live = live
            \/ r.ptr \in Ptrs \ DOMAIN live /\ Grows(live, r.live, r.ptr, size)
<1>1. CASE r = [live |-> live, ptr |-> NULL]
  BY <1>1
<1>2. CASE \E q \in Ptrs \ DOMAIN live : r = [live |-> With(live, q, size), ptr |-> q]
  BY <1>2, WithWorks
<1> QED
  BY <1>1, <1>2 DEF LibMalloc

LEMMA FreeResult ==
  ASSUME GoodLive(live), NEW ptr \in DOMAIN live
  PROVE  /\ GoodLive(LibFree(ptr)) /\ DOMAIN LibFree(ptr) = DOMAIN live \ {ptr}
         /\ \A p \in DOMAIN live \ {ptr} : LibFree(ptr)[p] = live[p]
BY DEF GoodLive, LibFree

LEMMA ReallocResult ==
  ASSUME GoodLive(live), NEW ptr \in DOMAIN live, NEW size \in Nat,
         NEW r \in LibRealloc(ptr, size)
  PROVE  /\ GoodLive(r.live)
         /\ \/ r.ptr = NULL /\ r.live = live
            \/ /\ r.ptr \in Ptrs /\ r.ptr \notin DOMAIN live \ {ptr}
               /\ Grows(LibFree(ptr), r.live, r.ptr, size)
<1>1. CASE r = [live |-> live, ptr |-> NULL]
  BY <1>1
<1>2. CASE \E q \in {ptr} \cup (Ptrs \ DOMAIN live) :
             r = [live |-> With(LibFree(ptr), q, size), ptr |-> q]
  <2>1. PICK q \in {ptr} \cup (Ptrs \ DOMAIN live) :
             r = [live |-> With(LibFree(ptr), q, size), ptr |-> q]
    BY <1>2
  <2>2. q \in Ptrs
    BY DEF GoodLive
  <2>3. GoodLive(LibFree(ptr))
    BY FreeResult
  <2> QED
    BY <2>1, <2>2, <2>3, WithWorks
<1> QED
  BY <1>1, <1>2 DEF LibRealloc

-----------------------------------------------------------------------------
(* A block that comes to the list and to libc, and one that goes.          *)

\* The bytes that l lists as allocated are n.
Weighs(l, n) == IsFiniteSet(Units(Range(l))) /\ Cardinality(Units(Range(l))) = n

LEMMA BlockComes ==
  ASSUME NEW l, NEW lv, NEW given, NEW S, ListGood(l, lv, given, S),
         NEW M, NoneDangles(l, lv, M),
         NEW q \in Ptrs \ DOMAIN lv, NEW size \in Nat, NEW lw, Grows(lv, lw, q, size)
  PROVE  /\ ListGood(alloc(l, q, size), lw, given \cup {q}, S)
         /\ NoneDangles(alloc(l, q, size), lw, M)
         /\ \A n : M = {} /\ Weighs(l, n) => n \in Nat /\ Weighs(alloc(l, q, size), n + size)
<1>0. l \in Seq(Item) /\ Ordered(l) /\ Range(l) \subseteq Item
  BY ItemsOf DEF ListGood
<1>1. PICK m : m = alloc(l, q, size)
  OBVIOUS
<1>2. m \in Seq(Item) /\ Ordered(m)
  BY <1>0, <1>1, AllocWorks
<1>3. PICK e : Entered(Range(l), q, size, e) /\ Range(m) = Put(Range(l), e)
  BY <1>0, <1>1, AllocWorks
<1>4. e \in Item /\ e.ptr = q /\ e.size = size
  BY <1>3 DEF Entered
<1>5. q \notin S => e.cnt = 1
  <2>1. \A i \in Range(l) : i.ptr = q /\ q \notin S => i.cnt = 0
    BY DEF ListGood, Right
  <2> QED
    BY <1>3, <2>1 DEF Entered
<1>6. q \notin M => e.cnt = 1 /\ \A i \in Range(l) : i.ptr = q => i.cnt = 0
  <2>1. \A i \in Range(l) : i.ptr = q /\ q \notin M => i.cnt = 0
    BY DEF NoneDangles
  <2> QED
    BY <1>3, <2>1 DEF Entered
<1>7. ListGood(m, lw, given \cup {q}, S)
  <2>1. \A i \in Range(m) : i = e \/ (i \in Range(l) /\ i.ptr # q)
    BY <1>3, <1>4 DEF Put
  <2>2. \A i \in Range(m) : i.ptr \in given \cup {q}
    BY <1>4, <2>1 DEF ListGood
  <2>3. ASSUME NEW i \in Range(m), i.ptr \notin S PROVE Right(i, lw)
    <3>1. CASE i = e
      BY <1>4, <1>5, <2>3, <3>1 DEF Right, Grows
    <3>2. CASE i \in Range(l) /\ i.ptr # q
      <4>1. Right(i, lv)
        BY <2>3, <3>2 DEF ListGood
      <4> QED
        BY <3>2, <4>1 DEF Right, Grows
    <3> QED
      BY <2>1, <3>1, <3>2
  <2>4. ASSUME NEW p \in (given \cup {q} \cup DOMAIN lw) \ S
        PROVE  \E i \in Range(m) : i.ptr = p
    <3>1. CASE p = q
      BY <1>3, <1>4, <3>1 DEF Put
    <3>2. CASE p # q
      <4>1. p \in (given \cup DOMAIN lv) \ S
        BY <3>2 DEF Grows
      <4>2. PICK i \in Range(l) : i.ptr = p
        BY <4>1 DEF ListGood
      <4> QED
        BY <1>3, <1>4, <3>2, <4>2 DEF Put
    <3> QED
      BY <3>1, <3>2
  <2> QED
    BY <1>2, <2>2, <2>3, <2>4 DEF ListGood
<1>8. NoneDangles(m, lw, M)
  BY <1>3, <1>4, <1>6 DEF NoneDangles, Put, Grows
<1>9. ASSUME NEW n, M = {}, Weighs(l, n) PROVE n \in Nat /\ Weighs(m, n + size)
  <2>1. e.cnt = 1 /\ \A j \in Range(l) : j.ptr = e.ptr => j.cnt = 0
    BY <1>4, <1>6, <1>9
  <2>2. /\ IsFiniteSet(Units(Put(Range(l), e)))
        /\ Cardinality(Units(Range(l))) \in Nat
        /\ Cardinality(Units(Put(Range(l), e))) = Cardinality(Units(Range(l))) + e.size
    BY <1>0, <1>4, <1>9, <2>1, UnitsGain DEF Weighs
  <2> QED
    BY <1>3, <1>4, <1>9, <2>2 DEF Weighs
<1> QED
  BY <1>1, <1>7, <1>8, <1>9

\* The block goes from the list.  It goes from libc as well, or its address
\* is lost sight of.
LEMMA BlockGoes ==
  ASSUME NEW l, NEW lv, NEW given, NEW S, ListGood(l, lv, given, S),
         NEW M, NoneDangles(l, lv, M), NEW i \in Range(l), i.cnt # 0,
         NEW lw, DOMAIN lv \ {i.ptr} \subseteq DOMAIN lw, DOMAIN lw \subseteq DOMAIN lv,
         \A p \in DOMAIN lv \ {i.ptr} : lw[p] = lv[p],
         NEW T, S \subseteq T, i.ptr \in T \/ i.ptr \notin DOMAIN lw
  PROVE  /\ ListGood(dealloc(l, i.ptr), lw, given, T)
         /\ NoneDangles(dealloc(l, i.ptr), lw, M)
         /\ \A n : M = {} /\ Weighs(l, n) =>
              /\ n \in Nat /\ i.size \in Nat
              /\ n - i.size \in Nat /\ Weighs(dealloc(l, i.ptr), n - i.size)
<1>0. /\ l \in Seq(Item) /\ Ordered(l) /\ Range(l) \subseteq Item /\ i \in Item
      /\ i.size \in Nat /\ i.cnt \in Int
  <2>1. l \in Seq(Item) /\ Ordered(l) /\ Range(l) \subseteq Item /\ i \in Item
    BY ItemsOf DEF ListGood
  <2> QED
    BY <2>1 DEF Item
<1>1. \A j \in Range(l) : j.ptr = i.ptr => j = i
  BY <1>0, OneItem
<1>2. PICK e \in Item : e = [i EXCEPT !.cnt = @ - 1]
  BY <1>0, OneLess, Zenon
<1>3. e.ptr = i.ptr /\ e.cnt = i.cnt - 1
  BY <1>0, <1>2, OneLess
<1>4. PICK m : m = dealloc(l, i.ptr)
  OBVIOUS
<1>5. m \in Seq(Item) /\ Ordered(m) /\ Range(m) = Put(Range(l), e)
  BY <1>0, <1>2, <1>4, DeallocWorks
<1>6. \A j \in Range(m) : j = e \/ (j \in Range(l) /\ j.ptr # i.ptr)
  BY <1>3, <1>5 DEF Put
<1>7. ListGood(m, lw, given, T)
  <2>1. \A j \in Range(m) : j.ptr \in given
    BY <1>3, <1>6 DEF ListGood
  <2>2. ASSUME NEW j \in Range(m), j.ptr \notin T PROVE Right(j, lw)
    <3>1. CASE j = e
      <4>1. i.ptr \notin T /\ i.ptr \notin DOMAIN lw /\ Right(i, lv)
        BY <1>3, <2>2, <3>1 DEF ListGood
      <4>2. e.cnt = 0
        BY <1>3, <4>1 DEF Right
      <4> QED
        BY <1>3, <3>1, <4>1, <4>2 DEF Right
    <3>2. CASE j \in Range(l) /\ j.ptr # i.ptr
      <4>1. Right(j, lv)
        BY <2>2, <3>2 DEF ListGood
      <4> QED
        BY <3>2, <4>1 DEF Right
    <3> QED
      BY <1>6, <3>1, <3>2
  <2>3. ASSUME NEW p \in (given \cup DOMAIN lw) \ T PROVE \E j \in Range(m) : j.ptr = p
    <3>1. PICK j \in Range(l) : j.ptr = p
      BY DEF ListGood
    <3> QED
      BY <1>3, <1>5, <3>1 DEF Put
  <2> QED
    BY <1>5, <2>1, <2>2, <2>3 DEF ListGood
<1>8. NoneDangles(m, lw, M)
  <2>1. ASSUME NEW j \in Range(m), j.ptr \notin M
        PROVE  j.cnt \in {0, 1} /\ (j.cnt = 1 => j.ptr \in DOMAIN lw)
    <3>1. CASE j = e
      <4>1. i.cnt = 1
        BY <1>3, <2>1, <3>1 DEF NoneDangles
      <4> QED
        BY <1>3, <3>1, <4>1
    <3>2. CASE j \in Range(l) /\ j.ptr # i.ptr
      BY <2>1, <3>2 DEF NoneDangles
    <3> QED
      BY <1>6, <3>1, <3>2
  <2> QED
    BY <2>1 DEF NoneDangles
<1>9. ASSUME NEW n, M = {}, Weighs(l, n)
      PROVE  n \in Nat /\ i.size \in Nat /\ n - i.size \in Nat /\ Weighs(m, n - i.size)
  <2>0. i.cnt = 1 /\ e.cnt = 0
    BY <1>3, <1>9 DEF NoneDangles
  <2>1. /\ IsFiniteSet(Units(Put(Range(l), e)))
        /\ Cardinality(Units(Put(Range(l), e))) \in Nat
        /\ Cardinality(Units(Range(l))) = Cardinality(Units(Put(Range(l), e))) + i.size
    BY <1>0, <1>1, <1>3, <1>9, <2>0, UnitsLose DEF Weighs
  <2> QED
    BY <1>0, <1>5, <1>9, <2>1 DEF Weighs
<1> QED
  BY <1>4, <1>7, <1>8, <1>9

-----------------------------------------------------------------------------
(* The state.                                                              *)

Sound(l, lv, n, given, S, M) ==
  /\ ListGood(l, lv, given, S) /\ NoneDangles(l, lv, M)
  /\ M = {} => Weighs(l, n)

Active == status \in {"loading", "running"} /\ part > 1

Counts(a, f, u) == a \in Int /\ f \in Int /\ u \in Int

LEMMA TypeForm ==
  TraceType <=> part \in {1, 2, 3} /\ GoodLive(live) /\ Counts(n_allocb, n_freeb, unlisted)
<1>1. {n_allocb, n_freeb, unlisted} \subseteq Int <=> Counts(n_allocb, n_freeb, unlisted)
  BY Zenon DEF Counts
<1> QED
  BY <1>1, Zenon DEF TraceType, GoodLive

LEMMA InvForm ==
  TraceInv <=> /\ part \in {1, 2, 3} /\ GoodLive(live) /\ Counts(n_allocb, n_freeb, unlisted)
               /\ LibraryShielded
               /\ status = "loading" => list = <<>>
               /\ Active => Sound(list, live, (n_allocb - n_freeb) - unlisted, seen,
                                  Strayed, Adrift)
<1>1. ASSUME list \in Seq(Item), Counts(n_allocb, n_freeb, unlisted)
      PROVE  BalanceInv <=> (Adrift = {} => Weighs(list, (n_allocb - n_freeb) - unlisted))
  <2>1. PICK U : U = Units(Range(list)) /\ U = Listed
    BY <1>1, ListedUnits
  <2>2. IsFiniteSet(U) => Cardinality(U) \in Nat
    BY FS_CardinalityType
  <2> QED
    BY <1>1, <2>1, <2>2 DEF BalanceInv, Weighs, Counts
<1>2. ListGood(list, live, seen, Strayed) => list \in Seq(Item)
  BY DEF ListGood
<1> QED
  BY <1>1, <1>2, TypeForm, Zenon DEF TraceInv, Sound, Active

LEMMA InvFormNext ==
  TraceInv' <=> /\ part' \in {1, 2, 3} /\ GoodLive(live')
                /\ Counts(n_allocb', n_freeb', unlisted')
                /\ LibraryShielded'
                /\ status' = "loading" => list' = <<>>
                /\ Active' => Sound(list', live', (n_allocb' - n_freeb') - unlisted', seen',
                                    Strayed', Adrift')
<1>1. TraceInv' <=>
        (/\ part \in {1, 2, 3} /\ GoodLive(live) /\ Counts(n_allocb, n_freeb, unlisted)
         /\ LibraryShielded
         /\ status = "loading" => list = <<>>
         /\ Active => Sound(list, live, (n_allocb - n_freeb) - unlisted, seen,
                            Strayed, Adrift))'
  BY InvForm, PTL
<1> QED
  BY <1>1, Zenon

LEMMA StrayWorks ==
  ASSUME NEW ps, NEW reason, Stray(ps, reason), part' = part
  PROVE  /\ Strayed' = Strayed \cup (ps \ {NULL})
         /\ part = 3 /\ reason # "moved" => Adrift' = Adrift
         /\ part # 3 \/ reason = "moved" => Adrift' = Adrift \cup (ps \ {NULL})
<1>1. strays' = strays \cup ((ps \ {NULL}) \X {reason})
  BY DEF Stray
<1> DEFINE Q == ps \ {NULL}
<1>0. \A s \in Q \X {reason} : s[1] \in Q /\ s[2] = reason
  OBVIOUS
<1>4. \A q \in Q : \E s \in Q \X {reason} : s[1] = q /\ s[2] = reason
  <2>1. ASSUME NEW q \in Q PROVE \E s \in Q \X {reason} : s[1] = q /\ s[2] = reason
    <3>1. <<q, reason>> \in Q \X {reason} /\ <<q, reason>>[1] = q /\ <<q, reason>>[2] = reason
      BY <2>1
    <3> QED
      BY <3>1
  <2> QED
    BY <2>1
<1>5. PICK P : P = Q \X {reason}
  OBVIOUS
<1> HIDE DEF Q
<1>6. /\ \A s \in P : s[1] \in Q /\ s[2] = reason
      /\ \A q \in Q : \E s \in P : s[1] = q /\ s[2] = reason
  BY <1>0, <1>4, <1>5
<1>7. strays' = strays \cup P
  BY <1>1, <1>5 DEF Q
<1>2. Strayed' = Strayed \cup (ps \ {NULL})
  <2>1. {s[1] : s \in strays \cup P} = {s[1] : s \in strays} \cup Q
    BY <1>6
  <2> QED
    BY <1>7, <2>1 DEF Strayed, Q
<1> DEFINE Moved(st) == {s[1] : s \in {t \in st : t[2] = "moved"}}
<1>3. /\ reason # "moved" => Moved(strays') = Moved(strays)
      /\ reason = "moved" => Moved(strays') = Moved(strays) \cup (ps \ {NULL})
  <2>1. reason # "moved" => Moved(strays \cup P) = Moved(strays)
    BY <1>6
  <2>2. reason = "moved" => Moved(strays \cup P) = Moved(strays) \cup Q
    BY <1>6
  <2> QED
    BY <1>7, <2>1, <2>2 DEF Q
<1> QED
  BY <1>2, <1>3 DEF Adrift

LEMMA SameStrays ==
  ASSUME strays' = strays, part' = part PROVE Strayed' = Strayed /\ Adrift' = Adrift
BY DEF Strayed, Adrift

-----------------------------------------------------------------------------
(* The calls.                                                              *)

\* What the cases of a running call have to show.
LEMMA CallCase ==
  ASSUME TraceInv, Call, UNCHANGED status, GoodLive(live'),
         Counts(n_allocb', n_freeb', unlisted'),
         status = "loading" => list' = <<>>,
         Active /\ Sound(list, live, (n_allocb - n_freeb) - unlisted, seen, Strayed, Adrift)
           => Sound(list', live', (n_allocb' - n_freeb') - unlisted', seen', Strayed', Adrift')
  PROVE  TraceInv'
<1>1. /\ part \in {1, 2, 3}
      /\ Active => Sound(list, live, (n_allocb - n_freeb) - unlisted, seen, Strayed, Adrift)
  BY InvForm, Zenon
<1>2. part' = part /\ status' = status /\ status # "abort"
  BY DEF Call
<1>3. Active' => Active
  BY <1>2, Zenon DEF Active
<1>4. LibraryShielded'
  BY <1>2, Zenon DEF LibraryShielded
<1> QED
  BY <1>1, <1>2, <1>3, <1>4, InvFormNext, Zenon

\* The end of the program.
LEMMA EndedStep ==
  ASSUME TraceInv, part' = part, status' \notin {"loading", "running"}, GoodLive(live'),
         Counts(n_allocb', n_freeb', unlisted'),
         part = 3 /\ status' = "abort" => log'.of \in Adrift'
  PROVE  TraceInv'
<1>1. ~Active' /\ LibraryShielded' /\ status' # "loading" /\ part' \in {1, 2, 3}
  BY InvForm DEF Active, LibraryShielded
<1> QED
  BY <1>1, InvFormNext, Zenon

LEMMA ReturnCounts ==
  ASSUME NEW r, NEW size \in Nat, Return(r, size), Counts(n_allocb, n_freeb, unlisted)
  PROVE  unlisted' \in Int
BY DEF Return, Counts

\* Nothing changes in a sound state but what is lost sight of.
LEMMA MoreStrays ==
  ASSUME NEW l, NEW lv, NEW n, NEW given, NEW S, NEW M, Sound(l, lv, n, given, S, M),
         NEW T, S \subseteq T, NEW N, M \subseteq N
  PROVE  Sound(l, lv, n, given, T, N)
<1>1. ListGood(l, lv, given, T)
  BY DEF Sound, ListGood
<1>2. NoneDangles(l, lv, N)
  BY DEF Sound, NoneDangles
<1>3. N = {} => Weighs(l, n)
  BY DEF Sound
<1> QED
  BY <1>1, <1>2, <1>3, Zenon DEF Sound

\* libc's answer to a request for a new block.
LEMMA EnteredStep ==
  ASSUME TraceInv, NEW size \in Nat, NEW r \in LibMalloc(size), Call, Obtain(r, size),
         n_allocb' = n_allocb + size, n_freeb' = n_freeb
  PROVE  TraceInv'
<1>1. /\ GoodLive(r.live)
      /\ \/ r.ptr = NULL /\ r.live = live
         \/ r.ptr \in Ptrs \ DOMAIN live /\ Grows(live, r.live, r.ptr, size)
  BY InvForm, MallocResult
<1>2. live' = r.live /\ part' = part /\ Return(r, size)
      /\ Stray(IF part > 1 /\ status = "loading" THEN {r.ptr} ELSE {}, "early")
  BY DEF Obtain, Return, Call
<1>3. Counts(n_allocb', n_freeb', unlisted')
  <2>1. Counts(n_allocb, n_freeb, unlisted)
    BY InvForm
  <2> QED
    BY <1>2, <2>1, ReturnCounts DEF Counts
<1>4. CASE status' = "segv"
  BY <1>1, <1>2, <1>3, <1>4, EndedStep
<1>5. CASE /\ list' = IF part = 1 \/ r.ptr = NULL \/ status = "loading" THEN list
                      ELSE alloc(list, r.ptr, size)
           /\ UNCHANGED status
  <2>1. status = "loading" => list' = <<>>
    <3>1. status = "loading" => list = <<>>
      BY InvForm
    <3> QED
      BY <1>5, <3>1
  <2> SUFFICES ASSUME Active,
                      Sound(list, live, (n_allocb - n_freeb) - unlisted, seen, Strayed, Adrift)
               PROVE  Sound(list', live', (n_allocb' - n_freeb') - unlisted', seen',
                            Strayed', Adrift')
    BY <1>1, <1>2, <1>3, <1>5, <2>1, CallCase, Zenon
  <2>2. part > 1 /\ part # 1 /\ Counts(n_allocb, n_freeb, unlisted)
    BY InvForm DEF Active
  <2>3. PICK n : n = (n_allocb - n_freeb) - unlisted
    OBVIOUS
  <2>4. Sound(list, live, n, seen, Strayed, Adrift)
    BY <2>3
  <2>5. CASE r.ptr = NULL /\ r.live = live
    <3>1. list' = list /\ live' = live /\ seen' = seen /\ unlisted' = unlisted + size
      BY <1>2, <1>5, <2>5 DEF Return
    <3>2. (n_allocb' - n_freeb') - unlisted' = n
      BY <2>2, <2>3, <3>1 DEF Counts
    <3>3. Strayed' = Strayed /\ Adrift' = Adrift
      <4>1. PICK ps : ps = (IF part > 1 /\ status = "loading" THEN {r.ptr} ELSE {})
        OBVIOUS
      <4>2. ps \ {NULL} = {} /\ Stray(ps, "early")
        BY <1>2, <2>5, <4>1
      <4> QED
        BY <1>2, <4>2, StrayWorks
    <3> QED
      BY <2>4, <3>1, <3>2, <3>3
  <2>6. CASE r.ptr \in Ptrs \ DOMAIN live /\ Grows(live, r.live, r.ptr, size)
    <3>1. r.ptr # NULL
      BY <2>6, TracerAssumption
    <3>2. CASE status = "loading"
      <4>1. list' = list /\ list = <<>> /\ unlisted' = unlisted + size /\ seen' = seen \cup {r.ptr}
        BY <1>2, <1>5, <3>1, <3>2, InvForm DEF Return
      <4>2. (n_allocb' - n_freeb') - unlisted' = n
        BY <2>2, <2>3, <4>1 DEF Counts
      <4>3. Strayed' = Strayed \cup {r.ptr} /\ Adrift \subseteq Adrift'
        BY <1>2, <2>2, <3>1, <3>2, StrayWorks
      <4>4. Range(list) = {}
        BY <4>1 DEF Range
      <4>5. ListGood(list', live', seen', Strayed')
        BY <1>2, <2>4, <2>6, <4>1, <4>3, <4>4 DEF Sound, ListGood, Grows
      <4>6. NoneDangles(list', live', Adrift')
        BY <4>1, <4>4 DEF NoneDangles
      <4> QED
        BY <2>4, <4>1, <4>2, <4>3, <4>5, <4>6 DEF Sound
    <3>3. CASE status # "loading"
      <4>1. list' = alloc(list, r.ptr, size) /\ unlisted' = unlisted /\ seen' = seen \cup {r.ptr}
        BY <1>2, <1>5, <2>2, <3>1, <3>3 DEF Return
      <4>2. (n_allocb' - n_freeb') - unlisted' = n + size
        BY <2>2, <2>3, <4>1 DEF Counts
      <4>3. Strayed' = Strayed /\ Adrift' = Adrift
        BY <1>2, <3>3, StrayWorks
      <4>4. /\ ListGood(list', live', seen', Strayed)
            /\ NoneDangles(list', live', Adrift)
            /\ \A w : Adrift = {} /\ Weighs(list, w) => w \in Nat /\ Weighs(list', w + size)
        <5>1. ListGood(list, live, seen, Strayed) /\ NoneDangles(list, live, Adrift)
          BY <2>4 DEF Sound
        <5> QED
          BY <1>2, <2>6, <4>1, <5>1, BlockComes
      <4>5. Adrift = {} => Weighs(list', n + size)
        BY <2>4, <4>4 DEF Sound
      <4> QED
        BY <4>2, <4>3, <4>4, <4>5 DEF Sound
    <3> QED
      BY <3>2, <3>3
  <2> QED
    BY <1>1, <2>5, <2>6
<1> QED
  BY <1>4, <1>5, Zenon DEF Obtain, Enter

\* realloc(NULL, 0): libc may return a block, which is not listed.
LEMMA UnlistedStep ==
  ASSUME TraceInv, NEW r \in LibMalloc(0), Call, Return(r, 0), NEW reason,
         reason # "moved", Stray({r.ptr}, reason),
         n_allocb' = n_allocb + 0, UNCHANGED <<n_freeb, status, list>>
  PROVE  TraceInv'
<1>1. /\ GoodLive(r.live)
      /\ \/ r.ptr = NULL /\ r.live = live
         \/ r.ptr \in Ptrs \ DOMAIN live /\ Grows(live, r.live, r.ptr, 0)
  BY InvForm, MallocResult
<1>2. live' = r.live /\ part' = part /\ list' = list /\ n_freeb' = n_freeb
  BY DEF Return, Call
<1>3. Counts(n_allocb, n_freeb, unlisted) /\ (status = "loading" => list = <<>>)
  BY InvForm
<1>4. Counts(n_allocb', n_freeb', unlisted')
      /\ (n_allocb' - n_freeb') - unlisted' = (n_allocb - n_freeb) - unlisted
  BY <1>2, <1>3 DEF Counts, Return
<1> SUFFICES ASSUME Active,
                    Sound(list, live, (n_allocb - n_freeb) - unlisted, seen, Strayed, Adrift)
             PROVE  Sound(list', live', (n_allocb' - n_freeb') - unlisted', seen',
                          Strayed', Adrift')
  BY <1>1, <1>2, <1>3, <1>4, CallCase, Zenon
<1>5. PICK n : n = (n_allocb - n_freeb) - unlisted
  OBVIOUS
<1>6. Sound(list, live, n, seen, Strayed, Adrift)
  BY <1>5
<1>7. Strayed' = Strayed \cup ({r.ptr} \ {NULL}) /\ Adrift \subseteq Adrift'
  BY <1>2, StrayWorks
<1>8. CASE r.ptr = NULL /\ r.live = live
  <2>1. seen' = seen /\ live' = live
    BY <1>2, <1>8 DEF Return
  <2>2. Strayed \subseteq Strayed'
    BY <1>7
  <2>3. Sound(list, live, n, seen, Strayed', Adrift')
    BY <1>6, <1>7, <2>2, MoreStrays
  <2> QED
    BY <1>2, <1>4, <1>5, <2>1, <2>3
<1>9. CASE r.ptr \in Ptrs \ DOMAIN live /\ Grows(live, r.live, r.ptr, 0)
  <2>1. r.ptr # NULL
    BY <1>9, TracerAssumption
  <2>2. seen' = seen \cup {r.ptr} /\ Strayed' = Strayed \cup {r.ptr}
    BY <1>7, <2>1 DEF Return
  <2>3. ListGood(list, live', seen', Strayed')
    <3>1. \A i \in Range(list) : i.ptr \notin Strayed' => Right(i, live')
      <4>1. ASSUME NEW i \in Range(list), i.ptr \notin Strayed' PROVE Right(i, live')
        <5>1. Right(i, live) /\ i.ptr # r.ptr
          BY <1>6, <2>2, <4>1 DEF Sound, ListGood
        <5> QED
          BY <1>2, <1>9, <5>1 DEF Right, Grows
      <4> QED
        BY <4>1
    <3>2. \A p \in (seen' \cup DOMAIN live') \ Strayed' : p \in (seen \cup DOMAIN live) \ Strayed
      BY <1>2, <1>9, <2>2 DEF Grows
    <3> QED
      BY <1>6, <2>2, <3>1, <3>2 DEF Sound, ListGood
  <2>4. NoneDangles(list, live', Adrift')
    BY <1>2, <1>6, <1>7, <1>9 DEF Sound, NoneDangles, Grows
  <2>5. Adrift' = {} => Weighs(list, n)
    BY <1>6, <1>7 DEF Sound
  <2> QED
    BY <1>2, <1>4, <1>5, <2>3, <2>4, <2>5 DEF Sound
<1> QED
  BY <1>1, <1>8, <1>9

\* What find returns.
LEMMA FindHere ==
  ASSUME TraceInv, Active, NEW ptr \in Ptrs
  PROVE  /\ find(list, ptr) = {i \in Range(list) : i.ptr = ptr}
         /\ Range(list) \subseteq Item
         /\ \A i, j \in find(list, ptr) : i = j
         /\ ListGood(list, live, seen, Strayed) /\ NoneDangles(list, live, Adrift)
<1>1. ListGood(list, live, seen, Strayed) /\ NoneDangles(list, live, Adrift)
  BY InvForm DEF Sound
<1>2. ptr \in Nat /\ list \in Seq(Item) /\ Ordered(list)
  BY <1>1, TracerAssumption DEF ListGood
<1>3. find(list, ptr) = {i \in Range(list) : i.ptr = ptr} /\ Range(list) \subseteq Item
  BY <1>2, FindWorks, ItemsOf
<1>4. \A i, j \in find(list, ptr) : i = j
  BY <1>2, <1>3, OneItem
<1> QED
  BY <1>1, <1>3, <1>4

\* There are no items before there is a list.
LEMMA FoundRunning ==
  ASSUME TraceInv, Call, NEW ptr, find(list, ptr) # {} PROVE status = "running"
<1>1. CASE list = <<>>
  <2>1. DOMAIN list = {}
    BY <1>1
  <2> QED
    BY <2>1 DEF find
<1>2. CASE list # <<>>
  BY <1>2, InvForm DEF Call
<1> QED
  BY <1>1, <1>2

\* A listed block is freed.
LEMMA FreedStep ==
  ASSUME TraceInv, Active, NEW ptr \in Ptrs, NEW i \in find(list, ptr), i.cnt # 0,
         ptr \in DOMAIN live, Call, Release(ptr), n_freeb' = n_freeb + i.size,
         list' = dealloc(list, ptr), UNCHANGED n_allocb
  PROVE  TraceInv'
<1>1. /\ GoodLive(live') /\ DOMAIN live' = DOMAIN live \ {ptr}
      /\ \A p \in DOMAIN live \ {ptr} : live'[p] = live[p]
  BY InvForm, FreeResult DEF Release
<1>2. /\ seen' = seen /\ unlisted' = unlisted /\ status' = status /\ n_allocb' = n_allocb
      /\ Strayed' = Strayed /\ Adrift' = Adrift /\ status = "running"
  BY FoundRunning, SameStrays DEF Release, Call
<1>3. i \in Range(list) /\ i.ptr = ptr /\ i \in Item /\ i.size \in Nat
  <2>1. i \in Range(list) /\ i.ptr = ptr /\ i \in Item
    BY FindHere
  <2> QED
    BY <2>1 DEF Item
<1>4. Counts(n_allocb, n_freeb, unlisted)
  BY InvForm
<1>5. Counts(n_allocb', n_freeb', unlisted')
  BY <1>2, <1>3, <1>4 DEF Counts
<1> SUFFICES ASSUME Sound(list, live, (n_allocb - n_freeb) - unlisted, seen, Strayed, Adrift)
             PROVE  Sound(list', live', (n_allocb' - n_freeb') - unlisted', seen',
                          Strayed', Adrift')
  BY <1>1, <1>2, <1>5, CallCase
<1>6. PICK n : n = (n_allocb - n_freeb) - unlisted
  OBVIOUS
<1>7. /\ ListGood(list, live, seen, Strayed) /\ NoneDangles(list, live, Adrift)
      /\ Adrift = {} => Weighs(list, n)
  BY <1>6 DEF Sound
<1>8. /\ DOMAIN live \ {i.ptr} \subseteq DOMAIN live' /\ DOMAIN live' \subseteq DOMAIN live
      /\ \A p \in DOMAIN live \ {i.ptr} : live'[p] = live[p]
      /\ i.ptr \notin DOMAIN live'
  BY <1>1, <1>3
<1>9. /\ ListGood(list', live', seen, Strayed) /\ NoneDangles(list', live', Adrift)
      /\ \A w : Adrift = {} /\ Weighs(list, w) =>
           /\ w \in Nat /\ i.size \in Nat
           /\ w - i.size \in Nat /\ Weighs(list', w - i.size)
  BY <1>3, <1>7, <1>8, BlockGoes
<1>10. (n_allocb' - n_freeb') - unlisted' = n - i.size
  BY <1>2, <1>3, <1>4, <1>6 DEF Counts
<1> QED
  BY <1>2, <1>7, <1>9, <1>10 DEF Sound

\* Part 2 frees a block that is not listed as allocated: its address had
\* been lost sight of before.
LEMMA StrayFreed ==
  ASSUME TraceInv, Active, part = 2, NEW ptr \in Ptrs, ptr \in DOMAIN live,
         \A i \in find(list, ptr) : i.cnt <= 0, Call, Release(ptr),
         list' = dealloc(list, ptr), UNCHANGED <<n_allocb, n_freeb>>
  PROVE  TraceInv'
<1>1. /\ GoodLive(live') /\ DOMAIN live' = DOMAIN live \ {ptr}
      /\ \A p \in DOMAIN live \ {ptr} : live'[p] = live[p]
  BY InvForm, FreeResult DEF Release
<1>2. /\ seen' = seen /\ unlisted' = unlisted /\ status' = status
      /\ n_allocb' = n_allocb /\ n_freeb' = n_freeb
      /\ Strayed' = Strayed /\ Adrift' = Adrift
  BY SameStrays DEF Release, Call
<1>3. /\ find(list, ptr) = {i \in Range(list) : i.ptr = ptr} /\ Range(list) \subseteq Item
      /\ ListGood(list, live, seen, Strayed) /\ NoneDangles(list, live, Adrift)
  BY FindHere
<1>4. ptr \in Strayed /\ Adrift = Strayed
  <2>1. ASSUME ptr \notin Strayed PROVE FALSE
    <3>1. PICK i \in Range(list) : i.ptr = ptr
      BY <1>3, <2>1 DEF ListGood
    <3>2. Right(i, live) /\ i.cnt <= 0
      BY <1>3, <2>1, <3>1 DEF ListGood
    <3> QED
      BY <3>1, <3>2 DEF Right
  <2> QED
    BY <2>1 DEF Adrift
<1>5. Counts(n_allocb', n_freeb', unlisted') /\ (status = "loading" => list = <<>>)
  BY <1>2, InvForm
<1>6. /\ list' \in Seq(Item) /\ Ordered(list')
      /\ \A j \in Range(list') : j.ptr = ptr \/ j \in Range(list)
      /\ \A j \in Range(list) : j.ptr # ptr => j \in Range(list')
      /\ (\E j \in Range(list') : j.ptr = ptr) => ptr \in seen
      /\ list = <<>> => list' = <<>>
  <2>1. list \in Seq(Item) /\ Ordered(list) /\ Range(list) = {list[k] : k \in 1..Len(list)}
    BY <1>3, ItemsOf DEF ListGood
  <2>2. CASE \A i \in Range(list) : i.ptr # ptr
    <3>1. {k \in DOMAIN list : list[k].ptr = ptr} = {}
      BY <2>1, <2>2
    <3>2. list' = list
      BY <3>1 DEF dealloc
    <3> QED
      BY <2>1, <2>2, <3>2
  <2>3. CASE \E i \in Range(list) : i.ptr = ptr
    <3>1. PICK i \in Range(list) : i.ptr = ptr
      BY <2>3
    <3>2. PICK e : e = [i EXCEPT !.cnt = @ - 1]
      OBVIOUS
    <3>3. e.ptr = ptr
      BY <1>3, <3>1, <3>2, OneLess
    <3>4. list' \in Seq(Item) /\ Ordered(list') /\ Range(list') = Put(Range(list), e)
      BY <2>1, <3>1, <3>2, DeallocWorks
    <3>5. list # <<>>
      BY <3>1 DEF Range
    <3>6. ptr \in seen
      BY <1>3, <3>1 DEF ListGood
    <3> QED
      BY <3>3, <3>4, <3>5, <3>6 DEF Put
  <2> QED
    BY <2>2, <2>3
<1>7. ListGood(list', live', seen', Strayed')
  <2>1. \A i \in Range(list') : i.ptr \in seen
    BY <1>3, <1>6 DEF ListGood
  <2>2. ASSUME NEW i \in Range(list'), i.ptr \notin Strayed PROVE Right(i, live')
    <3>1. i \in Range(list) /\ i.ptr # ptr
      BY <1>4, <1>6, <2>2
    <3>2. Right(i, live)
      BY <1>3, <2>2, <3>1 DEF ListGood
    <3> QED
      BY <1>1, <3>1, <3>2 DEF Right
  <2>3. ASSUME NEW p \in (seen \cup DOMAIN live') \ Strayed
        PROVE  \E i \in Range(list') : i.ptr = p
    <3>1. p # ptr /\ p \in (seen \cup DOMAIN live) \ Strayed
      BY <1>1, <1>4
    <3>2. PICK i \in Range(list) : i.ptr = p
      BY <1>3, <3>1 DEF ListGood
    <3> QED
      BY <1>6, <3>1, <3>2
  <2> QED
    BY <1>2, <1>6, <2>1, <2>2, <2>3 DEF ListGood
<1>8. NoneDangles(list', live', Adrift')
  BY <1>1, <1>2, <1>3, <1>4, <1>6 DEF NoneDangles
<1>9. Sound(list', live', (n_allocb' - n_freeb') - unlisted', seen', Strayed', Adrift')
  BY <1>2, <1>4, <1>7, <1>8 DEF Sound
<1> QED
  BY <1>1, <1>2, <1>5, <1>6, <1>9, CallCase

\* realloc of a listed block to no more than its listed size.
LEMMA ShrunkStep ==
  ASSUME TraceInv, Active, NEW ptr \in Ptrs, NEW i \in find(list, ptr), i.cnt # 0,
         ptr \in DOMAIN live, NEW size \in Nat, size <= i.size, Call, Shrink(i, size)
  PROVE  TraceInv'
<1>0. i \in Range(list) /\ i.ptr = ptr /\ \A j \in Range(list) : j.ptr = ptr => j = i
  BY FindHere
<1>1. PICK r \in LibRealloc(ptr, size) :
        /\ Return(r, 0)
        /\ Stray(IF r.ptr \in {ptr, NULL} THEN {} ELSE {ptr, r.ptr}, "moved")
  BY <1>0 DEF Shrink
<1>2. /\ GoodLive(live) /\ GoodLive(r.live)
      /\ \/ r.ptr = NULL /\ r.live = live
         \/ /\ r.ptr \in Ptrs /\ r.ptr \notin DOMAIN live \ {ptr}
            /\ Grows(LibFree(ptr), r.live, r.ptr, size)
  BY InvForm, ReallocResult
<1>3. /\ live' = r.live /\ part' = part /\ list' = list /\ n_freeb' = n_freeb
      /\ n_allocb' = n_allocb /\ status' = status /\ status = "running"
  BY <1>1, FoundRunning DEF Return, Call, Shrink
<1>4. Counts(n_allocb, n_freeb, unlisted)
  BY InvForm
<1>5. Counts(n_allocb', n_freeb', unlisted')
      /\ (n_allocb' - n_freeb') - unlisted' = (n_allocb - n_freeb) - unlisted
  BY <1>1, <1>3, <1>4 DEF Counts, Return
<1> SUFFICES ASSUME Sound(list, live, (n_allocb - n_freeb) - unlisted, seen, Strayed, Adrift)
             PROVE  Sound(list', live', (n_allocb' - n_freeb') - unlisted', seen',
                          Strayed', Adrift')
  BY <1>2, <1>3, <1>5, CallCase
<1>6. PICK n : n = (n_allocb - n_freeb) - unlisted
  OBVIOUS
<1>7. /\ ListGood(list, live, seen, Strayed) /\ NoneDangles(list, live, Adrift)
      /\ Adrift = {} => Weighs(list, n)
  BY <1>6 DEF Sound
<1>8. PICK ps : ps = (IF r.ptr \in {ptr, NULL} THEN {} ELSE {ptr, r.ptr})
  OBVIOUS
<1>9. Stray(ps, "moved")
  BY <1>1, <1>8
<1>10. Strayed' = Strayed \cup (ps \ {NULL}) /\ Adrift' = Adrift \cup (ps \ {NULL})
  BY <1>3, <1>9, StrayWorks
<1>11. CASE r.ptr = NULL /\ r.live = live
  <2>1. live' = live /\ seen' = seen /\ Strayed' = Strayed /\ Adrift' = Adrift
    BY <1>1, <1>3, <1>8, <1>10, <1>11 DEF Return
  <2> QED
    BY <1>3, <1>5, <1>6, <1>7, <2>1 DEF Sound
<1>12. CASE /\ r.ptr \in Ptrs /\ r.ptr \notin DOMAIN live \ {ptr}
            /\ Grows(LibFree(ptr), r.live, r.ptr, size)
  <2>1. r.ptr # NULL /\ ptr # NULL
    BY <1>12, TracerAssumption
  <2>2. /\ DOMAIN live' = (DOMAIN live \ {ptr}) \cup {r.ptr} /\ live'[r.ptr] = size
        /\ \A p \in DOMAIN live \ {ptr, r.ptr} : live'[p] = live[p]
    <3>1. /\ DOMAIN LibFree(ptr) = DOMAIN live \ {ptr}
          /\ \A p \in DOMAIN live \ {ptr} : LibFree(ptr)[p] = live[p]
      BY <1>2, FreeResult
    <3> QED
      BY <1>3, <1>12, <3>1 DEF Grows
  <2>3. /\ seen' = seen \cup {r.ptr} /\ ptr \in seen
        /\ r.ptr # ptr => Strayed' = Strayed \cup {ptr, r.ptr} /\ Adrift' = Adrift \cup {ptr, r.ptr}
        /\ r.ptr = ptr => Strayed' = Strayed /\ Adrift' = Adrift
    BY <1>0, <1>1, <1>7, <1>8, <1>10, <2>1 DEF Return, ListGood
  <2>4. ASSUME NEW j \in Range(list), j.ptr \notin Strayed' PROVE Right(j, live')
    <3>1. Right(j, live)
      BY <1>7, <2>3, <2>4 DEF ListGood
    <3>2. CASE j.ptr \notin {ptr, r.ptr}
      BY <2>2, <3>1, <3>2 DEF Right
    <3>3. CASE j.ptr \in {ptr, r.ptr}
      <4>1. r.ptr = ptr /\ j = i
        BY <1>0, <2>3, <2>4, <3>3
      <4> QED
        BY <1>0, <2>2, <3>1, <4>1 DEF Right
    <3> QED
      BY <3>2, <3>3
  <2>5. ListGood(list', live', seen', Strayed')
    <3>1. \A p \in (seen' \cup DOMAIN live') \ Strayed' : p \in (seen \cup DOMAIN live) \ Strayed
      BY <2>2, <2>3
    <3>2. \A j \in Range(list) : j.ptr \in seen'
      BY <1>7, <2>3 DEF ListGood
    <3> QED
      BY <1>3, <1>7, <2>4, <3>1, <3>2 DEF ListGood
  <2>6. NoneDangles(list', live', Adrift')
    <3>1. ASSUME NEW j \in Range(list), j.ptr \notin Adrift'
          PROVE  j.cnt \in {0, 1} /\ (j.cnt = 1 => j.ptr \in DOMAIN live')
      <4>1. j.ptr \notin Adrift /\ (j.ptr = ptr => r.ptr = ptr)
        BY <2>3, <3>1
      <4> QED
        BY <1>7, <2>2, <4>1 DEF NoneDangles
    <3> QED
      BY <1>3, <3>1 DEF NoneDangles
  <2>7. Adrift' = {} => Weighs(list', n)
    BY <1>3, <1>7, <2>3
  <2> QED
    BY <1>5, <1>6, <2>5, <2>6, <2>7 DEF Sound
<1> QED
  BY <1>2, <1>11, <1>12

\* realloc of a listed block to more: the old block goes and one comes, at
\* the same address or at another, or none if libc has no memory.
LEMMA GrownStep ==
  ASSUME TraceInv, Active, NEW ptr \in Ptrs, NEW i \in find(list, ptr), i.cnt # 0,
         ptr \in DOMAIN live, NEW size \in Nat, Call, Grow(i, size)
  PROVE  TraceInv'
<1>0. i \in Range(list) /\ i.ptr = ptr /\ i.size \in Nat
  <2>1. i \in Range(list) /\ i.ptr = ptr /\ i \in Item
    BY FindHere
  <2> QED
    BY <2>1 DEF Item
<1>1. PICK r \in LibRealloc(ptr, size) :
        /\ Return(r, size)
        /\ Enter(dealloc(list, ptr), r.ptr, size)
        /\ Stray(IF r.ptr = NULL THEN {ptr} ELSE {}, "refused")
  BY <1>0 DEF Grow
<1>2. /\ GoodLive(live) /\ GoodLive(r.live)
      /\ \/ r.ptr = NULL /\ r.live = live
         \/ /\ r.ptr \in Ptrs /\ r.ptr \notin DOMAIN live \ {ptr}
            /\ Grows(LibFree(ptr), r.live, r.ptr, size)
  BY InvForm, ReallocResult
<1>3. /\ live' = r.live /\ part' = part /\ n_freeb' = n_freeb + i.size
      /\ n_allocb' = n_allocb + size /\ status = "running" /\ part # 1 /\ part \in {1, 2, 3}
  BY <1>1, FoundRunning, InvForm DEF Return, Call, Grow, Count, Active
<1>4. Counts(n_allocb, n_freeb, unlisted)
  BY InvForm
<1>5. Counts(n_allocb', n_freeb', unlisted')
  BY <1>0, <1>1, <1>3, <1>4, ReturnCounts DEF Counts
<1>6. CASE status' = "segv"
  BY <1>2, <1>3, <1>5, <1>6, EndedStep
<1>7. CASE /\ list' = IF part = 1 \/ r.ptr = NULL \/ status = "loading" THEN dealloc(list, ptr)
                      ELSE alloc(dealloc(list, ptr), r.ptr, size)
           /\ UNCHANGED status
  <2> SUFFICES ASSUME Sound(list, live, (n_allocb - n_freeb) - unlisted, seen, Strayed, Adrift)
               PROVE  Sound(list', live', (n_allocb' - n_freeb') - unlisted', seen',
                            Strayed', Adrift')
    BY <1>2, <1>3, <1>5, <1>7, CallCase
  <2>1. PICK n : n = (n_allocb - n_freeb) - unlisted
    OBVIOUS
  <2>2. /\ ListGood(list, live, seen, Strayed) /\ NoneDangles(list, live, Adrift)
        /\ Adrift = {} => Weighs(list, n)
    BY <2>1 DEF Sound
  <2>3. PICK m : m = dealloc(list, ptr)
    OBVIOUS
  <2>4. CASE r.ptr = NULL /\ r.live = live
    <3>1. list' = m /\ live' = live /\ unlisted' = unlisted + size /\ seen' = seen
      BY <1>1, <1>3, <1>7, <2>3, <2>4 DEF Return
    <3>2. Strayed' = Strayed \cup {ptr} /\ Adrift \subseteq Adrift'
          /\ (part = 3 => Adrift' = Adrift) /\ (part # 3 => ptr \in Adrift')
      <4>1. ptr # NULL
        BY TracerAssumption
      <4>2. Stray({ptr}, "refused")
        BY <1>1, <2>4
      <4> QED
        BY <1>3, <4>1, <4>2, StrayWorks
    <3>3. /\ DOMAIN live \ {i.ptr} \subseteq DOMAIN live /\ DOMAIN live \subseteq DOMAIN live
          /\ \A p \in DOMAIN live \ {i.ptr} : live[p] = live[p]
          /\ Strayed \subseteq Strayed' /\ i.ptr \in Strayed'
      BY <1>0, <3>2
    <3>4. /\ ListGood(m, live, seen, Strayed') /\ NoneDangles(m, live, Adrift)
          /\ \A w : Adrift = {} /\ Weighs(list, w) =>
               /\ w \in Nat /\ i.size \in Nat
               /\ w - i.size \in Nat /\ Weighs(m, w - i.size)
      BY <1>0, <2>2, <2>3, <3>3, BlockGoes
    <3>5. (n_allocb' - n_freeb') - unlisted' = n - i.size
      BY <1>0, <1>3, <1>4, <2>1, <3>1 DEF Counts
    <3>6. NoneDangles(m, live, Adrift')
      BY <3>2, <3>4 DEF NoneDangles
    <3>7. Adrift' = {} => Weighs(m, n - i.size)
      BY <2>2, <3>2, <3>4
    <3> QED
      BY <3>1, <3>4, <3>5, <3>6, <3>7 DEF Sound
  <2>5. CASE /\ r.ptr \in Ptrs /\ r.ptr \notin DOMAIN live \ {ptr}
             /\ Grows(LibFree(ptr), r.live, r.ptr, size)
    <3>1. r.ptr # NULL
      BY <2>5, TracerAssumption
    <3>2. list' = alloc(m, r.ptr, size) /\ seen' = seen \cup {r.ptr} /\ unlisted' = unlisted
      BY <1>1, <1>3, <1>7, <2>3, <3>1 DEF Return
    <3>3. Strayed' = Strayed /\ Adrift' = Adrift
      <4>1. Stray({}, "refused")
        BY <1>1, <3>1
      <4>2. {} \ {NULL} = {}
        OBVIOUS
      <4> QED
        BY <1>3, <4>1, <4>2, StrayWorks
    <3>4. PICK lv : lv = LibFree(ptr)
      OBVIOUS
    <3>5. /\ DOMAIN lv = DOMAIN live \ {ptr}
          /\ \A p \in DOMAIN live \ {ptr} : lv[p] = live[p]
      BY <1>2, <3>4, FreeResult
    <3>6. /\ DOMAIN live \ {i.ptr} \subseteq DOMAIN lv /\ DOMAIN lv \subseteq DOMAIN live
          /\ \A p \in DOMAIN live \ {i.ptr} : lv[p] = live[p]
          /\ i.ptr \notin DOMAIN lv
      BY <1>0, <3>5
    <3>7. /\ ListGood(m, lv, seen, Strayed) /\ NoneDangles(m, lv, Adrift)
          /\ \A w : Adrift = {} /\ Weighs(list, w) =>
               /\ w \in Nat /\ i.size \in Nat
               /\ w - i.size \in Nat /\ Weighs(m, w - i.size)
      BY <1>0, <2>2, <2>3, <3>6, BlockGoes
    <3>8. r.ptr \in Ptrs \ DOMAIN lv /\ Grows(lv, live', r.ptr, size)
      BY <1>3, <2>5, <3>4, <3>5
    <3>9. /\ ListGood(list', live', seen', Strayed) /\ NoneDangles(list', live', Adrift)
          /\ \A w : Adrift = {} /\ Weighs(m, w) => w \in Nat /\ Weighs(list', w + size)
      BY <3>2, <3>7, <3>8, BlockComes
    <3>10. PICK w : w = n - i.size
      OBVIOUS
    <3>11. Adrift = {} => Weighs(list', w + size)
      BY <2>2, <3>7, <3>9, <3>10
    <3>12. (n_allocb' - n_freeb') - unlisted' = w + size
      BY <1>0, <1>3, <1>4, <2>1, <3>2, <3>10 DEF Counts
    <3> QED
      BY <3>3, <3>9, <3>11, <3>12 DEF Sound
  <2> QED
    BY <1>2, <2>4, <2>5
<1> QED
  BY <1>1, <1>6, <1>7, Zenon DEF Enter

\* A call that changes nothing but the report.
LEMMA ReportedStep ==
  ASSUME TraceInv, Call,
         UNCHANGED <<list, n_allocb, n_freeb, live, seen, strays, unlisted, status>>
  PROVE  TraceInv'
<1>1. /\ list' = list /\ n_allocb' = n_allocb /\ n_freeb' = n_freeb /\ live' = live
      /\ seen' = seen /\ unlisted' = unlisted /\ status' = status
      /\ Strayed' = Strayed /\ Adrift' = Adrift
  BY SameStrays DEF Call
<1> QED
  BY <1>1, CallCase, InvForm, Zenon

\* libc is only given a pointer that is not in use if it dangles.
LEMMA AbortStep ==
  ASSUME TraceInv, Call, NEW ptr, Abort(ptr), Counts(n_allocb', n_freeb', unlisted'),
         part = 3 => ptr \in Adrift
  PROVE  TraceInv'
<1>1. /\ part' = part /\ status' = "abort" /\ live' = live /\ log'.of = ptr
      /\ Adrift' = Adrift
  BY SameStrays DEF Abort, Call
<1> QED
  BY <1>1, EndedStep, InvForm

\* An item that counts a block as allocated which is not in use is adrift.
LEMMA DanglingAdrift ==
  ASSUME TraceInv, Active, NEW ptr \in Ptrs, NEW i \in find(list, ptr), i.cnt # 0,
         ptr \notin DOMAIN live
  PROVE  ptr \in Adrift
<1>1. i \in Range(list) /\ i.ptr = ptr /\ NoneDangles(list, live, Adrift)
  BY FindHere
<1> QED
  BY <1>1 DEF NoneDangles

LEMMA ReallocUnlistedStep ==
  ASSUME TraceInv, NEW ptr \in Ptrs \cup {NULL}, NEW size \in Sizes, ReallocUnlisted(ptr, size)
  PROVE  TraceInv'
<1>0. size \in Nat /\ GoodLive(live) /\ Call /\ part = 1 /\ part' = 1
      /\ Counts(n_allocb, n_freeb, unlisted) /\ (status = "loading" => list = <<>>)
      /\ list' = list /\ n_freeb' = n_freeb /\ ~Active
  BY InvForm, TracerAssumption DEF ReallocUnlisted, Call, Active
<1>1. CASE Abort(ptr) /\ UNCHANGED n_allocb
  <2>1. Counts(n_allocb', n_freeb', unlisted')
    BY <1>0, <1>1 DEF Abort, Counts
  <2> QED
    BY <1>0, <1>1, <2>1, AbortStep
<1>2. CASE ptr \in DOMAIN live /\ Release(ptr) /\ n_allocb' = n_allocb + size
  <2>1. GoodLive(live') /\ status' = status
    BY <1>0, <1>2, FreeResult DEF Release
  <2>2. Counts(n_allocb', n_freeb', unlisted')
    BY <1>0, <1>2 DEF Release, Counts
  <2> QED
    BY <1>0, <2>1, <2>2, CallCase
<1>3. CASE /\ ptr = NULL \/ ptr \in DOMAIN live
           /\ \E r \in IF ptr = NULL THEN LibMalloc(size) ELSE LibRealloc(ptr, size) :
                Return(r, size)
           /\ n_allocb' = n_allocb + size /\ UNCHANGED status
  <2>1. PICK r \in IF ptr = NULL THEN LibMalloc(size) ELSE LibRealloc(ptr, size) :
                Return(r, size)
    BY <1>3
  <2>2. GoodLive(r.live)
    <3>1. CASE ptr = NULL
      BY <1>0, <2>1, <3>1, MallocResult
    <3>2. CASE ptr # NULL
      BY <1>0, <1>3, <2>1, <3>2, ReallocResult
    <3> QED
      BY <3>1, <3>2
  <2>3. Counts(n_allocb', n_freeb', unlisted')
    BY <1>0, <1>3, <2>1, ReturnCounts DEF Counts
  <2>4. live' = r.live /\ status' = status
    BY <1>3, <2>1 DEF Return
  <2> QED
    BY <1>0, <2>2, <2>3, <2>4, CallCase
<1> QED
  BY <1>1, <1>2, <1>3, Zenon DEF ReallocUnlisted, Count

LEMMA ReallocNullStep ==
  ASSUME TraceInv, NEW size \in Sizes, ReallocNull(size) PROVE TraceInv'
<1>0. size \in Nat
  BY TracerAssumption
<1>1. PICK r \in LibMalloc(size) :
        IF size > 0 THEN n_alloc' = n_alloc + 1 /\ Obtain(r, size)
        ELSE /\ Return(r, 0)
             /\ Stray({r.ptr}, IF status = "loading" THEN "early" ELSE "empty")
             /\ UNCHANGED <<n_alloc, list, status>>
  BY DEF ReallocNull
<1>2. Call /\ n_allocb' = n_allocb + size /\ n_freeb' = n_freeb
  BY DEF ReallocNull
<1>3. CASE size > 0
  BY <1>0, <1>1, <1>2, <1>3, EnteredStep
<1>4. CASE size = 0
  <2>1. PICK reason : reason = IF status = "loading" THEN "early" ELSE "empty"
    OBVIOUS
  <2>2. reason # "moved" /\ Stray({r.ptr}, reason) /\ Return(r, 0) /\ r \in LibMalloc(0)
        /\ n_allocb' = n_allocb + 0 /\ UNCHANGED <<n_freeb, status, list>>
    BY <1>1, <1>2, <1>4, <2>1
  <2> QED
    BY <1>2, <2>2, UnlistedStep
<1> QED
  BY <1>0, <1>3, <1>4

LEMMA ReallocListedStep ==
  ASSUME TraceInv, NEW ptr \in Ptrs, NEW size \in Sizes, ReallocListed(ptr, size)
  PROVE  TraceInv'
<1>0. size \in Nat
  BY TracerAssumption
<1>1. PICK i \in find(list, ptr) :
        /\ part > 1 /\ Call
        /\ i.cnt # 0
        /\ \/ /\ ptr \notin DOMAIN live
              /\ Abort(ptr) /\ UNCHANGED <<list, n_alloc, n_allocb, n_freeb>>
           \/ /\ ptr \in DOMAIN live /\ size = 0
              /\ Release(ptr)
              /\ n_freeb' = n_freeb + i.size /\ list' = dealloc(list, ptr)
              /\ UNCHANGED <<n_alloc, n_allocb>>
           \/ /\ ptr \in DOMAIN live /\ size > 0 /\ size <= i.size
              /\ Shrink(i, size) /\ log' = Quiet
           \/ /\ ptr \in DOMAIN live /\ size > i.size
              /\ Grow(i, size) /\ log' = Quiet
  BY Zenon DEF ReallocListed
<1>2. Active
  BY <1>1 DEF Call, Active
<1>3. CASE ptr \notin DOMAIN live /\ Abort(ptr) /\ UNCHANGED <<list, n_alloc, n_allocb, n_freeb>>
  <2>1. Counts(n_allocb', n_freeb', unlisted')
    BY <1>3, InvForm DEF Abort, Counts
  <2>2. ptr \in Adrift
    BY <1>1, <1>2, <1>3, DanglingAdrift
  <2> QED
    BY <1>1, <1>3, <2>1, <2>2, AbortStep
<1>4. CASE /\ ptr \in DOMAIN live /\ Release(ptr)
           /\ n_freeb' = n_freeb + i.size /\ list' = dealloc(list, ptr)
           /\ UNCHANGED <<n_alloc, n_allocb>>
  BY <1>1, <1>2, <1>4, FreedStep
<1>5. CASE ptr \in DOMAIN live /\ size <= i.size /\ Shrink(i, size)
  BY <1>0, <1>1, <1>2, <1>5, ShrunkStep
<1>6. CASE ptr \in DOMAIN live /\ Grow(i, size)
  BY <1>0, <1>1, <1>2, <1>6, GrownStep
<1> QED
  BY <1>1, <1>3, <1>4, <1>5, <1>6, Zenon

LEMMA FreeUncheckedStep ==
  ASSUME TraceInv, NEW ptr \in Ptrs, FreeUnchecked(ptr) PROVE TraceInv'
<1>0. /\ Call /\ part < 3 /\ GoodLive(live) /\ part \in {1, 2, 3}
      /\ Counts(n_allocb, n_freeb, unlisted) /\ n_allocb' = n_allocb /\ part' = part
      /\ status = "loading" => list = <<>>
  BY InvForm DEF FreeUnchecked, Call
<1>1. CASE part = 1
  <2>1. list' = list /\ n_freeb' = n_freeb /\ ~Active
    BY <1>1 DEF FreeUnchecked, Active
  <2>2. CASE ptr \in DOMAIN live
    <3>1. Release(ptr)
      BY <2>2 DEF FreeUnchecked
    <3>2. GoodLive(live') /\ status' = status /\ Counts(n_allocb', n_freeb', unlisted')
      BY <1>0, <2>1, <2>2, <3>1, FreeResult DEF Release
    <3> QED
      BY <1>0, <2>1, <3>2, CallCase
  <2>3. CASE ptr \notin DOMAIN live
    <3>1. Abort(ptr)
      BY <2>3 DEF FreeUnchecked
    <3>2. Counts(n_allocb', n_freeb', unlisted')
      BY <1>0, <2>1, <3>1 DEF Abort
    <3> QED
      BY <1>0, <1>1, <3>1, <3>2, AbortStep
  <2> QED
    BY <2>2, <2>3
<1>2. CASE part = 2
  <2>1. list' = dealloc(list, ptr) /\ Active
    BY <1>0, <1>2 DEF FreeUnchecked, Active, Call
  <2>2. /\ find(list, ptr) = {i \in Range(list) : i.ptr = ptr} /\ Range(list) \subseteq Item
        /\ \A i, j \in find(list, ptr) : i = j
    BY <2>1, FindHere
  <2>3. CASE ptr \notin DOMAIN live
    <3>1. Abort(ptr)
      BY <2>3 DEF FreeUnchecked
    <3>2. \A i \in find(list, ptr) : i.size \in Nat
      BY <2>2 DEF Item
    <3>3. n_freeb' \in Int
      BY <1>0, <1>2, <3>2 DEF FreeUnchecked, Counts
    <3>4. Counts(n_allocb', n_freeb', unlisted')
      BY <1>0, <3>1, <3>3 DEF Abort, Counts
    <3> QED
      BY <1>0, <1>2, <3>1, <3>4, AbortStep
  <2>4. CASE ptr \in DOMAIN live
    <3>1. Release(ptr)
      BY <2>4 DEF FreeUnchecked
    <3>2. CASE \A i \in find(list, ptr) : i.cnt <= 0
      <4>1. n_freeb' = n_freeb
        <5>1. \A i \in find(list, ptr) : ~(i.cnt > 0)
          <6>1. \A i \in find(list, ptr) : i.cnt \in Int
            BY <2>2 DEF Item
          <6> QED
            BY <3>2, <6>1
        <5> QED
          BY <5>1 DEF FreeUnchecked
      <4> QED
        BY <1>0, <1>2, <2>1, <2>4, <3>1, <3>2, <4>1, StrayFreed
    <3>3. CASE ~\A i \in find(list, ptr) : i.cnt <= 0
      <4>1. PICK i \in find(list, ptr) : i.cnt > 0 /\ n_freeb' = n_freeb + i.size
        BY <1>2, <3>3 DEF FreeUnchecked
      <4>2. i.cnt # 0
        BY <4>1
      <4> QED
        BY <1>0, <2>1, <2>4, <3>1, <4>1, <4>2, FreedStep
    <3> QED
      BY <3>2, <3>3
  <2> QED
    BY <2>3, <2>4
<1> QED
  BY <1>0, <1>1, <1>2

LEMMA FreeListedStep ==
  ASSUME TraceInv, NEW ptr \in Ptrs, FreeListed(ptr) PROVE TraceInv'
<1>1. PICK i \in find(list, ptr) :
        /\ part = 3 /\ Call /\ i.cnt # 0
        /\ list' = dealloc(list, ptr) /\ n_freeb' = n_freeb + i.size
        /\ IF ptr \in DOMAIN live THEN Release(ptr) ELSE Abort(ptr)
        /\ UNCHANGED n_allocb
  BY Zenon DEF FreeListed
<1>2. Active
  BY <1>1 DEF Call, Active
<1>3. CASE ptr \notin DOMAIN live
  <2>1. Abort(ptr) /\ ptr \in Adrift
    BY <1>1, <1>2, <1>3, DanglingAdrift
  <2>2. i.size \in Nat
    <3>1. i \in Item
      BY <1>2, FindHere
    <3> QED
      BY <3>1 DEF Item
  <2>3. Counts(n_allocb', n_freeb', unlisted')
    BY <1>1, <2>1, <2>2, InvForm DEF Abort, Counts
  <2> QED
    BY <1>1, <2>1, <2>3, AbortStep
<1>4. CASE ptr \in DOMAIN live
  BY <1>1, <1>2, <1>4, FreedStep
<1> QED
  BY <1>3, <1>4

LEMMA TraceStart == Init => TraceInv
<1> SUFFICES ASSUME Init PROVE TraceInv
  OBVIOUS
<1>1. /\ list = <<>> /\ live = <<>> /\ seen = {} /\ n_allocb = 0 /\ n_freeb = 0 /\ unlisted = 0
      /\ part \in {1, 2, 3} /\ status = "loading"
  BY TracerAssumption DEF Init, new_list
<1>2. DOMAIN live = {} /\ live \in [{} -> Nat]
  BY <1>1
<1>3. list \in Seq(Item) /\ Ordered(list) /\ Range(list) = {}
  BY <1>1 DEF Ordered, Range
<1>4. Units(Range(list)) = {}
  BY <1>3 DEF Units
<1>5. Weighs(list, (n_allocb - n_freeb) - unlisted)
  BY <1>1, <1>4, FS_EmptySet DEF Weighs
<1>6. GoodLive(live) /\ Counts(n_allocb, n_freeb, unlisted)
  BY <1>1, <1>2 DEF GoodLive, Counts
<1>7. Sound(list, live, (n_allocb - n_freeb) - unlisted, seen, Strayed, Adrift)
  BY <1>1, <1>2, <1>3, <1>5 DEF Sound, ListGood, NoneDangles
<1> QED
  BY <1>1, <1>6, <1>7, InvForm DEF LibraryShielded

LEMMA InitStep == ASSUME TraceInv, init PROVE TraceInv'
<1>1. /\ list' = list /\ live' = live /\ part' = part /\ status' = "running" /\ status = "loading"
      /\ n_allocb' = n_allocb /\ n_freeb' = n_freeb /\ unlisted' = unlisted /\ seen' = seen
      /\ Strayed' = Strayed /\ Adrift' = Adrift
  BY SameStrays, InvForm DEF init, new_list
<1>2. Active' => Active
  BY <1>1 DEF Active
<1>3. LibraryShielded'
  BY <1>1 DEF LibraryShielded
<1> QED
  BY <1>1, <1>2, <1>3, InvForm, InvFormNext, Zenon

LEMMA FiniStep == ASSUME TraceInv, fini PROVE TraceInv'
<1>1. /\ live' = live /\ part' = part /\ n_allocb' = n_allocb /\ n_freeb' = n_freeb
      /\ unlisted' = unlisted /\ status' \in {"fpe", "segv", "done"}
  <2>1. status' \in {"fpe", "segv", "done"}
    <3>1. status' = CASE n_alloc = 0 -> "fpe"
                      [] n_alloc > 0 /\ part > 1 /\ status = "loading" -> "segv"
                      [] OTHER -> "done"
      BY DEF fini
    <3>2. CASE n_alloc = 0
      BY <3>1, <3>2
    <3>3. CASE n_alloc # 0
      BY <3>1, <3>3
    <3> QED
      BY <3>2, <3>3
  <2> QED
    BY <2>1 DEF fini
<1> QED
  BY <1>1, EndedStep, InvForm

LEMMA TraceStep ==
  ASSUME TraceInv, [Next]_vars PROVE TraceInv'
<1>0. Sizes \subseteq Nat
  BY TracerAssumption
<1>1. ASSUME NEW size \in Sizes, Malloc(size) PROVE TraceInv'
  BY <1>0, <1>1, EnteredStep DEF Malloc, Count
<1>2. ASSUME NEW nmemb \in Sizes, NEW size \in Sizes, Calloc(nmemb, size) PROVE TraceInv'
  <2>1. nmemb * size \in Nat
    <3>1. nmemb \in Nat /\ size \in Nat
      BY <1>0
    <3> QED
      BY <3>1
  <2>2. PICK n \in Nat : n = nmemb * size
    BY <2>1
  <2> QED
    BY <1>2, <2>2, EnteredStep DEF Calloc, Count
<1>3. ASSUME NEW ptr \in Ptrs, NEW size \in Sizes, ReallocInvalid(ptr, size) PROVE TraceInv'
  BY <1>0, <1>3, EnteredStep DEF ReallocInvalid, Count
<1>4. ASSUME NEW ptr \in Ptrs, FreeInvalid(ptr) PROVE TraceInv'
  BY <1>4, ReportedStep DEF FreeInvalid
<1>5. CASE FreeNull
  BY <1>5, ReportedStep DEF FreeNull
<1>6. CASE UNCHANGED vars
  <2>1. /\ part' = part /\ list' = list /\ n_allocb' = n_allocb /\ n_freeb' = n_freeb
        /\ live' = live /\ seen' = seen /\ unlisted' = unlisted /\ status' = status
        /\ strays' = strays /\ log' = log
    BY <1>6 DEF vars
  <2>2. Strayed' = Strayed /\ Adrift' = Adrift
    BY <2>1, SameStrays
  <2>3. (Active' <=> Active) /\ (LibraryShielded' <=> LibraryShielded)
    BY <2>1, <2>2 DEF Active, LibraryShielded
  <2> QED
    BY <2>1, <2>2, <2>3, InvForm, InvFormNext, Zenon
<1>7. CASE Next
  BY <1>1, <1>2, <1>3, <1>4, <1>5, <1>7, ReallocNullStep, ReallocUnlistedStep,
     ReallocListedStep, FreeUncheckedStep, FreeListedStep, InitStep, FiniStep, Zenon DEF Next
<1> QED
  BY <1>6, <1>7

\* The inductive invariant of the three parts of the tracer.
THEOREM TraceInvariance == Spec => []TraceInv
BY TraceStart, TraceStep, PTL DEF Spec

-----------------------------------------------------------------------------
(* What the tracer promises, of any program and any libc that keeps its    *)
(* blocks apart.                                                           *)

\* Part 3 keeps every call of free and realloc with a pointer that is not in
\* use away from libc, but for the addresses of a block that libc moved in a
\* realloc that the tracer takes for one in place.
THEOREM MisuseIsCaught == Spec => []LibraryShielded
<1>1. TraceInv => LibraryShielded
  BY DEF TraceInv
<1> QED
  BY <1>1, TraceInvariance, PTL

\* Whatever libc refuses or moves, an address is listed as allocated exactly
\* if it is in use, unless it was itself lost sight of.
THEOREM ListIsLibrary == Spec => []ListMatchesLibrary
<1>1. TraceInv => ListMatchesLibrary
  <2> SUFFICES ASSUME TraceInv, status = "running", part > 1
               PROVE  /\ \A k \in DOMAIN list : k > 1 => list[k - 1].ptr < list[k].ptr
                      /\ {list[k].ptr : k \in InUse} \ Strayed = DOMAIN live \ Strayed
                      /\ \A k \in DOMAIN list : list[k].ptr \notin Strayed =>
                           /\ list[k].cnt \in {0, 1}
                           /\ k \in InUse => list[k].size >= live[list[k].ptr]
    BY Zenon DEF ListMatchesLibrary
  <2>1. ListGood(list, live, seen, Strayed) /\ GoodLive(live)
    BY InvForm DEF TraceInv
  <2>2. list \in Seq(Item) /\ Ordered(list) /\ DOMAIN list = 1..Len(list)
        /\ Range(list) = {list[k] : k \in 1..Len(list)}
    BY <2>1, ItemsOf DEF ListGood
  <2>3. \A k \in 1..Len(list) : list[k].cnt \in Int /\ list[k].size \in Nat
    BY <2>2, ItemType
  <2>4. \A k \in 1..Len(list) : list[k].ptr \notin Strayed => Right(list[k], live)
    BY <2>1, <2>2 DEF ListGood
  <2>5. \A k \in 1..Len(list) : list[k].ptr \notin Strayed =>
          /\ list[k].cnt \in {0, 1}
          /\ k \in InUse <=> list[k].ptr \in DOMAIN live
          /\ k \in InUse => live[list[k].ptr] <= list[k].size
    BY <2>2, <2>4 DEF Right, InUse
  <2>6. \A p \in DOMAIN live \ Strayed : \E k \in 1..Len(list) : list[k].ptr = p
    <3>1. \A p \in (seen \cup DOMAIN live) \ Strayed : \E i \in Range(list) : i.ptr = p
      BY <2>1 DEF ListGood
    <3> QED
      BY <2>2, <3>1
  <2>7. {list[k].ptr : k \in InUse} \ Strayed = DOMAIN live \ Strayed
    <3>1. InUse \subseteq 1..Len(list)
      BY <2>2 DEF InUse
    <3> QED
      BY <2>5, <2>6, <3>1
  <2>8. \A k \in DOMAIN list : k > 1 => list[k - 1].ptr < list[k].ptr
    BY <2>2 DEF Ordered
  <2>9. \A p \in DOMAIN live : live[p] \in Nat
    BY <2>1 DEF GoodLive
  <2> QED
    BY <2>2, <2>3, <2>5, <2>7, <2>8, <2>9
<1> QED
  BY <1>1, TraceInvariance, PTL

\* n_allocb, n_freeb and the list agree after every call, as long as no item
\* is wrong about its block.
THEOREM BytesAreBalanced == Spec => []BytesBalance
<1>1. TraceInv => BytesBalance
  BY DEF TraceInv, BytesBalance, BalanceInv
<1> QED
  BY <1>1, TraceInvariance, PTL

\* LOG_ILL_FREE and LOG_DOUBLE_FREE are reported of the right pointers, but
\* for those that were lost sight of.
THEOREM ReportsAreTruthful == Spec => ReportsTruthful
<1> DEFINE Truth == calls' # calls /\ log'.of \notin Strayed =>
                      /\ log'.report = "illegal" => log'.of \notin seen
                      /\ log'.report = "double" => log'.of \in seen \ DOMAIN live
<1>1. ASSUME TraceInv, [Next]_vars PROVE [Truth]_vars
  <2> SUFFICES ASSUME Next, calls' # calls PROVE Truth
    BY <1>1 DEF vars
  <2>0. ASSUME log'.report \notin {"illegal", "double"} PROVE Truth
    BY <2>0
  <2>1. CASE log' = Quiet
    BY <2>0, <2>1 DEF Quiet
  <2>2. ASSUME NEW ptr \in Ptrs, part = 3, Call,
               \A it \in find(list, ptr) : it.cnt = 0, log' = Report(find(list, ptr), ptr)
        PROVE  Truth
    <3>1. Active
      BY <2>2 DEF Active, Call
    <3>2. ListGood(list, live, seen, Strayed) /\ find(list, ptr) = {i \in Range(list) : i.ptr = ptr}
      BY <1>1, <3>1, FindHere
    <3>3. ptr \notin Strayed /\ find(list, ptr) = {} => ptr \notin seen
      BY <3>2 DEF ListGood
    <3>4. ptr \notin Strayed /\ find(list, ptr) # {} => ptr \in seen \ DOMAIN live
      <4>1. ASSUME ptr \notin Strayed, find(list, ptr) # {} PROVE ptr \in seen \ DOMAIN live
        <5>1. PICK i \in Range(list) : i.ptr = ptr /\ i.cnt = 0
          BY <2>2, <3>2, <4>1
        <5>2. Right(i, live) /\ i.ptr \in seen
          BY <3>2, <4>1, <5>1 DEF ListGood
        <5> QED
          BY <5>1, <5>2 DEF Right
      <4> QED
        BY <4>1
    <3>5. log'.of = ptr /\ log'.report = IF find(list, ptr) = {} THEN "illegal" ELSE "double"
      BY <2>2 DEF Report
    <3> QED
      BY <3>3, <3>4, <3>5
  <2>3. ASSUME NEW ptr \in Ptrs, NEW size \in Sizes, ReallocInvalid(ptr, size) PROVE Truth
    <3>1. log' = Quiet \/ (part = 3 /\ log' = Report(find(list, ptr), ptr))
      BY <1>1, <2>3, InvForm DEF ReallocInvalid
    <3>2. Call /\ \A it \in find(list, ptr) : it.cnt = 0
      BY <2>3 DEF ReallocInvalid
    <3> QED
      BY <2>1, <2>2, <3>1, <3>2
  <2>4. ASSUME NEW ptr \in Ptrs, FreeInvalid(ptr) PROVE Truth
    BY <2>2, <2>4 DEF FreeInvalid
  <2>5. ASSUME NEW size \in Sizes, Malloc(size) \/ ReallocNull(size) PROVE log' = Quiet
    BY <2>5 DEF Malloc, ReallocNull
  <2>6. ASSUME NEW nmemb \in Sizes, NEW size \in Sizes, Calloc(nmemb, size) PROVE log' = Quiet
    BY <2>6 DEF Calloc
  <2>7. ASSUME NEW ptr, Abort(ptr) PROVE Truth
    BY <2>0, <2>7 DEF Abort
  <2>8. ASSUME NEW ptr, NEW size, ReallocUnlisted(ptr, size) \/ ReallocListed(ptr, size)
        PROVE  log' = Quiet \/ Abort(ptr)
    BY <2>8, Zenon DEF ReallocUnlisted, ReallocListed, Release
  <2>9. ASSUME NEW ptr, FreeUnchecked(ptr) \/ FreeListed(ptr) PROVE log' = Quiet \/ Abort(ptr)
    BY <2>9, Zenon DEF FreeUnchecked, FreeListed, Release
  <2>10. CASE FreeNull
    BY <2>1, <2>10 DEF FreeNull
  <2>11. ~fini /\ ~init
    BY DEF fini, init
  <2> HIDE DEF Truth
  <2> QED
    BY <2>1, <2>3, <2>4, <2>5, <2>6, <2>7, <2>8, <2>9, <2>10, <2>11, Zenon DEF Next
<1> QED
  BY <1>1, TraceInvariance, PTL DEF Spec, ReportsTruthful

=============================================================================
