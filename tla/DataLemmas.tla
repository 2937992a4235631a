----------------------------- MODULE DataLemmas -----------------------------
(***************************************************************************)
(* Facts about numbers and sequences that the proofs of several components *)
(* need and the library does not state.                                    *)
(***************************************************************************)
EXTENDS Integers, Sequences, FiniteSetsExt, NaturalsInduction, WellFoundedInduction,
        SequenceTheorems, FiniteSetTheorems, TLAPS

\* A nonempty set of naturals has a least element, and Min is that element.
LEMMA MinOfNat ==
  ASSUME NEW S \in SUBSET Nat, S # {}
  PROVE  Min(S) \in S /\ \A y \in S : Min(S) <= y
<1>1. \E x \in S : \A y \in S : ~(<<y, x>> \in OpToRel(<, Nat))
  BY NatLessThanWellFounded, WFMin
<1>2. PICK x \in S : \A y \in S : ~(<<y, x>> \in OpToRel(<, Nat))
  BY <1>1
<1>3. ASSUME NEW y \in S PROVE x <= y
  <2>1. <<y, x>> \in Nat \X Nat
    OBVIOUS
  <2>2. ~(y < x)
    BY <1>2, <2>1 DEF OpToRel
  <2> QED
    BY <2>2
<1> QED
  BY <1>3 DEF Min

\* A nonempty bounded set of naturals has a greatest element, and Max is it.
LEMMA MaxOfNat ==
  ASSUME NEW B \in Nat, NEW S \in SUBSET (0 .. B), S # {}
  PROVE  Max(S) \in S /\ \A y \in S : y <= Max(S)
<1> DEFINE T == {B - x : x \in S}
<1>1. T \in SUBSET Nat /\ T # {}
  <2>1. \A x \in S : x \in 0 .. B /\ B - x \in Nat
    OBVIOUS
  <2> QED
    BY <2>1
<1>2. Min(T) \in T /\ \A y \in T : Min(T) <= y
  BY <1>1, MinOfNat
<1>3. PICK x \in S : Min(T) = B - x
  BY <1>2
<1>4. ASSUME NEW y \in S PROVE y <= x
  <2>1. B - x <= B - y
    BY <1>2, <1>3
  <2>2. x \in 0 .. B /\ y \in 0 .. B
    OBVIOUS
  <2> QED
    BY <2>1, <2>2
<1> HIDE DEF T
<1>5. x \in 0 .. B /\ \A y \in S : y \in 0 .. B
  OBVIOUS
<1>6. \A y \in S : x >= y
  BY <1>4, <1>5
<1>7. Max(S) \in S /\ \A y \in S : Max(S) >= y
  BY <1>6 DEF Max
<1> QED
  BY <1>5, <1>7

\* A sequence is its first n elements and the others.
LEMMA SplitSeq ==
  ASSUME NEW S, NEW s \in Seq(S), NEW n \in 0..Len(s)
  PROVE  SubSeq(s, 1, n) \o SubSeq(s, n + 1, Len(s)) = s
<1>1. 1 \in 1..Len(s)+1 /\ n \in 1-1..Len(s) /\ Len(s) \in n..Len(s)
  OBVIOUS
<1>2. SubSeq(s, 1, n) \o SubSeq(s, n + 1, Len(s)) = SubSeq(s, 1, Len(s))
  BY <1>1, ConcatAdjacentSubSeq, Zenon
<1> QED
  BY <1>2, SubSeqFull, Zenon

LEMMA Cuts ==
  ASSUME NEW S, NEW y \in Seq(S), NEW k \in 0..Len(y)
  PROVE  /\ SubSeq(y, 1, k) \in Seq(S) /\ Len(SubSeq(y, 1, k)) = k
         /\ SubSeq(y, k + 1, Len(y)) \in Seq(S) /\ Len(SubSeq(y, k + 1, Len(y))) = Len(y) - k
OBVIOUS

\* s followed by t.  The provers reason about chains of concatenations only as
\* long as the operator is not expanded.
Cat(s, t) == s \o t

LEMMA CatType ==
  ASSUME NEW S, NEW x \in Seq(S), NEW y \in Seq(S)
  PROVE  /\ Cat(x, y) \in Seq(S) /\ Len(Cat(x, y)) = Len(x) + Len(y)
         /\ Cat(x, <<>>) = x /\ Cat(<<>>, x) = x
BY ConcatProperties, ConcatEmptySeq DEF Cat

LEMMA CatAssociates ==
  ASSUME NEW S, NEW x \in Seq(S), NEW y \in Seq(S), NEW z \in Seq(S)
  PROVE  Cat(x, Cat(y, z)) = Cat(Cat(x, y), z)
BY ConcatAssociative, SMT DEF Cat

\* What is cut off the front of y and appended to x leaves x followed by y as
\* it was, also behind a prefix p.
LEMMA MoveLeft ==
  ASSUME NEW S, NEW p \in Seq(S), NEW x \in Seq(S), NEW y \in Seq(S), NEW k \in 0..Len(y)
  PROVE  Cat(Cat(p, Cat(x, SubSeq(y, 1, k))), SubSeq(y, k + 1, Len(y))) = Cat(Cat(p, x), y)
<1>1. PICK a : a = SubSeq(y, 1, k)
  OBVIOUS
<1>2. PICK b : b = SubSeq(y, k + 1, Len(y))
  OBVIOUS
<1>3. a \in Seq(S) /\ b \in Seq(S)
  BY <1>1, <1>2, Cuts
<1>4. Cat(a, b) = y
  BY <1>1, <1>2, SplitSeq DEF Cat
<1>5. Cat(x, a) \in Seq(S)
  BY <1>3, CatType, Zenon
<1>6. Cat(Cat(p, Cat(x, a)), b) = Cat(p, Cat(Cat(x, a), b))
  BY <1>3, <1>5, CatAssociates
<1>7. Cat(Cat(x, a), b) = Cat(x, Cat(a, b))
  BY <1>3, CatAssociates
<1>8. Cat(p, Cat(x, y)) = Cat(Cat(p, x), y)
  BY CatAssociates
<1> QED
  BY <1>1, <1>2, <1>4, <1>6, <1>7, <1>8, Zenon

\* z has the elements of x, and those of y behind them.
Follows(z, x, y) ==
    /\ Len(z) = Len(x) + Len(y)
    /\ \A i \in 1..Len(x) : z[i] = x[i]
    /\ \A i \in 1..Len(y) : z[i + Len(x)] = y[i]

LEMMA CatAt ==
  ASSUME NEW S, NEW x \in Seq(S), NEW y \in Seq(S)
  PROVE  Follows(Cat(x, y), x, y)
<1>1. \A i \in 1..Len(x) : (x \o y)[i] = x[i]
  BY SMT
<1>2. \A i \in 1..Len(y) : (x \o y)[i + Len(x)] = y[i]
  BY SMT
<1>3. Len(x \o y) = Len(x) + Len(y)
  BY SMT
<1> QED
  BY <1>1, <1>2, <1>3, Zenon DEF Cat, Follows

Fields(s, a, b, c, n) ==
    /\ Len(s) = n + n + n
    /\ \A i \in 1..n : s[i] = a[i]
    /\ \A i \in 1..n : s[i + n] = b[i]
    /\ \A i \in 1..n : s[i + n + n] = c[i]

\* Three strings of the same length, one behind the other.
LEMMA ThreeFields ==
  ASSUME NEW S, NEW a \in Seq(S), NEW b \in Seq(S), NEW c \in Seq(S),
         NEW n \in Nat, Len(a) = n, Len(b) = n, Len(c) = n
  PROVE  Cat(Cat(a, b), c) \in Seq(S) /\ Fields(Cat(Cat(a, b), c), a, b, c, n)
<1>1. PICK d : d = Cat(a, b)
  OBVIOUS
<1>2. d \in Seq(S) /\ Len(d) = Len(a) + Len(b)
  BY <1>1, CatType, Zenon
<1>3. Follows(d, a, b)
  BY <1>1, CatAt, Zenon
<1>4. PICK s : s = Cat(d, c)
  OBVIOUS
<1>5. s \in Seq(S) /\ Len(s) = Len(d) + Len(c)
  BY <1>2, <1>4, CatType, Zenon
<1>6. Follows(s, d, c)
  BY <1>2, <1>4, CatAt, Zenon
<1>7. s \in Seq(S) /\ Len(s) = n + n + n
  BY <1>2, <1>5
<1>8. \A i \in 1..n : s[i + n + n] = c[i]
  BY <1>2, <1>6 DEF Follows
<1>9. \A i \in 1..n : s[i] = a[i]
  BY <1>2, <1>3, <1>6 DEF Follows
<1>10. \A i \in 1..n : s[i + n] = b[i]
  BY <1>2, <1>3, <1>6 DEF Follows
<1> QED
  BY <1>1, <1>4, <1>7, <1>8, <1>9, <1>10, Zenon DEF Fields

LEMMA FunctionIsSeq ==
  ASSUME NEW S, NEW n \in Nat, NEW f \in [1..n -> S]
  PROVE  f \in Seq(S) /\ Len(f) = n
OBVIOUS

\* The m elements of s behind the first k.
LEMMA PieceOf ==
  ASSUME NEW S, NEW s \in Seq(S), NEW k \in Nat, NEW m \in Nat, k + m <= Len(s)
  PROVE  /\ SubSeq(s, k + 1, k + m) \in Seq(S) /\ Len(SubSeq(s, k + 1, k + m)) = m
         /\ \A i \in 1..m : SubSeq(s, k + 1, k + m)[i] = s[i + k]
OBVIOUS

\* f is a function on 0..N: f[0] is a, and f[n] is what G makes of n and f[n - 1].
Recurs(f, N, V, a, G) ==
    f \in [0..N -> V] /\ f[0] = a /\ \A n \in 1..N : f[n] = G[<<n, f[n - 1]>>]

\* There is such a function.
LEMMA RecursionExists ==
  ASSUME NEW N \in Nat, NEW V, NEW a \in V, NEW G \in [(1..N) \X V -> V]
  PROVE  \E f : Recurs(f, N, V, a, G)
<1> DEFINE Upto(f, m) == /\ f \in [0..m -> V] /\ f[0] = a
                         /\ \A n \in 1..m : f[n] = G[<<n, f[n - 1]>>]
<1>1. \E f : Upto(f, 0)
  <2>1. PICK f : f = [n \in 0..0 |-> a]
    OBVIOUS
  <2>2. Upto(f, 0)
    BY <2>1
  <2> QED
    BY <2>2
<1>2. ASSUME NEW m \in Nat, m < N, NEW f, Upto(f, m)
      PROVE  \E g : Upto(g, m + 1)
  <2>1. f[m] \in V /\ m + 1 \in 1..N
    BY <1>2
  <2>2. G[<<m + 1, f[m]>>] \in V
    BY <2>1
  <2>3. PICK v : v = G[<<m + 1, f[m]>>]
    OBVIOUS
  <2>4. PICK g : g = [n \in 0..(m + 1) |-> IF n = m + 1 THEN v ELSE f[n]]
    OBVIOUS
  <2>5. g \in [0..(m + 1) -> V] /\ g[0] = a
    BY <1>2, <2>2, <2>3, <2>4
  <2>6. ASSUME NEW n \in 1..(m + 1) PROVE g[n] = G[<<n, g[n - 1]>>]
    <3>1. n - 1 \in 0..m /\ g[n - 1] = f[n - 1]
      BY <2>4
    <3>2. CASE n = m + 1
      <4>1. n - 1 = m /\ g[n] = v
        BY <2>4, <3>2
      <4> QED
        BY <2>3, <3>1, <3>2, <4>1, Zenon
    <3>3. CASE n # m + 1
      <4>1. n \in 1..m /\ g[n] = f[n]
        BY <2>4, <3>3
      <4> QED
        BY <1>2, <3>1, <4>1
    <3> QED
      BY <3>2, <3>3
  <2>7. Upto(g, m + 1)
    BY <2>5, <2>6
  <2> QED
    BY <2>7
<1> HIDE DEF Upto
<1> DEFINE Bad == {m \in 0..N : ~ \E f : Upto(f, m)}
<1>3. Bad = {}
  <2> SUFFICES ASSUME Bad # {} PROVE FALSE
    OBVIOUS
  <2>1. Min(Bad) \in Bad /\ \A y \in Bad : Min(Bad) <= y
    BY MinOfNat
  <2>2. PICK m : m = Min(Bad)
    OBVIOUS
  <2>3. m \in 0..N /\ m # 0
    BY <1>1, <2>1, <2>2
  <2>4. m - 1 \in Nat /\ m - 1 < N /\ m - 1 \in 0..N /\ ~(m <= m - 1) /\ (m - 1) + 1 = m
    BY <2>3
  <2>5. \E f : Upto(f, m - 1)
    BY <2>1, <2>2, <2>4
  <2>6. \E g : Upto(g, (m - 1) + 1)
    BY <1>2, <2>4, <2>5
  <2> QED
    BY <2>1, <2>2, <2>4, <2>6
<1>4. PICK f : Upto(f, N)
  BY <1>3
<1> QED
  BY <1>4 DEF Upto, Recurs

\* The quotient and the remainder of a natural number.
LEMMA Division ==
  ASSUME NEW x \in Nat, NEW m \in Nat, m > 0
  PROVE  x = m * (x \div m) + (x % m) /\ x % m \in 0..(m - 1) /\ x \div m \in Nat
OBVIOUS

LEMMA RemainderUnique ==
  ASSUME NEW q \in Nat, NEW m \in Nat, NEW r \in 0..(m - 1)
  PROVE  (q * m + r) % m = r /\ (q * m + r) \div m = q
OBVIOUS

LEMMA SmallRemainder ==
  ASSUME NEW x \in Nat, NEW m \in Nat, x < m
  PROVE  x % m = x /\ x \div m = 0
OBVIOUS

\* The next digit of x, at its weight m, and what is below it are what is below
\* the digit after it.
LEMMA NextDigit ==
  ASSUME NEW x \in Nat, NEW m \in Nat, m > 0, NEW B \in Nat, B > 0
  PROVE  (x % m) + ((x \div m) % B) * m = x % (B * m)
<1>1. PICK q \in Nat, r \in Nat : q = x \div m /\ r = x % m /\ x = m * q + r /\ r < m
  BY Division
<1>2. PICK e \in Nat, d \in Nat : e = q \div B /\ d = q % B /\ q = B * e + d /\ d < B
  BY Division
<1>3. B * m \in Nat /\ d * m \in Nat /\ m * q \in Nat
  OBVIOUS
<1>4. (d + 1) * m <= B * m
  BY <1>2
<1>5. d * m + m = (d + 1) * m
  OBVIOUS
<1>6. d * m + r \in 0..(B * m - 1)
  BY <1>1, <1>3, <1>4, <1>5
<1>7. x = e * (B * m) + (d * m + r)
  <2>1. m * q = m * (B * e) + m * d
    BY <1>2
  <2>2. m * (B * e) = e * (B * m) /\ m * d = d * m
    OBVIOUS
  <2> QED
    BY <1>1, <2>1, <2>2
<1>8. (e * (B * m) + (d * m + r)) % (B * m) = d * m + r
  BY <1>3, <1>6, RemainderUnique
<1> QED
  BY <1>1, <1>2, <1>3, <1>7, <1>8

\* Induction up to a bound, for a set.
LEMMA Stepwise ==
  ASSUME NEW N \in Nat, NEW S, 0 \in S, \A k \in 1 .. N : k - 1 \in S => k \in S
  PROVE  \A k \in 0 .. N : k \in S
<1>1. PICK B : B = {k \in 0 .. N : k \notin S}
  OBVIOUS
<1>2. ASSUME B # {} PROVE FALSE
  <2>1. B \in SUBSET Nat
    BY <1>1
  <2>2. Min(B) \in B /\ \A y \in B : Min(B) <= y
    BY <1>2, <2>1, MinOfNat, Zenon
  <2>3. PICK k : k = Min(B)
    OBVIOUS
  <2>4. k \in 1 .. N /\ k \notin S /\ k - 1 \in 0 .. N /\ ~(k <= k - 1)
    BY <1>1, <2>2, <2>3
  <2>5. k - 1 \notin B
    BY <2>2, <2>3, <2>4
  <2> QED
    BY <1>1, <2>4, <2>5
<1> QED
  BY <1>1, <1>2

EqualSteps(f, g, N) ==
    f[0] = g[0] /\ \A k \in 1 .. N : f[k - 1] = g[k - 1] => f[k] = g[k]

LEMMA StepwiseEqual ==
  ASSUME NEW N \in Nat, NEW f, NEW g, EqualSteps(f, g, N)
  PROVE  \A k \in 0 .. N : f[k] = g[k]
<1>1. PICK S : S = {k \in 0 .. N : f[k] = g[k]}
  OBVIOUS
<1>2. 0 \in S
  BY <1>1 DEF EqualSteps
<1>3. \A k \in 1 .. N : k - 1 \in S => k \in S
  BY <1>1 DEF EqualSteps
<1>4. \A k \in 0 .. N : k \in S
  BY <1>2, <1>3, Stepwise, Zenon
<1> QED
  BY <1>1, <1>4

\* A loop of N steps, as a function.
Loops(f, N, V, a, G) ==
    f \in [0 .. N -> V] /\ f[0] = a /\ \A k \in 1 .. N : f[k] = G[f[k - 1]]

LEMMA LoopExists ==
  ASSUME NEW N \in Nat, NEW V, NEW a \in V, NEW G \in [V -> V]
  PROVE  \E f : Loops(f, N, V, a, G)
<1>1. PICK H : H = [p \in (1 .. N) \X V |-> G[p[2]]]
  OBVIOUS
<1>2. H \in [(1 .. N) \X V -> V]
  BY <1>1
<1>3. PICK f : Recurs(f, N, V, a, H)
  BY <1>2, RecursionExists
<1>4. f \in [0 .. N -> V] /\ f[0] = a /\ \A k \in 1 .. N : f[k] = H[<<k, f[k - 1]>>]
  BY <1>3 DEF Recurs
<1>5. ASSUME NEW k \in 1 .. N PROVE f[k] = G[f[k - 1]]
  <2>1. f[k - 1] \in V
    BY <1>4
  <2>2. <<k, f[k - 1]>> \in (1 .. N) \X V
    BY <2>1
  <2> QED
    BY <1>1, <1>4, <2>2
<1> QED
  BY <1>4, <1>5 DEF Loops
=============================================================================
