----------------------------- MODULE CSimProofs -----------------------------
(***************************************************************************)
(* The cache simulator counts the hits, misses and evictions of a cache    *)
(* that replaces the least recently used block.                            *)
(***************************************************************************)
EXTENDS CSimInvariant, DataLemmas

(* Powers of two, and what the shifts leave of an address.                 *)

LEMMA Powers ==
  /\ Pow2 \in [0..(Width + CountWidth) -> Nat \ {0}]
  /\ Pow2[0] = 1
  /\ \A n \in 1..(Width + CountWidth) : Pow2[n] = 2 * Pow2[n - 1]
<1>1. PICK top \in Nat : top = Width + CountWidth
  BY SimulatorAssumption
<1> DEFINE Doubles(f) == f = [n \in 0..(Width + CountWidth) |-> IF n = 0 THEN 1 ELSE 2 * f[n - 1]]
<1>2. PICK G : G = [z \in (1..top) \X (Nat \ {0}) |-> 2 * z[2]]
  OBVIOUS
<1>3. G \in [(1..top) \X (Nat \ {0}) -> Nat \ {0}]
  BY <1>2
<1>4. PICK f : Recurs(f, top, Nat \ {0}, 1, G)
  <2>1. 1 \in Nat \ {0}
    OBVIOUS
  <2> QED
    BY <1>3, <2>1, RecursionExists, Zenon
<1>5. ASSUME NEW n \in 1..top PROVE f[n] = 2 * f[n - 1]
  <2>1. f \in [0..top -> Nat \ {0}] /\ f[n] = G[<<n, f[n - 1]>>]
    BY <1>4 DEF Recurs
  <2>2. <<n, f[n - 1]>> \in (1..top) \X (Nat \ {0})
    BY <2>1
  <2> QED
    BY <1>2, <2>1, <2>2
<1>6. Doubles(f)
  BY <1>1, <1>4, <1>5 DEF Recurs
<1>7. Doubles(CHOOSE g : Doubles(g))
  BY <1>6
<1>8. Pow2 = CHOOSE g : Doubles(g)
  BY DEF Pow2
<1> HIDE DEF Doubles
<1>9. Doubles(Pow2)
  BY <1>7, <1>8
<1>10. Pow2 = [n \in 0..top |-> IF n = 0 THEN 1 ELSE 2 * Pow2[n - 1]]
  BY <1>1, <1>9 DEF Doubles
<1>11. Pow2[0] = 1 /\ \A n \in 1..top : Pow2[n] = 2 * Pow2[n - 1]
  BY <1>10
<1> DEFINE Bad == {n \in 0..top : Pow2[n] \notin Nat \ {0}}
<1>12. Bad = {}
  <2> SUFFICES ASSUME Bad # {} PROVE FALSE
    OBVIOUS
  <2>1. PICK n \in Bad : \A y \in Bad : n <= y
    <3>1. Min(Bad) \in Bad /\ \A y \in Bad : Min(Bad) <= y
      BY MinOfNat
    <3> QED
      BY <3>1
  <2>2. n # 0
    BY <1>11
  <2>3. n - 1 \in 0..top /\ n - 1 \notin Bad
    BY <2>1, <2>2
  <2>4. Pow2[n - 1] \in Nat \ {0} /\ Pow2[n] = 2 * Pow2[n - 1]
    BY <1>11, <2>2, <2>3
  <2> QED
    BY <2>4
<1>13. Pow2 \in [0..top -> Nat \ {0}]
  BY <1>10, <1>12
<1> QED
  BY <1>1, <1>11, <1>13

LEMMA PowerType ==
  ASSUME NEW n \in Nat, n <= Width
  PROVE  Pow2[n] \in Nat /\ Pow2[n] > 0
<1>1. n \in 0..(Width + CountWidth)
  BY SimulatorAssumption
<1> QED
  BY <1>1, Powers

LEMMA CountLimit == Pow2[CountWidth] \in Nat /\ Pow2[CountWidth] > 0
<1>1. CountWidth \in 0..(Width + CountWidth)
  BY SimulatorAssumption
<1> QED
  BY <1>1, Powers

LEMMA PowerOfSum ==
  ASSUME NEW m \in Nat, NEW n \in Nat, m + n <= Width
  PROVE  Pow2[m + n] = Pow2[m] * Pow2[n]
<1> DEFINE Bad == {k \in 0..n : Pow2[m + k] # Pow2[m] * Pow2[k]}
<1>1. \A k \in 0..n : Pow2[k] \in Nat /\ Pow2[m + k] \in Nat /\ Pow2[m] \in Nat
  <2> TAKE k \in 0..n
  <2>1. k <= Width /\ m + k \in Nat /\ m + k <= Width /\ m <= Width
    BY SimulatorAssumption
  <2> QED
    BY <2>1, PowerType
<1>2. \A k \in 0..n : k # 0 => Pow2[k] = 2 * Pow2[k - 1] /\ Pow2[m + k] = 2 * Pow2[m + (k - 1)]
  <2> SUFFICES ASSUME NEW k \in 0..n, k # 0
               PROVE  Pow2[k] = 2 * Pow2[k - 1] /\ Pow2[m + k] = 2 * Pow2[m + (k - 1)]
    OBVIOUS
  <2>1. k \in 1..(Width + CountWidth) /\ m + k \in 1..(Width + CountWidth) /\ (m + k) - 1 = m + (k - 1)
    BY SimulatorAssumption
  <2> QED
    BY <2>1, Powers
<1>3. Bad = {}
  <2> SUFFICES ASSUME Bad # {} PROVE FALSE
    OBVIOUS
  <2>1. PICK k \in Bad : \A y \in Bad : k <= y
    <3>1. Bad \in SUBSET Nat
      OBVIOUS
    <3> HIDE DEF Bad
    <3>2. Min(Bad) \in Bad /\ \A y \in Bad : Min(Bad) <= y
      BY <3>1, MinOfNat
    <3> QED
      BY <3>2
  <2>2. k # 0
    <3>1. Pow2[0] = 1 /\ m + 0 = m /\ Pow2[m] * 1 = Pow2[m]
      BY <1>1, Powers
    <3> QED
      BY <3>1
  <2>3. k - 1 \in 0..n /\ k - 1 \notin Bad
    BY <2>1, <2>2
  <2>4. Pow2[m + (k - 1)] = Pow2[m] * Pow2[k - 1]
    BY <2>3
  <2>5. PICK a \in Nat, d \in Nat : a = Pow2[m] /\ d = Pow2[k - 1]
    BY <1>1, <2>3
  <2>6. Pow2[m + k] = 2 * (a * d) /\ Pow2[k] = 2 * d
    BY <1>2, <2>2, <2>4, <2>5
  <2>7. 2 * (a * d) = a * (2 * d)
    OBVIOUS
  <2> QED
    BY <2>5, <2>6, <2>7
<1>4. n \in 0..n /\ n \notin Bad
  BY <1>3
<1> QED
  BY <1>4

\* A word of three fields: what is above m is cut at n, or shifted down by n.
LEMMA WordFields ==
  ASSUME NEW x \in Nat, NEW m \in Nat, NEW n \in Nat, m > 0, n > 0
  PROVE  /\ (x \div m) \div n = x \div (m * n)
         /\ (x % (m * n)) \div m = (x \div m) % n
<1>1. PICK q \in Nat, r \in Nat : q = x \div m /\ x = m * q + r /\ r < m
  BY Division
<1>2. PICK e \in Nat, d \in Nat : e = q \div n /\ d = q % n /\ q = n * e + d /\ d < n
  BY Division
<1>3. m * n \in Nat /\ m * d \in Nat /\ m * d + r \in Nat
  OBVIOUS
<1>4. m * d + r < m * n
  <2>1. m * (d + 1) <= m * n
    BY <1>2
  <2>2. m * (d + 1) = m * d + m
    OBVIOUS
  <2> QED
    BY <1>1, <1>3, <2>1, <2>2
<1>5. x = e * (m * n) + (m * d + r)
  <2>1. m * q = m * (n * e) + m * d
    BY <1>2
  <2>2. m * (n * e) = e * (m * n)
    OBVIOUS
  <2> QED
    BY <1>1, <2>1, <2>2
<1>6. PICK k \in Nat, w \in Nat : k = m * n /\ w = m * d + r /\ w \in 0..(k - 1)
  BY <1>3, <1>4
<1>7. x % k = w /\ x \div k = e
  BY <1>5, <1>6, RemainderUnique
<1>8. w = d * m + r /\ r \in 0..(m - 1)
  BY <1>1, <1>6
<1>9. w \div m = d
  BY <1>8, RemainderUnique
<1> QED
  BY <1>1, <1>2, <1>6, <1>7, <1>9

\* A word shifted up by k and cut off.
LEMMA WordShifted ==
  ASSUME NEW x \in Nat, NEW m \in Nat, NEW k \in Nat, m > 0, k > 0
  PROVE  (x * k) % (m * k) = (x % m) * k
<1>1. PICK q \in Nat, r \in Nat : q = x \div m /\ r = x % m /\ x = m * q + r /\ r < m
  BY Division
<1>2. x * k = q * (m * k) + r * k
  <2>1. x * k = (m * q) * k + r * k
    BY <1>1
  <2>2. (m * q) * k = q * (m * k)
    OBVIOUS
  <2> QED
    BY <2>1, <2>2
<1>3. m * k \in Nat /\ r * k \in 0..(m * k - 1)
  <2>1. (r + 1) * k <= m * k
    BY <1>1
  <2>2. (r + 1) * k = r * k + k
    OBVIOUS
  <2> QED
    BY <2>1, <2>2
<1>4. (q * (m * k) + r * k) % (m * k) = r * k
  BY <1>3, RemainderUnique
<1> QED
  BY <1>1, <1>2, <1>4

\* The two fields above the offset are the set and the tag of the block.
LEMMA AddressFields ==
  ASSUME NEW p, Geometry(p), NEW addr \in Addrs
  PROVE  /\ Block(p, addr) \in Nat
         /\ SetOf(p, addr) = Block(p, addr) % Pow2[p.s]
         /\ TagOf(p, addr) = Block(p, addr) \div Pow2[p.s]
<1>1. PICK s \in Nat, o \in Nat : s = p.s /\ o = p.b /\ s > 0 /\ s + o < Width
  BY SimulatorAssumption DEF Geometry
<1>2. PICK w \in Nat : w = Width
  BY SimulatorAssumption
<1>3. PICK t \in Nat : t = w - s - o /\ t > 0 /\ t < w /\ t + o = w - s /\ t + o < w /\ t + (s + o) = w
  BY <1>1, <1>2
<1>4. t % w = t /\ (t + o) % w = t + o /\ (s + o) % w = s + o
  <2>1. t + o \in Nat /\ s + o \in Nat /\ s + o < w
    BY <1>1, <1>2
  <2> QED
    BY <1>3, <2>1, SmallRemainder
<1>5. PICK PS \in Nat, PB \in Nat, PT \in Nat : PS = Pow2[s] /\ PB = Pow2[o] /\ PT = Pow2[t]
                                             /\ PS > 0 /\ PB > 0 /\ PT > 0
  <2>1. s <= Width /\ o <= Width /\ t <= Width
    BY <1>1, <1>2, <1>3
  <2> QED
    BY <2>1, PowerType
<1>6. Pow2[s + o] = PB * PS /\ Pow2[t + o] = PB * PT /\ Pow2[w] = (PB * PS) * PT
  <2>1. Pow2[o + s] = PB * PS /\ Pow2[o + t] = PB * PT
    BY <1>1, <1>2, <1>3, <1>5, PowerOfSum
  <2>2. Pow2[(s + o) + t] = Pow2[s + o] * PT
    BY <1>1, <1>2, <1>3, <1>5, PowerOfSum
  <2>3. o + s = s + o /\ o + t = t + o /\ (s + o) + t = w
    BY <1>3
  <2> QED
    BY <2>1, <2>2, <2>3
<1>7. PICK a \in Nat : a = addr
  <2>1. Pow2[Width] \in Nat
    BY SimulatorAssumption, PowerType
  <2> QED
    BY <2>1, SimulatorAssumption
<1>8. PICK BS \in Nat : BS = PB * PS /\ BS > 0
  BY <1>5
<1>9. TagOf(p, addr) = a \div BS /\ Block(p, addr) = a \div PB
  BY <1>1, <1>2, <1>4, <1>5, <1>6, <1>7, <1>8 DEF TagOf, Shr, Block
<1>10. SetOf(p, addr) = ((a * PT) % (BS * PT)) \div (PB * PT)
  BY <1>1, <1>2, <1>3, <1>4, <1>5, <1>6, <1>7, <1>8 DEF SetOf, Shl, Shr
<1>11. (a * PT) % (BS * PT) = (a % BS) * PT
  BY <1>5, <1>8, WordShifted
<1>12. a % BS \in Nat
  BY <1>8, Division
<1>13. PICK r \in Nat : r = a % BS
  BY <1>12
<1>14. (r * PT) \div (PT * PB) = r \div PB
  <2>1. (r * PT) \div PT = r
    <3>1. 0 \in 0..(PT - 1) /\ r * PT + 0 = r * PT
      BY <1>5
    <3> QED
      BY <3>1, RemainderUnique
  <2>2. r * PT \in Nat
    OBVIOUS
  <2>3. ((r * PT) \div PT) \div PB = (r * PT) \div (PT * PB)
    BY <1>5, <2>2, WordFields
  <2> QED
    BY <2>1, <2>3
<1>15. PT * PB = PB * PT
  OBVIOUS
<1>16. SetOf(p, addr) = r \div PB
  BY <1>10, <1>11, <1>13, <1>14, <1>15
<1>17. r \div PB = (a \div PB) % PS /\ (a \div PB) \div PS = a \div BS
  BY <1>5, <1>8, <1>13, WordFields
<1>18. a \div PB \in Nat
  BY <1>5, Division
<1> QED
  BY <1>1, <1>5, <1>9, <1>16, <1>17, <1>18

-----------------------------------------------------------------------------
(* The trace grows by one access.                                          *)

LEMMA Appended ==
  ASSUME NEW t \in Seq(Addrs), NEW a \in Addrs
  PROVE  /\ Append(t, a) \in Seq(Addrs) /\ Len(Append(t, a)) = Len(t) + 1
         /\ DOMAIN t = 1..Len(t) /\ DOMAIN Append(t, a) = 1..(Len(t) + 1)
         /\ Append(t, a)[Len(t) + 1] = a
         /\ \A k \in 1..Len(t) : Append(t, a)[k] = t[k]
OBVIOUS

LEMMA UsedAfter ==
  ASSUME NEW p, NEW t \in Seq(Addrs), NEW a \in Addrs, NEW y
  PROVE  Used(p, Append(t, a), y) <=> Used(p, t, y) \/ y = Block(p, a)
<1>1. PICK u : u = Append(t, a)
  OBVIOUS
<1>2. /\ u[Len(t) + 1] = a /\ \A k \in 1..Len(t) : u[k] = t[k]
      /\ DOMAIN t = 1..Len(t) /\ DOMAIN u = 1..(Len(t) + 1) /\ Len(t) \in Nat
  BY <1>1, Appended
<1>3. ASSUME Used(p, t, y) PROVE Used(p, u, y)
  BY <1>2, <1>3 DEF Used
<1>4. ASSUME y = Block(p, a) PROVE Used(p, u, y)
  BY <1>2, <1>4 DEF Used
<1>5. ASSUME Used(p, u, y), y # Block(p, a) PROVE Used(p, t, y)
  <2>1. PICK k \in DOMAIN u : Block(p, u[k]) = y
    BY <1>5 DEF Used
  <2>2. k \in 1..Len(t)
    BY <1>2, <1>5, <2>1
  <2> QED
    BY <1>2, <2>1, <2>2 DEF Used
<1> QED
  BY <1>1, <1>3, <1>4, <1>5

LEMMA NewerAfter ==
  ASSUME NEW p, NEW t \in Seq(Addrs), NEW a \in Addrs, NEW y, y # Block(p, a)
  PROVE  /\ Newer(p, Append(t, a), y, Block(p, a))
         /\ \A z : Newer(p, t, y, z) => Newer(p, Append(t, a), y, z)
<1>1. PICK u : u = Append(t, a)
  OBVIOUS
<1>2. /\ u[Len(t) + 1] = a /\ \A k \in 1..Len(t) : u[k] = t[k]
      /\ DOMAIN t = 1..Len(t) /\ DOMAIN u = 1..(Len(t) + 1) /\ Len(t) \in Nat
      /\ Len(u) = Len(t) + 1
  BY <1>1, Appended
<1>3. Newer(p, u, y, Block(p, a))
  <2>1. Len(t) + 1 \in DOMAIN u /\ \A j \in (Len(t) + 1)..Len(u) : j = Len(t) + 1
    BY <1>2
  <2> QED
    BY <1>2, <2>1 DEF Newer
<1>4. ASSUME NEW z, Newer(p, t, y, z) PROVE Newer(p, u, y, z)
  <2>1. PICK k \in DOMAIN t : Block(p, t[k]) = z /\ \A j \in k..Len(t) : Block(p, t[j]) # y
    BY <1>4 DEF Newer
  <2>2. k \in DOMAIN u /\ Block(p, u[k]) = z
    BY <1>2, <2>1
  <2>3. ASSUME NEW j \in k..Len(u) PROVE Block(p, u[j]) # y
    <3>1. CASE j = Len(t) + 1
      BY <1>2, <3>1
    <3>2. CASE j # Len(t) + 1
      <4>1. j \in k..Len(t) /\ j \in 1..Len(t)
        BY <1>2, <2>1, <3>2
      <4> QED
        BY <1>2, <2>1, <4>1
    <3> QED
      BY <3>1, <3>2
  <2> QED
    BY <2>2, <2>3 DEF Newer
<1> QED
  BY <1>1, <1>3, <1>4

-----------------------------------------------------------------------------
(* One set of lines.                                                       *)

\* The block in a line belongs to the set, and is told by its tag.
LEMMA HeldBlock ==
  ASSUME NEW p, Geometry(p), NEW x \in 0..(Pow2[p.s] - 1), NEW c \in SetType(p.E),
         NEW e \in DOMAIN c.lines
  PROVE  /\ Held(p, x, c, e) \in Nat
         /\ Held(p, x, c, e) % Pow2[p.s] = x
         /\ Held(p, x, c, e) \div Pow2[p.s] = c.lines[e].tag
<1>1. PICK q \in Nat : q = Pow2[p.s] /\ q > 0
  <2>1. p.s \in Nat /\ p.s <= Width
    BY SimulatorAssumption DEF Geometry
  <2> QED
    BY <2>1, PowerType
<1>2. PICK g \in Nat : g = c.lines[e].tag
  BY DEF SetType, Line
<1>3. Held(p, x, c, e) = g * q + x /\ x \in 0..(q - 1)
  BY <1>1, <1>2 DEF Held
<1>4. g * q + x \in Nat
  BY <1>3
<1>5. (g * q + x) % q = x /\ (g * q + x) \div q = g
  BY <1>3, RemainderUnique
<1> QED
  BY <1>1, <1>2, <1>3, <1>4, <1>5, Zenon

LEMMA HeldIsBlock ==
  ASSUME NEW p, Geometry(p), NEW a \in Addrs, NEW c \in SetType(p.E),
         NEW e \in DOMAIN c.lines
  PROVE  /\ SetOf(p, a) \in 0..(Pow2[p.s] - 1)
         /\ Held(p, SetOf(p, a), c, e) = Block(p, a) <=> c.lines[e].tag = TagOf(p, a)
<1>1. PICK q \in Nat : q = Pow2[p.s] /\ q > 0
  <2>1. p.s \in Nat /\ p.s <= Width
    BY SimulatorAssumption DEF Geometry
  <2> QED
    BY <2>1, PowerType
<1>2. PICK k \in Nat : k = Block(p, a) /\ SetOf(p, a) = k % q /\ TagOf(p, a) = k \div q
  BY <1>1, AddressFields
<1>3. PICK y \in 0..(q - 1), g \in Nat : y = k % q /\ g = k \div q /\ k = q * g + y
  <2>1. k = q * (k \div q) + (k % q) /\ k % q \in 0..(q - 1) /\ k \div q \in Nat
    BY <1>1, Division
  <2> QED
    BY <2>1, Zenon
<1>4. SetOf(p, a) \in 0..(Pow2[p.s] - 1)
  BY <1>1, <1>2, <1>3
<1>5. PICK h : h = Held(p, SetOf(p, a), c, e)
  OBVIOUS
<1>6. h % q = y /\ h \div q = c.lines[e].tag
  BY <1>1, <1>2, <1>3, <1>4, <1>5, HeldBlock
<1>7. ASSUME c.lines[e].tag = g PROVE h = k
  <2>1. h = g * q + y
    BY <1>1, <1>2, <1>3, <1>5, <1>7 DEF Held
  <2>2. g * q = q * g
    OBVIOUS
  <2> QED
    BY <1>3, <2>1, <2>2
<1>8. ASSUME h = k PROVE c.lines[e].tag = g
  BY <1>3, <1>6, <1>8
<1>9. h = k <=> c.lines[e].tag = g
  BY <1>7, <1>8
<1> QED
  BY <1>2, <1>3, <1>4, <1>5, <1>9, Zenon

\* An access to another set.
LEMMA OtherSet ==
  ASSUME NEW p, Geometry(p), NEW t \in Seq(Addrs), NEW a \in Addrs,
         NEW x \in 0..(Pow2[p.s] - 1), x # SetOf(p, a),
         NEW c \in SetType(p.E), SetInv(p, t, x, c)
  PROVE  SetInv(p, Append(t, a), x, c)
<1>1. PICK u : u = Append(t, a)
  OBVIOUS
<1>2. c.useCnt <= Len(u)
  <2>1. Len(u) = Len(t) + 1 /\ Len(t) \in Nat /\ c.useCnt \in Nat
    BY <1>1, Appended DEF SetType
  <2> QED
    BY <2>1 DEF SetInv
<1>3. SetOf(p, a) = Block(p, a) % Pow2[p.s]
  BY AddressFields
<1>4. Filled(c) \subseteq DOMAIN c.lines
  BY DEF Filled
<1>5. \A e \in DOMAIN c.lines : Held(p, x, c, e) # Block(p, a)
  BY <1>3, HeldBlock
<1>6. \A y : Used(p, t, y) => Used(p, u, y)
  BY <1>1, UsedAfter
<1>7. \A y, z : y # Block(p, a) /\ Newer(p, t, y, z) => Newer(p, u, y, z)
  BY <1>1, NewerAfter
<1>8. OrderInv(p, u, x, c)
  BY <1>4, <1>5, <1>6, <1>7 DEF SetInv, OrderInv
<1>9. ReplacedInv(p, u, x, c)
  <2> SUFFICES ASSUME NEW y \in Nat, y % Pow2[p.s] = x, Used(p, u, y),
                      \A e \in Filled(c) : Held(p, x, c, e) # y,
                      NEW e \in DOMAIN c.lines
               PROVE  e \in Filled(c) /\ Newer(p, u, y, Held(p, x, c, e))
    BY DEF ReplacedInv
  <2>1. y # Block(p, a)
    BY <1>3
  <2>2. Used(p, t, y)
    BY <1>1, <2>1, UsedAfter
  <2>3. e \in Filled(c) /\ Newer(p, t, y, Held(p, x, c, e))
    BY <2>2 DEF SetInv, ReplacedInv
  <2> QED
    BY <1>7, <2>1, <2>3
<1> QED
  BY <1>1, <1>2, <1>8, <1>9 DEF SetInv

\* The line that accessCache uses for the tag: the one that has it, else an
\* empty one, else the one with the smallest time of last use.
Chosen(c, e, tag) ==
    \/ e \in Filled(c) /\ c.lines[e].tag = tag
    \/ /\ \A f \in Filled(c) : c.lines[f].tag # tag
       /\ \/ e \notin Filled(c)
          \/ \A f \in DOMAIN c.lines :
                f \in Filled(c) /\ c.lines[e].useTime <= c.lines[f].useTime

\* The set after a use of line e.
UsedSet(c, e, tag) ==
    [lines |-> [c.lines EXCEPT ![e] = [tag |-> tag, valid |-> 1, useTime |-> c.useCnt + 1]],
     useCnt |-> c.useCnt + 1]

\* What a use of line e leaves of set x, in terms of the blocks in it.
Replaces(p, x, c, n, e, tag, k) ==
    /\ n \in SetType(p.E) /\ n.useCnt = c.useCnt + 1
    /\ DOMAIN n.lines = DOMAIN c.lines
    /\ Filled(n) = Filled(c) \cup {e}
    /\ n.lines[e].useTime = c.useCnt + 1 /\ n.lines[e].tag = tag
    /\ Held(p, x, n, e) = k
    /\ \A f \in DOMAIN c.lines \ {e} :
           n.lines[f] = c.lines[f] /\ Held(p, x, n, f) = Held(p, x, c, f)

LEMMA UsedLines ==
  ASSUME NEW p, Geometry(p), NEW a \in Addrs, NEW c \in SetType(p.E),
         NEW e \in DOMAIN c.lines
  PROVE  Replaces(p, SetOf(p, a), c, UsedSet(c, e, TagOf(p, a)), e, TagOf(p, a), Block(p, a))
<1> DEFINE x == SetOf(p, a)
<1>1. PICK n : n = UsedSet(c, e, TagOf(p, a))
  OBVIOUS
<1>2. TagOf(p, a) \in Nat
  <2>1. Pow2[p.s] \in Nat /\ Pow2[p.s] > 0
    <3>1. p.s \in Nat /\ p.s <= Width
      BY SimulatorAssumption DEF Geometry
    <3> QED
      BY <3>1, PowerType
  <2> QED
    BY <2>1, AddressFields, Division
<1>3. n \in SetType(p.E) /\ n.useCnt = c.useCnt + 1 /\ DOMAIN n.lines = DOMAIN c.lines
  <2>1. PICK l : l = [tag |-> TagOf(p, a), valid |-> 1, useTime |-> c.useCnt + 1]
    OBVIOUS
  <2>2. c.useCnt \in Nat /\ c.lines \in [0..(p.E - 1) -> Line]
    BY DEF SetType
  <2>3. l \in Line
    BY <1>2, <2>1, <2>2 DEF Line
  <2>4. n = [lines |-> [c.lines EXCEPT ![e] = l], useCnt |-> c.useCnt + 1]
    BY <1>1, <2>1 DEF UsedSet
  <2>5. [c.lines EXCEPT ![e] = l] \in [0..(p.E - 1) -> Line]
    BY <2>2, <2>3
  <2> QED
    BY <2>2, <2>4, <2>5 DEF SetType
<1>4. /\ n.lines[e] = [tag |-> TagOf(p, a), valid |-> 1, useTime |-> c.useCnt + 1]
      /\ \A f \in DOMAIN c.lines \ {e} : n.lines[f] = c.lines[f]
  BY <1>1 DEF UsedSet, SetType
<1>5. Filled(n) = Filled(c) \cup {e}
  BY <1>3, <1>4 DEF Filled
<1>6. Held(p, x, n, e) = Block(p, a)
  BY <1>3, <1>4, HeldIsBlock
<1>7. \A f \in DOMAIN c.lines \ {e} : Held(p, x, n, f) = Held(p, x, c, f)
  BY <1>4 DEF Held
<1>8. Replaces(p, x, c, n, e, TagOf(p, a), Block(p, a))
  BY <1>3, <1>4, <1>5, <1>6, <1>7 DEF Replaces
<1> QED
  BY <1>1, <1>8, Zenon

\* An access to this set.
LEMMA ThisSet ==
  ASSUME NEW p, Geometry(p), NEW t \in Seq(Addrs), NEW a \in Addrs,
         NEW c \in SetType(p.E), SetInv(p, t, SetOf(p, a), c),
         NEW e \in DOMAIN c.lines, Chosen(c, e, TagOf(p, a))
  PROVE  SetInv(p, Append(t, a), SetOf(p, a), UsedSet(c, e, TagOf(p, a)))
<1>1. PICK u : u = Append(t, a)
  OBVIOUS
<1>2. PICK x : x = SetOf(p, a)
  OBVIOUS
<1>3. PICK n : n = UsedSet(c, e, TagOf(p, a))
  OBVIOUS
<1>4. PICK k : k = Block(p, a)
  OBVIOUS
<1>5. PICK g : g = TagOf(p, a)
  OBVIOUS
<1>6. /\ n \in SetType(p.E) /\ n.useCnt = c.useCnt + 1
      /\ DOMAIN n.lines = DOMAIN c.lines
      /\ Filled(n) = Filled(c) \cup {e}
      /\ n.lines[e].useTime = c.useCnt + 1 /\ n.lines[e].tag = g
      /\ Held(p, x, n, e) = k
      /\ \A f \in DOMAIN c.lines \ {e} :
             n.lines[f] = c.lines[f] /\ Held(p, x, n, f) = Held(p, x, c, f)
  <2>1. Replaces(p, x, c, n, e, g, k)
    BY <1>2, <1>3, <1>4, <1>5, UsedLines, Zenon
  <2> QED
    BY <2>1 DEF Replaces
<1>7. \A f \in DOMAIN c.lines : Held(p, x, c, f) = k <=> c.lines[f].tag = g
  BY <1>2, <1>4, <1>5, HeldIsBlock
<1>8. Filled(c) \subseteq DOMAIN c.lines
  BY DEF Filled
<1>9. \A y : Used(p, u, y) <=> Used(p, t, y) \/ y = k
  BY <1>1, <1>4, UsedAfter
<1>10. \A y : y # k => /\ Newer(p, u, y, k)
                      /\ \A z : Newer(p, t, y, z) => Newer(p, u, y, z)
  BY <1>1, <1>4, NewerAfter
<1>11. c.useCnt \in Nat /\ \A f \in DOMAIN c.lines : c.lines[f].useTime \in Nat
  BY DEF SetType, Line
<1>12. OrderInv(p, t, x, c) /\ ReplacedInv(p, t, x, c) /\ c.useCnt <= Len(t)
  BY <1>2 DEF SetInv
<1>13. \A f \in Filled(c) \ {e} : c.lines[f].tag # g /\ Held(p, x, c, f) # k
  <2>1. \A f \in Filled(c) \ {e} : c.lines[f].tag # g
    BY <1>5, <1>12 DEF Chosen, OrderInv
  <2> QED
    BY <1>7, <1>8, <2>1
<1>14. n.useCnt <= Len(u)
  <2>1. Len(u) = Len(t) + 1 /\ Len(t) \in Nat
    BY <1>1, Appended
  <2> QED
    BY <1>6, <1>11, <1>12, <2>1
<1>15. OrderInv(p, u, x, n)
  <2> SUFFICES ASSUME NEW f \in Filled(n)
               PROVE  /\ n.lines[f].useTime <= n.useCnt
                      /\ Used(p, u, Held(p, x, n, f))
                      /\ \A h \in Filled(n) \ {f} :
                            /\ n.lines[f].tag # n.lines[h].tag
                            /\ n.lines[f].useTime # n.lines[h].useTime
                            /\ n.lines[f].useTime < n.lines[h].useTime =>
                                  Newer(p, u, Held(p, x, n, f), Held(p, x, n, h))
    BY DEF OrderInv
  <2>1. \A h \in Filled(c) : c.lines[h].useTime <= c.useCnt /\ Used(p, t, Held(p, x, c, h))
    BY <1>12 DEF OrderInv
  <2>2. CASE f = e
    <3>1. ASSUME NEW h \in Filled(n) \ {f}
          PROVE  /\ n.lines[f].tag # n.lines[h].tag
                 /\ n.lines[h].useTime < n.lines[f].useTime
      <4>1. h \in Filled(c) \ {e} /\ n.lines[h] = c.lines[h]
        BY <1>6, <1>8, <2>2
      <4> QED
        BY <1>6, <1>8, <1>11, <1>13, <2>1, <2>2, <4>1
    <3>2. \A h \in Filled(n) : n.lines[h].useTime \in Nat
      <4>1. Filled(n) \subseteq DOMAIN n.lines
        BY DEF Filled
      <4> QED
        BY <1>6, <4>1 DEF SetType, Line
    <3> QED
      BY <1>6, <1>9, <1>11, <2>2, <3>1, <3>2
  <2>3. CASE f # e
    <3>1. f \in Filled(c) \ {e} /\ f \in DOMAIN c.lines \ {e}
      BY <1>6, <1>8, <2>3
    <3>2. n.lines[f] = c.lines[f] /\ Held(p, x, n, f) = Held(p, x, c, f) /\ Held(p, x, c, f) # k
      BY <1>6, <1>13, <3>1
    <3>3. n.lines[f].useTime <= n.useCnt /\ Used(p, u, Held(p, x, n, f))
      BY <1>6, <1>9, <1>11, <2>1, <3>1, <3>2
    <3>4. ASSUME NEW h \in Filled(n) \ {f}
          PROVE  /\ n.lines[f].tag # n.lines[h].tag
                 /\ n.lines[f].useTime # n.lines[h].useTime
                 /\ n.lines[f].useTime < n.lines[h].useTime =>
                       Newer(p, u, Held(p, x, n, f), Held(p, x, n, h))
      <4>1. CASE h = e
        <5>1. n.lines[f].useTime < n.lines[h].useTime /\ n.lines[f].useTime \in Nat
          BY <1>6, <1>11, <2>1, <3>1, <3>2, <4>1
        <5>2. n.lines[f].tag # n.lines[h].tag
          BY <1>6, <1>13, <3>1, <3>2, <4>1
        <5>3. Newer(p, u, Held(p, x, n, f), Held(p, x, n, h))
          BY <1>6, <1>10, <3>2, <4>1
        <5>4. n.lines[f].useTime # n.lines[h].useTime
          BY <5>1
        <5> QED
          BY <5>2, <5>3, <5>4
      <4>2. CASE h # e
        <5>1. h \in Filled(c) \ {f} /\ h \in DOMAIN c.lines \ {e}
          BY <1>6, <1>8, <4>2
        <5>2. n.lines[h] = c.lines[h] /\ Held(p, x, n, h) = Held(p, x, c, h)
          BY <1>6, <5>1
        <5>3. /\ c.lines[f].tag # c.lines[h].tag
              /\ c.lines[f].useTime # c.lines[h].useTime
              /\ c.lines[f].useTime < c.lines[h].useTime =>
                    Newer(p, t, Held(p, x, c, f), Held(p, x, c, h))
          BY <1>12, <3>1, <5>1 DEF OrderInv
        <5> QED
          BY <1>10, <3>2, <5>2, <5>3
      <4> QED
        BY <4>1, <4>2
    <3> QED
      BY <3>3, <3>4
  <2> QED
    BY <2>2, <2>3
<1>16. ReplacedInv(p, u, x, n)
  <2> SUFFICES ASSUME NEW y \in Nat, y % Pow2[p.s] = x, Used(p, u, y),
                      \A f \in Filled(n) : Held(p, x, n, f) # y
               PROVE  \A f \in DOMAIN n.lines :
                         f \in Filled(n) /\ Newer(p, u, y, Held(p, x, n, f))
    BY DEF ReplacedInv
  <2>1. y # k /\ Used(p, t, y) /\ e \in Filled(n)
    BY <1>6, <1>9
  <2>2. \A f \in Filled(c) \ {e} : Held(p, x, c, f) # y
    BY <1>6, <1>8
  <2>3. ASSUME \A f \in DOMAIN c.lines :
                  f \in Filled(c) /\ (f # e => Newer(p, t, y, Held(p, x, c, f)))
        PROVE  \A f \in DOMAIN n.lines :
                  f \in Filled(n) /\ Newer(p, u, y, Held(p, x, n, f))
    <3> TAKE f \in DOMAIN n.lines
    <3>1. CASE f = e
      BY <1>6, <1>10, <2>1, <3>1
    <3>2. CASE f # e
      BY <1>6, <1>10, <2>1, <2>3, <3>2
    <3> QED
      BY <3>1, <3>2
  <2>4. CASE \A f \in Filled(c) : Held(p, x, c, f) # y
    <3>1. \A f \in DOMAIN c.lines : f \in Filled(c) /\ Newer(p, t, y, Held(p, x, c, f))
      BY <1>12, <2>1, <2>4 DEF ReplacedInv
    <3> QED
      BY <2>3, <3>1
  <2>5. CASE e \in Filled(c) /\ Held(p, x, c, e) = y
    <3>1. c.lines[e].tag # g
      BY <1>7, <2>1, <2>5
    <3>2. \A f \in DOMAIN c.lines :
             f \in Filled(c) /\ c.lines[e].useTime <= c.lines[f].useTime
      BY <1>5, <2>5, <3>1 DEF Chosen
    <3>3. ASSUME NEW f \in DOMAIN c.lines, f # e PROVE Newer(p, t, y, Held(p, x, c, f))
      <4>1. /\ c.lines[e].useTime # c.lines[f].useTime
            /\ c.lines[e].useTime < c.lines[f].useTime =>
                  Newer(p, t, Held(p, x, c, e), Held(p, x, c, f))
        BY <1>12, <2>5, <3>2, <3>3 DEF OrderInv
      <4>2. c.lines[e].useTime < c.lines[f].useTime
        BY <1>11, <3>2, <4>1
      <4> QED
        BY <2>5, <4>1, <4>2
    <3> QED
      BY <2>3, <3>2, <3>3
  <2> QED
    BY <2>2, <2>4, <2>5
<1> QED
  BY <1>1, <1>2, <1>3, <1>14, <1>15, <1>16 DEF SetInv

-----------------------------------------------------------------------------
(* The next access hits, or evicts, exactly if it does in the lines.       *)

\* A line of set c has the tag.
Has(c, tag) == \E e \in Filled(c) : c.lines[e].tag = tag

\* The blocks in the lines of set x.
InLines(p, x, c) == {Held(p, x, c, e) : e \in Filled(c)}

LEMMA LinesCounted ==
  ASSUME NEW p, Geometry(p), NEW x \in 0..(Pow2[p.s] - 1), NEW c \in SetType(p.E),
         NEW t, OrderInv(p, t, x, c)
  PROVE  /\ IsFiniteSet(InLines(p, x, c)) /\ Cardinality(InLines(p, x, c)) \in Nat
         /\ Cardinality(InLines(p, x, c)) <= p.E
         /\ Cardinality(InLines(p, x, c)) = p.E <=> Filled(c) = DOMAIN c.lines
<1>1. PICK F : F = Filled(c)
  OBVIOUS
<1>2. PICK n \in Nat : n = p.E
  BY DEF Geometry
<1>3. DOMAIN c.lines = 0..(n - 1) /\ F \subseteq 0..(n - 1)
  BY <1>1, <1>2 DEF SetType, Filled
<1>4. IsFiniteSet(0..(n - 1)) /\ Cardinality(0..(n - 1)) = n
  <2>1. 0 \in Int /\ n - 1 \in Int /\ (0 > n - 1 => n = 0) /\ (n - 1) - 0 + 1 = n
    OBVIOUS
  <2> QED
    BY <2>1, FS_Interval
<1>5. /\ IsFiniteSet(F) /\ Cardinality(F) <= n /\ Cardinality(F) \in Nat
      /\ Cardinality(F) = n <=> F = 0..(n - 1)
  BY <1>3, <1>4, FS_Subset, FS_CardinalityType
<1>6. PICK h : h = [e \in F |-> Held(p, x, c, e)]
  OBVIOUS
<1>7. \A e, f \in F : h[e] = h[f] => e = f
  <2> SUFFICES ASSUME NEW e \in F, NEW f \in F, h[e] = h[f], e # f PROVE FALSE
    OBVIOUS
  <2>1. c.lines[e].tag # c.lines[f].tag
    BY <1>1 DEF OrderInv
  <2>2. e \in DOMAIN c.lines /\ f \in DOMAIN c.lines
    BY <1>3
  <2>3. c.lines[e].tag = c.lines[f].tag
    BY <1>6, <2>2, HeldBlock
  <2> QED
    BY <2>1, <2>3
<1>8. h \in [F -> InLines(p, x, c)] /\ \A y \in InLines(p, x, c) : \E e \in F : h[e] = y
  BY <1>1, <1>6 DEF InLines
<1>9. ExistsBijection(F, InLines(p, x, c))
  <2>1. h \in Injection(F, InLines(p, x, c))
    BY <1>7, <1>8 DEF Injection, IsInjective
  <2>2. h \in Surjection(F, InLines(p, x, c))
    BY <1>8, Zenon DEF Surjection
  <2> QED
    BY <2>1, <2>2, Zenon DEF ExistsBijection, Bijection
<1>10. IsFiniteSet(InLines(p, x, c)) /\ Cardinality(InLines(p, x, c)) = Cardinality(F)
  BY <1>5, <1>9, FS_Bijection
<1> QED
  BY <1>1, <1>2, <1>3, <1>5, <1>10

LEMMA RivalsFinite ==
  ASSUME NEW p, NEW t, NEW i \in Nat, NEW j \in 1..i
  PROVE  IsFiniteSet(Rivals(p, t, j, i)) /\ Cardinality(Rivals(p, t, j, i)) \in Nat
<1>1. PICK K : K = {k \in j..(i - 1) : SetIndex(p, t[k]) = SetIndex(p, t[i])}
  OBVIOUS
<1>2. IsFiniteSet(K)
  <2>1. IsFiniteSet(j..(i - 1)) /\ K \subseteq j..(i - 1)
    BY <1>1, FS_Interval
  <2> QED
    BY <2>1, FS_Subset
<1>3. PICK f : f = [k \in K |-> Block(p, t[k])]
  OBVIOUS
<1>4. f \in Surjection(K, Rivals(p, t, j, i))
  <2>1. PICK R : R = Rivals(p, t, j, i)
    OBVIOUS
  <2>2. R = {Block(p, t[k]) : k \in K}
    BY <1>1, <2>1, Zenon DEF Rivals
  <2>3. f \in [K -> R] /\ \A y \in R : \E k \in K : f[k] = y
    BY <1>3, <2>2
  <2> QED
    BY <2>1, <2>3 DEF Surjection
<1> QED
  BY <1>2, <1>4, FS_Surjection, FS_CardinalityType

LEMMA SetOfType ==
  ASSUME NEW p, Geometry(p), NEW a \in Addrs
  PROVE  SetOf(p, a) \in 0..(Pow2[p.s] - 1)
<1>1. PICK q \in Nat : q = Pow2[p.s] /\ q > 0
  <2>1. p.s \in Nat /\ p.s <= Width
    BY SimulatorAssumption DEF Geometry
  <2> QED
    BY <2>1, PowerType
<1> QED
  BY <1>1, AddressFields, Division

\* The rivals of the next access are the blocks of its set used from j on.
LEMMA RivalsOfNext ==
  ASSUME NEW p, Geometry(p), NEW t \in Seq(Addrs), NEW a \in Addrs, NEW j \in 1..(Len(t) + 1), NEW y
  PROVE  y \in Rivals(p, Append(t, a), j, Len(t) + 1) <=>
           /\ \E m \in j..Len(t) : Block(p, t[m]) = y
           /\ y % Pow2[p.s] = SetOf(p, a)
<1>1. PICK u : u = Append(t, a)
  OBVIOUS
<1>2. PICK i \in Nat : i = Len(t) + 1 /\ i - 1 = Len(t)
  OBVIOUS
<1>3. u[i] = a /\ \A m \in j..(i - 1) : u[m] = t[m]
  BY <1>1, <1>2, Appended
<1>4. SetIndex(p, u[i]) = SetOf(p, a)
  BY <1>3, AddressFields DEF SetIndex
<1>5. y \in Rivals(p, u, j, i) <=>
        \E m \in j..(i - 1) : SetIndex(p, u[m]) = SetIndex(p, u[i]) /\ Block(p, u[m]) = y
  BY DEF Rivals
<1>6. y \in Rivals(p, u, j, i) <=>
        \E m \in j..(i - 1) : Block(p, t[m]) % Pow2[p.s] = SetOf(p, a) /\ Block(p, t[m]) = y
  BY <1>3, <1>4, <1>5 DEF SetIndex
<1> QED
  BY <1>1, <1>2, <1>6

\* What is true of the next access, an access to block k of set x.
NextAccess(p, t, u, i, k, x) ==
    /\ Len(t) \in Nat /\ i = Len(t) + 1 /\ k \in Nat
    /\ x \in 0..(Pow2[p.s] - 1) /\ k % Pow2[p.s] = x
    /\ \A m \in 1..Len(t) : Block(p, u[m]) = Block(p, t[m])
    /\ Block(p, u[i]) = k
    /\ \A j \in 1..i, y \in Nat :
          y \in Rivals(p, u, j, i) <=> (\E m \in j..Len(t) : Block(p, t[m]) = y) /\ y % Pow2[p.s] = x
    /\ \A j \in 1..i : /\ IsFiniteSet(Rivals(p, u, j, i)) /\ Rivals(p, u, j, i) \subseteq Nat
                       /\ Cardinality(Rivals(p, u, j, i)) \in Nat

LEMMA NextAccessIs ==
  ASSUME NEW p, Geometry(p), NEW t \in Seq(Addrs), NEW a \in Addrs
  PROVE  NextAccess(p, t, Append(t, a), Len(t) + 1, Block(p, a), SetOf(p, a))
<1>1. PICK u : u = Append(t, a)
  OBVIOUS
<1>2. PICK i \in Nat : i = Len(t) + 1
  OBVIOUS
<1>3. Len(t) \in Nat /\ u[i] = a /\ \A m \in 1..Len(t) : u[m] = t[m] /\ t[m] \in Addrs
  BY <1>1, <1>2, Appended
<1>4. Block(p, a) \in Nat /\ Block(p, a) % Pow2[p.s] = SetOf(p, a)
  BY AddressFields
<1>5. SetOf(p, a) \in 0..(Pow2[p.s] - 1)
  BY SetOfType
<1>6. \A j \in 1..i : IsFiniteSet(Rivals(p, u, j, i)) /\ Cardinality(Rivals(p, u, j, i)) \in Nat
  BY RivalsFinite
<1>7. \A j \in 1..i : \A y : y \in Rivals(p, u, j, i) <=>
        (\E m \in j..Len(t) : Block(p, t[m]) = y) /\ y % Pow2[p.s] = SetOf(p, a)
  <2> TAKE j \in 1..i
  <2> TAKE y
  <2>1. j \in 1..(Len(t) + 1)
    BY <1>2
  <2> QED
    BY <1>1, <1>2, <2>1, RivalsOfNext, Zenon
<1>8. \A j \in 1..i : Rivals(p, u, j, i) \subseteq Nat
  <2> SUFFICES ASSUME NEW j \in 1..i, NEW y \in Rivals(p, u, j, i) PROVE y \in Nat
    OBVIOUS
  <2>1. PICK m \in j..Len(t) : Block(p, t[m]) = y
    BY <1>7
  <2>2. t[m] \in Addrs
    BY <1>3, <2>1
  <2> QED
    BY <2>1, <2>2, AddressFields
<1> QED
  BY <1>1, <1>2, <1>3, <1>4, <1>5, <1>6, <1>7, <1>8, Zenon DEF NextAccess

\* A block used before was used last at some access.
LEMMA LastUse ==
  ASSUME NEW p, NEW t \in Seq(Addrs), NEW y, Used(p, t, y)
  PROVE  \E j \in 1..Len(t) : Block(p, t[j]) = y /\ \A m \in 1..Len(t) : Block(p, t[m]) = y => m <= j
<1>1. PICK n \in Nat : n = Len(t)
  OBVIOUS
<1> DEFINE K == {m \in 1..n : Block(p, t[m]) = y}
<1>2. K \in SUBSET (0..n) /\ K # {}
  BY <1>1 DEF Used
<1>3. Max(K) \in K /\ \A m \in K : m <= Max(K)
  BY <1>2, MaxOfNat
<1> QED
  BY <1>1, <1>3

LEMMA HitIsInLines ==
  ASSUME NEW p, Geometry(p), NEW t \in Seq(Addrs), NEW a \in Addrs,
         NEW c \in SetType(p.E), SetInv(p, t, SetOf(p, a), c)
  PROVE  Hits(p, Append(t, a), Len(t) + 1) <=> Has(c, TagOf(p, a))
<1>1. PICK u, i, k, x : u = Append(t, a) /\ i = Len(t) + 1 /\ k = Block(p, a) /\ x = SetOf(p, a)
  OBVIOUS
<1>2. NextAccess(p, t, u, i, k, x)
  BY <1>1, NextAccessIs, Zenon
<1>3. x \in 0..(Pow2[p.s] - 1) /\ Len(t) \in Nat /\ i = Len(t) + 1 /\ k \in Nat
  BY <1>2 DEF NextAccess
<1>4. OrderInv(p, t, x, c) /\ ReplacedInv(p, t, x, c)
  BY <1>1 DEF SetInv
<1>5. PICK L : L = InLines(p, x, c)
  OBVIOUS
<1>6. /\ IsFiniteSet(L) /\ Cardinality(L) \in Nat /\ Cardinality(L) <= p.E
      /\ Cardinality(L) = p.E <=> Filled(c) = DOMAIN c.lines
  BY <1>3, <1>4, <1>5, LinesCounted
<1>7. Has(c, TagOf(p, a)) <=> k \in L
  <2>1. \A e \in Filled(c) : Held(p, x, c, e) = k <=> c.lines[e].tag = TagOf(p, a)
    BY <1>1, HeldIsBlock DEF Filled
  <2> QED
    BY <1>5, <2>1 DEF Has, InLines
<1>8. DOMAIN t = 1..Len(t)
  OBVIOUS
<1>9. p.E \in Nat
  BY DEF Geometry
<1>10. ASSUME k \in L PROVE Hits(p, u, i)
  <2>1. PICK e \in Filled(c) : k = Held(p, x, c, e)
    BY <1>5, <1>10 DEF InLines
  <2>2. Used(p, t, k)
    BY <1>4, <2>1 DEF OrderInv
  <2>3. PICK j \in 1..Len(t) : /\ Block(p, t[j]) = k
                              /\ \A m \in 1..Len(t) : Block(p, t[m]) = k => m <= j
    BY <2>2, LastUse
  <2>4. j \in 1..i /\ j \in 1..(i - 1) /\ Block(p, u[j]) = Block(p, u[i])
    BY <1>2, <1>3, <2>3 DEF NextAccess
  <2>5. PICK R : R = Rivals(p, u, j, i)
    OBVIOUS
  <2>6. /\ IsFiniteSet(R) /\ R \subseteq Nat /\ Cardinality(R) \in Nat
        /\ \A y \in Nat : y \in R => (\E m \in j..Len(t) : Block(p, t[m]) = y) /\ y % Pow2[p.s] = x
    BY <1>2, <2>4, <2>5 DEF NextAccess
  <2>7. ASSUME NEW y \in R, y \notin L PROVE FALSE
    <3>1. PICK m \in j..Len(t) : Block(p, t[m]) = y
      BY <2>6
    <3>2. m \in 1..Len(t) /\ j <= m
      BY <1>3, <2>3, <3>1
    <3>3. Used(p, t, y)
      BY <1>8, <3>1, <3>2 DEF Used
    <3>4. \A f \in Filled(c) : Held(p, x, c, f) # y
      BY <1>5, <2>7 DEF InLines
    <3>5. y \in Nat /\ y % Pow2[p.s] = x
      BY <2>6
    <3>6. Newer(p, t, y, k)
      BY <1>4, <2>1, <3>3, <3>4, <3>5 DEF ReplacedInv, Filled
    <3>7. PICK n \in 1..Len(t) : Block(p, t[n]) = k /\ \A l \in n..Len(t) : Block(p, t[l]) # y
      BY <1>8, <3>6 DEF Newer
    <3>8. n <= j /\ m \in n..Len(t)
      BY <1>3, <2>3, <3>2, <3>7
    <3> QED
      BY <3>1, <3>7, <3>8
  <2>8. R \subseteq L
    BY <2>7
  <2>9. Cardinality(R) <= p.E
    <3>1. Cardinality(R) <= Cardinality(L)
      BY <1>6, <2>8, FS_Subset
    <3> QED
      BY <1>6, <1>9, <2>6, <3>1
  <2> QED
    BY <2>4, <2>5, <2>9 DEF Hits
<1>11. ASSUME Hits(p, u, i), k \notin L PROVE FALSE
  <2>1. PICK j \in 1..(i - 1) : Block(p, u[j]) = Block(p, u[i]) /\ Cardinality(Rivals(p, u, j, i)) <= p.E
    BY <1>11 DEF Hits
  <2>2. j \in 1..i /\ j \in 1..Len(t)
    BY <1>3
  <2>3. Block(p, t[j]) = k /\ k % Pow2[p.s] = x
    BY <1>2, <2>1, <2>2 DEF NextAccess
  <2>4. PICK R : R = Rivals(p, u, j, i)
    OBVIOUS
  <2>5. /\ IsFiniteSet(R) /\ R \subseteq Nat /\ Cardinality(R) \in Nat
        /\ \A y \in Nat : (\E m \in j..Len(t) : Block(p, t[m]) = y) /\ y % Pow2[p.s] = x => y \in R
    BY <1>2, <2>2, <2>4 DEF NextAccess
  <2>6. k \in R
    <3>1. j \in j..Len(t)
      BY <2>2
    <3> QED
      BY <1>3, <2>3, <2>5, <3>1
  <2>7. Used(p, t, k) /\ \A f \in Filled(c) : Held(p, x, c, f) # k
    BY <1>5, <1>8, <1>11, <2>2, <2>3 DEF Used, InLines
  <2>8. \A e \in DOMAIN c.lines : e \in Filled(c) /\ Newer(p, t, k, Held(p, x, c, e))
    BY <1>3, <1>4, <2>3, <2>7 DEF ReplacedInv
  <2>9. ASSUME NEW y \in L PROVE y \in R
    <3>1. PICK e \in Filled(c) : y = Held(p, x, c, e)
      BY <1>5 DEF InLines
    <3>2. e \in DOMAIN c.lines
      BY <3>1 DEF Filled
    <3>3. y \in Nat /\ y % Pow2[p.s] = x
      BY <1>3, <3>1, <3>2, HeldBlock
    <3>4. PICK m \in 1..Len(t) : Block(p, t[m]) = y /\ \A l \in m..Len(t) : Block(p, t[l]) # k
      BY <1>8, <2>8, <3>1, <3>2 DEF Newer
    <3>5. m \in j..Len(t)
      BY <1>3, <2>2, <2>3, <3>4
    <3> QED
      BY <2>5, <3>3, <3>4, <3>5
  <2>10. Filled(c) = DOMAIN c.lines
    BY <2>8 DEF Filled
  <2>11. IsFiniteSet(L \cup {k}) /\ Cardinality(L \cup {k}) = p.E + 1
    BY <1>6, <1>11, <2>10, FS_AddElement
  <2>12. L \cup {k} \subseteq R
    BY <2>6, <2>9
  <2>13. Cardinality(L \cup {k}) <= Cardinality(R)
    BY <2>5, <2>12, FS_Subset
  <2> QED
    BY <1>9, <2>1, <2>4, <2>5, <2>11, <2>13
<1> QED
  BY <1>1, <1>7, <1>10, <1>11

LEMMA EvictIsFull ==
  ASSUME NEW p, Geometry(p), NEW t \in Seq(Addrs), NEW a \in Addrs,
         NEW c \in SetType(p.E), SetInv(p, t, SetOf(p, a), c)
  PROVE  Evicts(p, Append(t, a), Len(t) + 1) <=>
           ~Has(c, TagOf(p, a)) /\ Filled(c) = DOMAIN c.lines
<1>1. PICK u, i, k, x : u = Append(t, a) /\ i = Len(t) + 1 /\ k = Block(p, a) /\ x = SetOf(p, a)
  OBVIOUS
<1>2. NextAccess(p, t, u, i, k, x)
  BY <1>1, NextAccessIs, Zenon
<1>3. x \in 0..(Pow2[p.s] - 1) /\ Len(t) \in Nat /\ i = Len(t) + 1 /\ 1 \in 1..i
  BY <1>2 DEF NextAccess
<1>4. OrderInv(p, t, x, c) /\ ReplacedInv(p, t, x, c)
  BY <1>1 DEF SetInv
<1>5. PICK L : L = InLines(p, x, c)
  OBVIOUS
<1>6. /\ IsFiniteSet(L) /\ Cardinality(L) \in Nat /\ Cardinality(L) <= p.E
      /\ Cardinality(L) = p.E <=> Filled(c) = DOMAIN c.lines
  BY <1>3, <1>4, <1>5, LinesCounted
<1>7. PICK R : R = Rivals(p, u, 1, i)
  OBVIOUS
<1>8. /\ IsFiniteSet(R) /\ R \subseteq Nat /\ Cardinality(R) \in Nat
      /\ \A y \in Nat : y \in R <=> (\E m \in 1..Len(t) : Block(p, t[m]) = y) /\ y % Pow2[p.s] = x
  BY <1>2, <1>3, <1>7 DEF NextAccess
<1>9. DOMAIN t = 1..Len(t) /\ p.E \in Nat
  BY DEF Geometry
<1>10. \A y \in Nat : y \in R <=> Used(p, t, y) /\ y % Pow2[p.s] = x
  BY <1>8, <1>9 DEF Used
<1>11. ASSUME Filled(c) = DOMAIN c.lines PROVE Cardinality(R) >= p.E
  <2>1. ASSUME NEW y \in L PROVE y \in R
    <3>1. PICK e \in Filled(c) : y = Held(p, x, c, e)
      BY <1>5 DEF InLines
    <3>2. e \in DOMAIN c.lines
      BY <3>1 DEF Filled
    <3>3. y \in Nat /\ y % Pow2[p.s] = x
      BY <1>3, <3>1, <3>2, HeldBlock
    <3>4. Used(p, t, y)
      BY <1>4, <3>1 DEF OrderInv
    <3> QED
      BY <1>10, <3>3, <3>4
  <2>2. L \subseteq R
    BY <2>1
  <2>3. Cardinality(L) <= Cardinality(R)
    BY <1>8, <2>2, FS_Subset
  <2> QED
    BY <1>6, <1>8, <1>9, <1>11, <2>3
<1>12. ASSUME Filled(c) # DOMAIN c.lines PROVE ~(Cardinality(R) >= p.E)
  <2>1. PICK e \in DOMAIN c.lines : e \notin Filled(c)
    BY <1>12 DEF Filled
  <2>2. ASSUME NEW y \in R, y \notin L PROVE FALSE
    <3>1. y \in Nat /\ Used(p, t, y) /\ y % Pow2[p.s] = x
      BY <1>8, <1>10
    <3>2. \A f \in Filled(c) : Held(p, x, c, f) # y
      BY <1>5, <2>2 DEF InLines
    <3> QED
      BY <1>4, <2>1, <3>1, <3>2 DEF ReplacedInv
  <2>3. R \subseteq L
    BY <2>2
  <2>4. Cardinality(R) <= Cardinality(L)
    BY <1>6, <2>3, FS_Subset
  <2> QED
    BY <1>6, <1>8, <1>9, <1>12, <2>4
<1>13. Hits(p, u, i) <=> Has(c, TagOf(p, a))
  BY <1>1, HitIsInLines
<1>14. Evicts(p, u, i) <=> ~Has(c, TagOf(p, a)) /\ Cardinality(R) >= p.E
  BY <1>7, <1>13 DEF Evicts
<1> QED
  BY <1>1, <1>11, <1>12, <1>14

\* The accesses before it are as they were.
LEMMA EarlierAccesses ==
  ASSUME NEW p, NEW t \in Seq(Addrs), NEW a \in Addrs, NEW i \in 1..Len(t)
  PROVE  /\ Hits(p, Append(t, a), i) <=> Hits(p, t, i)
         /\ Evicts(p, Append(t, a), i) <=> Evicts(p, t, i)
<1>1. PICK u : u = Append(t, a)
  OBVIOUS
<1>2. \A m \in 1..Len(t) : u[m] = t[m]
  BY <1>1, Appended
<1>3. ASSUME NEW j \in 1..i PROVE Rivals(p, u, j, i) = Rivals(p, t, j, i)
  <2>1. \A m \in j..(i - 1) : m \in 1..Len(t) /\ u[m] = t[m]
    BY <1>2
  <2>2. u[i] = t[i]
    BY <1>2
  <2>3. \A y : y \in Rivals(p, u, j, i) <=>
          \E m \in j..(i - 1) : SetIndex(p, u[m]) = SetIndex(p, u[i]) /\ Block(p, u[m]) = y
    BY DEF Rivals
  <2>4. \A y : y \in Rivals(p, t, j, i) <=>
          \E m \in j..(i - 1) : SetIndex(p, t[m]) = SetIndex(p, t[i]) /\ Block(p, t[m]) = y
    BY DEF Rivals
  <2>5. \A y : y \in Rivals(p, u, j, i) <=> y \in Rivals(p, t, j, i)
    BY <2>1, <2>2, <2>3, <2>4
  <2> QED
    BY <2>5
<1>4. \A j \in 1..(i - 1) : j \in 1..i /\ u[j] = t[j] /\ u[i] = t[i]
  BY <1>2
<1>5. Hits(p, u, i) <=> Hits(p, t, i)
  BY <1>3, <1>4 DEF Hits
<1>6. 1 \in 1..i
  OBVIOUS
<1>7. Evicts(p, u, i) <=> Evicts(p, t, i)
  BY <1>3, <1>5, <1>6 DEF Evicts
<1> QED
  BY <1>1, <1>5, <1>7

One(v) == IF v THEN 1 ELSE 0

LEMMA CountsGrow ==
  ASSUME NEW p, NEW t \in Seq(Addrs), NEW a \in Addrs
  PROVE  LET u == Append(t, a)
             i == Len(t) + 1
         IN  /\ Cardinality(HitsIn(p, u)) = Cardinality(HitsIn(p, t)) + One(Hits(p, u, i))
             /\ Cardinality(DOMAIN u \ HitsIn(p, u)) =
                   Cardinality(DOMAIN t \ HitsIn(p, t)) + One(~Hits(p, u, i))
             /\ Cardinality(EvictsIn(p, u)) = Cardinality(EvictsIn(p, t)) + One(Evicts(p, u, i))
<1>1. PICK u, i : u = Append(t, a) /\ i = Len(t) + 1
  OBVIOUS
<1>2. PICK D : D = 1..Len(t)
  OBVIOUS
<1>3. DOMAIN t = D /\ DOMAIN u = D \cup {i} /\ i \notin D /\ IsFiniteSet(D)
  <2>1. DOMAIN t = 1..Len(t) /\ DOMAIN u = 1..(Len(t) + 1) /\ Len(t) \in Nat
    BY <1>1, Appended
  <2>2. IsFiniteSet(1..Len(t))
    BY <2>1, FS_Interval
  <2> QED
    BY <1>1, <1>2, <2>1, <2>2
<1>4. \A m \in D : (Hits(p, u, m) <=> Hits(p, t, m)) /\ (Evicts(p, u, m) <=> Evicts(p, t, m))
  BY <1>1, <1>2, EarlierAccesses
<1>5. ASSUME NEW S, IsFiniteSet(S), S \subseteq D
      PROVE  /\ Cardinality(S \cup {i}) = Cardinality(S) + 1 /\ Cardinality(S) + 0 = Cardinality(S)
  <2>1. i \notin S
    BY <1>3, <1>5
  <2> QED
    BY <1>5, <2>1, FS_AddElement, FS_CardinalityType
<1>6. PICK H, E : H = HitsIn(p, t) /\ E = EvictsIn(p, t)
  OBVIOUS
<1>7. H \subseteq D /\ E \subseteq D /\ D \ H \subseteq D
  BY <1>3, <1>6 DEF HitsIn, EvictsIn
<1>8. IsFiniteSet(H) /\ IsFiniteSet(E) /\ IsFiniteSet(D \ H)
  BY <1>3, <1>7, FS_Subset
<1>9. /\ HitsIn(p, u) = IF Hits(p, u, i) THEN H \cup {i} ELSE H
      /\ DOMAIN u \ HitsIn(p, u) = IF Hits(p, u, i) THEN D \ H ELSE (D \ H) \cup {i}
  BY <1>3, <1>4, <1>6 DEF HitsIn
<1>10. EvictsIn(p, u) = IF Evicts(p, u, i) THEN E \cup {i} ELSE E
  BY <1>3, <1>4, <1>6 DEF EvictsIn
<1>11. Cardinality(HitsIn(p, u)) = Cardinality(H) + One(Hits(p, u, i))
  BY <1>5, <1>7, <1>8, <1>9 DEF One
<1>12. Cardinality(DOMAIN u \ HitsIn(p, u)) = Cardinality(D \ H) + One(~Hits(p, u, i))
  BY <1>5, <1>7, <1>8, <1>9 DEF One
<1>13. Cardinality(EvictsIn(p, u)) = Cardinality(E) + One(Evicts(p, u, i))
  BY <1>5, <1>7, <1>8, <1>10 DEF One
<1> QED
  BY <1>1, <1>3, <1>6, <1>11, <1>12, <1>13, Zenon

-----------------------------------------------------------------------------
(* accessCache.                                                            *)

\* The counts in the parameters do not matter to the lines.
SameGeometry(p, q) == p.s = q.s /\ p.E = q.E /\ p.b = q.b

LEMMA CountsDoNotMatter ==
  ASSUME NEW p, NEW q, SameGeometry(p, q), NEW u
  PROVE  /\ Geometry(p) => Geometry(q)
         /\ HitsIn(q, u) = HitsIn(p, u) /\ EvictsIn(q, u) = EvictsIn(p, u)
         /\ \A x, c : SetInv(p, u, x, c) => SetInv(q, u, x, c)
<1>1. p.s = q.s /\ p.E = q.E /\ p.b = q.b
  BY DEF SameGeometry
<1>2. Geometry(p) => Geometry(q)
  BY <1>1 DEF Geometry
<1>3. \A a : Block(p, a) = Block(q, a) /\ SetIndex(p, a) = SetIndex(q, a)
  BY <1>1 DEF Block, SetIndex
<1>4. \A j, i : Rivals(p, u, j, i) = Rivals(q, u, j, i)
  <2> TAKE j, i
  <2>1. \A y : y \in Rivals(p, u, j, i) <=>
          \E m \in j..(i - 1) : SetIndex(p, u[m]) = SetIndex(p, u[i]) /\ Block(p, u[m]) = y
    BY DEF Rivals
  <2>2. \A y : y \in Rivals(q, u, j, i) <=>
          \E m \in j..(i - 1) : SetIndex(q, u[m]) = SetIndex(q, u[i]) /\ Block(q, u[m]) = y
    BY DEF Rivals
  <2>3. \A y : y \in Rivals(p, u, j, i) <=> y \in Rivals(q, u, j, i)
    BY <1>3, <2>1, <2>2
  <2> QED
    BY <2>3
<1>5. \A i : Hits(p, u, i) <=> Hits(q, u, i)
  BY <1>1, <1>3, <1>4 DEF Hits
<1>6. \A i : Evicts(p, u, i) <=> Evicts(q, u, i)
  BY <1>1, <1>4, <1>5 DEF Evicts
<1>7. HitsIn(q, u) = HitsIn(p, u) /\ EvictsIn(q, u) = EvictsIn(p, u)
  BY <1>5, <1>6 DEF HitsIn, EvictsIn
<1>8. \A y : Used(p, u, y) <=> Used(q, u, y)
  BY <1>3 DEF Used
<1>9. \A y, z : Newer(p, u, y, z) <=> Newer(q, u, y, z)
  BY <1>3 DEF Newer
<1>10. \A x, c, e : Held(p, x, c, e) = Held(q, x, c, e)
  BY <1>1 DEF Held
<1>11. ASSUME NEW x, NEW c, SetInv(p, u, x, c) PROVE SetInv(q, u, x, c)
  <2>1. OrderInv(q, u, x, c)
    BY <1>8, <1>9, <1>10, <1>11 DEF SetInv, OrderInv
  <2>2. ReplacedInv(q, u, x, c)
    BY <1>1, <1>8, <1>9, <1>10, <1>11 DEF SetInv, ReplacedInv
  <2> QED
    BY <1>11, <2>1, <2>2 DEF SetInv
<1> QED
  BY <1>2, <1>7, <1>11

\* The simulator r has made an access to set x that hit or evicted, and used
\* line e of the set for it.
Accessed(p, c, r, x, e, tag, hit, evict) ==
    /\ r.cache = [c EXCEPT ![x] = UsedSet(c[x], e, tag)]
    /\ r.param \in Counters /\ SameGeometry(p, r.param)
    /\ r.param.nHit = p.nHit + One(hit)
    /\ r.param.nMiss = p.nMiss + One(~hit)
    /\ r.param.nEvict = p.nEvict + One(evict)

LEMMA VictimIsOldest ==
  ASSUME NEW n \in Nat, NEW f \in [0..n -> Line]
  PROVE  Victim(f) \in 0..n /\ \A e \in 0..n : f[Victim(f)].useTime <= f[e].useTime
<1>1. \A e \in 0..n : f[e].useTime \in Nat
  BY DEF Line
<1>2. PICK times : times = {f[e].useTime : e \in DOMAIN f}
  OBVIOUS
<1>3. times \in SUBSET Nat /\ times # {} /\ \A e \in 0..n : f[e].useTime \in times
  BY <1>1, <1>2
<1>4. Min(times) \in times /\ \A y \in times : Min(times) <= y
  BY <1>3, MinOfNat
<1>5. PICK V : V = {e \in DOMAIN f : f[e].useTime = Min(times)}
  OBVIOUS
<1>6. V \in SUBSET Nat /\ V # {}
  <2>1. \E e \in DOMAIN f : f[e].useTime = Min(times)
    BY <1>2, <1>4
  <2>2. DOMAIN f = 0..n
    OBVIOUS
  <2> QED
    BY <1>5, <2>1, <2>2
<1>7. Min(V) \in V
  BY <1>6, MinOfNat
<1>8. Victim(f) = Min(V)
  BY <1>2, <1>5 DEF Victim
<1> QED
  BY <1>3, <1>4, <1>5, <1>7, <1>8

\* accessCache, with what it looks up as parameters.
Access(p, c, set, tag, ls, cnt, found, empty) ==
    LET Use(e, v) == [c EXCEPT
            ![set] = [lines |-> [ls EXCEPT
                                    ![e] = [tag |-> tag, valid |-> v, useTime |-> cnt]],
                      useCnt |-> cnt]]
    IN  IF found # {}
        THEN [param |-> [p EXCEPT !.nHit = @ + 1],
              cache |-> Use(Min(found), ls[Min(found)].valid)]
        ELSE IF empty = {}
        THEN [param |-> [p EXCEPT !.nMiss = @ + 1, !.nEvict = @ + 1],
              cache |-> Use(Victim(ls), ls[Victim(ls)].valid)]
        ELSE [param |-> [p EXCEPT !.nMiss = @ + 1],
              cache |-> Use(Min(empty), 1)]

LEMMA AccessIs ==
  ASSUME NEW p, NEW c, SimType(p, c), NEW a \in Addrs,
         c[SetOf(p, a)].useCnt + 1 < Pow2[CountWidth]
  PROVE  \E e \in DOMAIN c[SetOf(p, a)].lines :
           /\ Chosen(c[SetOf(p, a)], e, TagOf(p, a))
           /\ Accessed(p, c, accessCache([param |-> p, cache |-> c], a), SetOf(p, a), e, TagOf(p, a),
                       Has(c[SetOf(p, a)], TagOf(p, a)),
                       ~Has(c[SetOf(p, a)], TagOf(p, a))
                       /\ Filled(c[SetOf(p, a)]) = DOMAIN c[SetOf(p, a)].lines)
<1>1. PICK r, x, g : /\ r = accessCache([param |-> p, cache |-> c], a)
                     /\ x = SetOf(p, a) /\ g = TagOf(p, a)
  OBVIOUS
<1>2. PICK d : d = c[x]
  OBVIOUS
<1>3. PICK n \in Nat : n = p.E - 1
  BY DEF SimType, Geometry
<1>4. Geometry(p) /\ p \in Counters /\ d \in SetType(p.E)
  <2>1. Geometry(p) /\ p \in Counters /\ c \in [0..(Pow2[p.s] - 1) -> SetType(p.E)]
    BY DEF SimType
  <2>2. x \in 0..(Pow2[p.s] - 1)
    BY <1>1, <2>1, SetOfType
  <2> QED
    BY <1>2, <2>1, <2>2
<1>5. d.lines \in [0..n -> Line] /\ DOMAIN d.lines = 0..n /\ d.useCnt \in Nat
  BY <1>3, <1>4 DEF SetType
<1>6. (d.useCnt + 1) % Pow2[CountWidth] = d.useCnt + 1
  <2>1. d.useCnt + 1 \in Nat /\ d.useCnt + 1 < Pow2[CountWidth] /\ Pow2[CountWidth] \in Nat
    BY <1>1, <1>2, <1>5, CountLimit
  <2> QED
    BY <2>1, SmallRemainder
<1>7. PICK found : found = {e \in DOMAIN d.lines : d.lines[e].valid # 0 /\ d.lines[e].tag = g}
  OBVIOUS
<1>8. PICK empty : empty = {e \in DOMAIN d.lines : d.lines[e].valid = 0}
  OBVIOUS
<1>9. \A e \in 0..n : d.lines[e].valid \in {0, 1}
  BY <1>5 DEF Line
<1>10. /\ Filled(d) \subseteq 0..n /\ empty = (0..n) \ Filled(d)
       /\ found = {e \in Filled(d) : d.lines[e].tag = g}
  BY <1>5, <1>7, <1>8, <1>9 DEF Filled
<1>11. Has(d, g) <=> found # {}
  BY <1>10 DEF Has
<1>12. empty = {} <=> Filled(d) = DOMAIN d.lines
  BY <1>5, <1>10
<1> DEFINE Use(e, v) == [c EXCEPT ![x] =
              [lines |-> [d.lines EXCEPT ![e] = [tag |-> g, valid |-> v, useTime |-> d.useCnt + 1]],
               useCnt |-> d.useCnt + 1]]
<1>13. r = IF found # {}
           THEN [param |-> [p EXCEPT !.nHit = @ + 1],
                 cache |-> Use(Min(found), d.lines[Min(found)].valid)]
           ELSE IF empty = {}
           THEN [param |-> [p EXCEPT !.nMiss = @ + 1, !.nEvict = @ + 1],
                 cache |-> Use(Victim(d.lines), d.lines[Victim(d.lines)].valid)]
           ELSE [param |-> [p EXCEPT !.nMiss = @ + 1],
                 cache |-> Use(Min(empty), 1)]
  <2>1. PICK sim : sim = [param |-> p, cache |-> c]
    OBVIOUS
  <2>2. sim.param = p /\ sim.cache = c
    BY <2>1
  <2>3. r = Access(sim.param, sim.cache, SetOf(sim.param, a), TagOf(sim.param, a),
                   sim.cache[SetOf(sim.param, a)].lines,
                   (sim.cache[SetOf(sim.param, a)].useCnt + 1) % Pow2[CountWidth],
                   {e \in DOMAIN sim.cache[SetOf(sim.param, a)].lines :
                      /\ sim.cache[SetOf(sim.param, a)].lines[e].valid # 0
                      /\ sim.cache[SetOf(sim.param, a)].lines[e].tag = TagOf(sim.param, a)},
                   {e \in DOMAIN sim.cache[SetOf(sim.param, a)].lines :
                      sim.cache[SetOf(sim.param, a)].lines[e].valid = 0})
    <3>1. r = accessCache(sim, a)
      BY <1>1, <2>1
    <3> QED
      BY <3>1 DEF accessCache, Access
  <2>4. r = Access(p, c, x, g, d.lines, d.useCnt + 1, found, empty)
    BY <1>1, <1>2, <1>6, <1>7, <1>8, <2>2, <2>3, Zenon
  <2> QED
    BY <2>4, Zenon DEF Access
<1>14. \A e : Use(e, 1) = [c EXCEPT ![x] = UsedSet(c[x], e, g)]
  BY <1>2 DEF UsedSet
<1> HIDE DEF Use
<1>15. ASSUME found # {}
       PROVE  \E e \in 0..n : /\ Chosen(d, e, g)
                               /\ Accessed(p, c, r, x, e, g, TRUE, FALSE)
  <2>1. Min(found) \in found
    <3>1. found \in SUBSET Nat
      BY <1>10
    <3> QED
      BY <1>15, <3>1, MinOfNat
  <2>2. PICK e : e = Min(found)
    OBVIOUS
  <2>3. e \in 0..n /\ e \in Filled(d) /\ d.lines[e].tag = g /\ d.lines[e].valid = 1
    BY <1>10, <2>1, <2>2 DEF Filled
  <2>4. r.cache = [c EXCEPT ![x] = UsedSet(c[x], e, g)] /\ r.param = [p EXCEPT !.nHit = @ + 1]
    BY <1>13, <1>14, <1>15, <2>2, <2>3
  <2>5. Accessed(p, c, r, x, e, g, TRUE, FALSE)
    BY <1>4, <2>4 DEF Accessed, Counters, SameGeometry, One
  <2> QED
    BY <2>3, <2>5 DEF Chosen
<1>16. ASSUME found = {}, empty = {}
       PROVE  \E e \in 0..n : /\ Chosen(d, e, g)
                               /\ Accessed(p, c, r, x, e, g, FALSE, TRUE)
  <2>1. PICK e : e = Victim(d.lines)
    OBVIOUS
  <2>2. e \in 0..n /\ \A f \in 0..n : d.lines[e].useTime <= d.lines[f].useTime
    BY <1>5, <2>1, VictimIsOldest
  <2>3. \A f \in 0..n : f \in Filled(d)
    BY <1>5, <1>12, <1>16
  <2>4. d.lines[e].valid = 1
    BY <2>2, <2>3 DEF Filled
  <2>5. Chosen(d, e, g)
    BY <1>5, <1>10, <1>16, <2>2, <2>3 DEF Chosen
  <2>6. r.cache = [c EXCEPT ![x] = UsedSet(c[x], e, g)]
        /\ r.param = [p EXCEPT !.nMiss = @ + 1, !.nEvict = @ + 1]
    BY <1>13, <1>14, <1>16, <2>1, <2>4
  <2>7. /\ r.param \in Counters /\ SameGeometry(p, r.param) /\ r.param.nHit = p.nHit
        /\ r.param.nMiss = p.nMiss + 1 /\ r.param.nEvict = p.nEvict + 1
    <3>1. PICK q : q = [p EXCEPT !.nMiss = @ + 1]
      OBVIOUS
    <3>2. /\ q \in Counters /\ SameGeometry(p, q) /\ q.nHit = p.nHit
          /\ q.nMiss = p.nMiss + 1 /\ q.nEvict = p.nEvict
      BY <1>4, <3>1 DEF Counters, SameGeometry
    <3>3. r.param = [q EXCEPT !.nEvict = @ + 1]
      BY <2>6, <3>1, <3>2, Zenon
    <3> QED
      BY <3>2, <3>3 DEF Counters, SameGeometry
  <2>8. Accessed(p, c, r, x, e, g, FALSE, TRUE)
    <3>1. p.nHit \in Nat /\ One(FALSE) = 0 /\ One(TRUE) = 1 /\ One(~FALSE) = 1 /\ p.nHit + 0 = p.nHit
      BY <1>4 DEF One, Counters
    <3> QED
      BY <2>6, <2>7, <3>1 DEF Accessed
  <2> QED
    BY <2>2, <2>5, <2>8
<1>17. ASSUME found = {}, empty # {}
       PROVE  \E e \in 0..n : /\ Chosen(d, e, g)
                               /\ Accessed(p, c, r, x, e, g, FALSE, FALSE)
  <2>1. Min(empty) \in empty
    <3>1. empty \in SUBSET Nat
      BY <1>10
    <3> QED
      BY <1>17, <3>1, MinOfNat
  <2>2. PICK e : e = Min(empty)
    OBVIOUS
  <2>3. e \in 0..n /\ e \notin Filled(d)
    BY <1>10, <2>1, <2>2
  <2>4. Chosen(d, e, g)
    BY <1>10, <1>17, <2>3 DEF Chosen
  <2>5. r.cache = [c EXCEPT ![x] = UsedSet(c[x], e, g)] /\ r.param = [p EXCEPT !.nMiss = @ + 1]
    BY <1>13, <1>14, <1>17, <2>2
  <2>6. Accessed(p, c, r, x, e, g, FALSE, FALSE)
    BY <1>4, <2>5 DEF Accessed, Counters, SameGeometry, One
  <2> QED
    BY <2>3, <2>4, <2>6
<1>18. \E e \in 0..n : /\ Chosen(d, e, g)
                       /\ Accessed(p, c, r, x, e, g, Has(d, g), ~Has(d, g) /\ Filled(d) = DOMAIN d.lines)
  <2>1. CASE found # {}
    <3>1. Has(d, g) = TRUE /\ (~Has(d, g) /\ Filled(d) = DOMAIN d.lines) = FALSE
      BY <1>11, <2>1 DEF Has
    <3> QED
      BY <1>15, <2>1, <3>1
  <2>2. CASE found = {} /\ empty = {}
    <3>1. Has(d, g) = FALSE /\ (~Has(d, g) /\ Filled(d) = DOMAIN d.lines) = TRUE
      BY <1>11, <1>12, <2>2 DEF Has
    <3> QED
      BY <1>16, <2>2, <3>1
  <2>3. CASE found = {} /\ empty # {}
    <3>1. Has(d, g) = FALSE /\ (~Has(d, g) /\ Filled(d) = DOMAIN d.lines) = FALSE
      BY <1>11, <1>12, <2>3 DEF Has
    <3> QED
      BY <1>17, <2>3, <3>1
  <2> QED
    BY <2>1, <2>2, <2>3
<1> QED
  BY <1>1, <1>2, <1>5, <1>18, Zenon

LEMMA AccessRecord ==
  ASSUME NEW sim, NEW a
  PROVE  accessCache(sim, a) =
           [param |-> accessCache(sim, a).param, cache |-> accessCache(sim, a).cache]
<1>1. \E q, d : accessCache(sim, a) = [param |-> q, cache |-> d]
  BY DEF accessCache
<1>2. PICK r : r = accessCache(sim, a)
  OBVIOUS
<1>3. PICK q, d : r = [param |-> q, cache |-> d]
  BY <1>1, <1>2
<1>4. r = [param |-> r.param, cache |-> r.cache]
  BY <1>3
<1> QED
  BY <1>2, <1>4

LEMMA AccessStep ==
  ASSUME NEW p, NEW c, NEW t, LruInv(p, c, t), NEW a \in Addrs, Len(t) + 1 <= MaxAccesses,
         MaxAccesses < Pow2[CountWidth]
  PROVE  LET r == accessCache([param |-> p, cache |-> c], a)
         IN  LruInv(r.param, r.cache, Append(t, a))
<1>1. PICK r, x, g, u : /\ r = accessCache([param |-> p, cache |-> c], a)
                        /\ x = SetOf(p, a) /\ g = TagOf(p, a) /\ u = Append(t, a)
  OBVIOUS
<1>2. /\ SimType(p, c) /\ t \in Seq(Addrs) /\ Len(t) <= MaxAccesses /\ CountInv(p, t)
      /\ \A z \in DOMAIN c : SetInv(p, t, z, c[z])
  BY Zenon DEF LruInv
<1>3. /\ p \in Counters /\ Geometry(p) /\ c \in [0..(Pow2[p.s] - 1) -> SetType(p.E)]
      /\ DOMAIN c = 0..(Pow2[p.s] - 1)
  BY <1>2 DEF SimType
<1>4. x \in DOMAIN c
  BY <1>1, <1>3, SetOfType
<1>5. PICK d : d = c[x]
  OBVIOUS
<1>6. d \in SetType(p.E) /\ SetInv(p, t, x, d)
  BY <1>2, <1>3, <1>4, <1>5
<1>7. d.useCnt \in Nat /\ d.useCnt <= Len(t)
  BY <1>6 DEF SetType, SetInv
<1>8. d.useCnt + 1 < Pow2[CountWidth]
  <2>1. Len(t) \in Nat /\ MaxAccesses \in Nat /\ Pow2[CountWidth] \in Nat
    BY <1>2, SimulatorAssumption, CountLimit
  <2> QED
    BY <1>7, <2>1
<1>9. PICK e \in DOMAIN d.lines :
          /\ Chosen(d, e, g)
          /\ Accessed(p, c, r, x, e, g, Has(d, g), ~Has(d, g) /\ Filled(d) = DOMAIN d.lines)
  <2>1. c[SetOf(p, a)].useCnt + 1 < Pow2[CountWidth]
    BY <1>1, <1>5, <1>8
  <2>2. \E e \in DOMAIN c[SetOf(p, a)].lines :
           /\ Chosen(c[SetOf(p, a)], e, TagOf(p, a))
           /\ Accessed(p, c, accessCache([param |-> p, cache |-> c], a), SetOf(p, a), e, TagOf(p, a),
                       Has(c[SetOf(p, a)], TagOf(p, a)),
                       ~Has(c[SetOf(p, a)], TagOf(p, a))
                       /\ Filled(c[SetOf(p, a)]) = DOMAIN c[SetOf(p, a)].lines)
    BY <1>2, <2>1, AccessIs, Zenon
  <2> QED
    BY <1>1, <1>5, <2>2, Zenon
<1>10. PICK n : n = UsedSet(d, e, g)
  OBVIOUS
<1>11. SetInv(p, u, x, n) /\ n \in SetType(p.E)
  <2>1. SetInv(p, u, x, n)
    BY <1>1, <1>2, <1>3, <1>6, <1>9, <1>10, ThisSet, Zenon
  <2>2. Replaces(p, x, d, n, e, g, Block(p, a))
    BY <1>1, <1>3, <1>6, <1>9, <1>10, UsedLines, Zenon
  <2> QED
    BY <2>1, <2>2 DEF Replaces
<1>12. r.cache = [c EXCEPT ![x] = n]
  BY <1>5, <1>9, <1>10 DEF Accessed
<1>13. /\ r.cache \in [0..(Pow2[p.s] - 1) -> SetType(p.E)] /\ DOMAIN r.cache = DOMAIN c
       /\ r.cache[x] = n /\ \A z \in DOMAIN c \ {x} : r.cache[z] = c[z]
  BY <1>3, <1>4, <1>11, <1>12
<1>14. ASSUME NEW z \in DOMAIN c PROVE SetInv(p, u, z, r.cache[z])
  <2>1. CASE z = x
    BY <1>11, <1>13, <2>1
  <2>2. CASE z # x
    <3>1. PICK k : k = c[z]
      OBVIOUS
    <3>2. k \in SetType(p.E) /\ SetInv(p, t, z, k) /\ z \in 0..(Pow2[p.s] - 1) /\ z # SetOf(p, a)
      BY <1>1, <1>2, <1>3, <2>2, <3>1
    <3>3. SetInv(p, u, z, k)
      BY <1>1, <1>2, <1>3, <3>2, OtherSet, Zenon
    <3> QED
      BY <1>13, <2>2, <3>1, <3>3
  <2> QED
    BY <2>1, <2>2
<1>15. PICK q : q = r.param
  OBVIOUS
<1>16. /\ q \in Counters /\ SameGeometry(p, q)
       /\ q.nHit = p.nHit + One(Has(d, g)) /\ q.nMiss = p.nMiss + One(~Has(d, g))
       /\ q.nEvict = p.nEvict + One(~Has(d, g) /\ Filled(d) = DOMAIN d.lines)
  BY <1>9, <1>15 DEF Accessed
<1>17. /\ Geometry(q) /\ HitsIn(q, u) = HitsIn(p, u) /\ EvictsIn(q, u) = EvictsIn(p, u)
       /\ \A z, k : SetInv(p, u, z, k) => SetInv(q, u, z, k)
  BY <1>3, <1>16, CountsDoNotMatter, Zenon
<1>18. CountInv(q, u)
  <2>1. Hits(p, u, Len(t) + 1) <=> Has(d, g)
    BY <1>1, <1>2, <1>3, <1>6, HitIsInLines, Zenon
  <2>2. Evicts(p, u, Len(t) + 1) <=> (~Has(d, g) /\ Filled(d) = DOMAIN d.lines)
    BY <1>1, <1>2, <1>3, <1>6, EvictIsFull, Zenon
  <2>3. /\ Cardinality(HitsIn(p, u)) = Cardinality(HitsIn(p, t)) + One(Hits(p, u, Len(t) + 1))
        /\ Cardinality(DOMAIN u \ HitsIn(p, u)) =
              Cardinality(DOMAIN t \ HitsIn(p, t)) + One(~Hits(p, u, Len(t) + 1))
        /\ Cardinality(EvictsIn(p, u)) =
              Cardinality(EvictsIn(p, t)) + One(Evicts(p, u, Len(t) + 1))
    BY <1>1, <1>2, CountsGrow, Zenon
  <2>4. /\ One(Hits(p, u, Len(t) + 1)) = One(Has(d, g))
        /\ One(~Hits(p, u, Len(t) + 1)) = One(~Has(d, g))
        /\ One(Evicts(p, u, Len(t) + 1)) = One(~Has(d, g) /\ Filled(d) = DOMAIN d.lines)
    BY <2>1, <2>2 DEF One
  <2>5. /\ p.nHit = Cardinality(HitsIn(p, t)) /\ p.nEvict = Cardinality(EvictsIn(p, t))
        /\ p.nMiss = Cardinality(DOMAIN t \ HitsIn(p, t))
    BY <1>2 DEF CountInv
  <2>6. /\ q.nHit = Cardinality(HitsIn(p, u)) /\ q.nEvict = Cardinality(EvictsIn(p, u))
        /\ q.nMiss = Cardinality(DOMAIN u \ HitsIn(p, u))
    BY <1>16, <2>3, <2>4, <2>5, Zenon
  <2> QED
    BY <1>17, <2>6, Zenon DEF CountInv
<1>19. SimType(q, r.cache)
  BY <1>13, <1>16, <1>17 DEF SimType, SameGeometry
<1>20. u \in Seq(Addrs) /\ Len(u) <= MaxAccesses
  BY <1>1, <1>2, Appended
<1>21. \A z \in DOMAIN r.cache : SetInv(q, u, z, r.cache[z])
  BY <1>13, <1>14, <1>17, Zenon
<1>22. LruInv(q, r.cache, u)
  BY <1>18, <1>19, <1>20, <1>21 DEF LruInv
<1> QED
  BY <1>1, <1>15, <1>22

LEMMA AccessesDone ==
  ASSUME NEW sim, NEW s, NEW n \in 0..2, Len(s) = n
  PROVE  /\ n = 0 => AccessAll(sim, s) = sim
         /\ n = 1 => AccessAll(sim, s) = accessCache(sim, s[1])
         /\ n = 2 => AccessAll(sim, s) = accessCache(accessCache(sim, s[1]), s[2])
<1> DEFINE InTurn(f) ==
        f = [i \in 0..n |-> IF i = 0 THEN sim ELSE accessCache(f[i - 1], s[i])]
<1>1. PICK r, q : r = accessCache(sim, s[1]) /\ q = accessCache(r, s[2])
  OBVIOUS
<1>2. PICK f : f = [i \in 0..n |-> IF i = 0 THEN sim ELSE IF i = 1 THEN r ELSE q]
  OBVIOUS
<1>3. InTurn(f)
  <2>1. n = 0 \/ n = 1 \/ n = 2
    OBVIOUS
  <2>2. \A i \in 0..n : f[i] = IF i = 0 THEN sim ELSE accessCache(f[i - 1], s[i])
    <3>1. f[0] = sim
      BY <1>2, <2>1
    <3>2. 1 \in 0..n => f[1] = accessCache(f[0], s[1])
      BY <1>1, <1>2, <3>1
    <3>3. 2 \in 0..n => f[2] = accessCache(f[1], s[2])
      BY <1>1, <1>2, <2>1
    <3>4. \A i \in 0..n : i = 0 \/ i = 1 \/ i = 2
      BY <2>1
    <3> QED
      BY <3>1, <3>2, <3>3, <3>4
  <2>3. PICK h : h = [i \in 0..n |-> IF i = 0 THEN sim ELSE accessCache(f[i - 1], s[i])]
    OBVIOUS
  <2>4. f = h
    BY <1>2, <2>2, <2>3
  <2> QED
    BY <2>3, <2>4
<1>4. InTurn(CHOOSE g : InTurn(g))
  BY <1>3
<1>5. PICK after : after = CHOOSE g : InTurn(g)
  OBVIOUS
<1>6. AccessAll(sim, s) = after[n]
  BY <1>5 DEF AccessAll
<1>7. after = [i \in 0..n |-> IF i = 0 THEN sim ELSE accessCache(after[i - 1], s[i])]
  BY <1>4, <1>5
<1> HIDE DEF InTurn
<1>8. n = 0 \/ n = 1 \/ n = 2
  OBVIOUS
<1>9. after[0] = sim
  BY <1>7, <1>8
<1>10. 1 \in 0..n => after[1] = r
  BY <1>1, <1>7, <1>9
<1>11. 2 \in 0..n => after[2] = q
  BY <1>1, <1>7, <1>8, <1>10
<1>12. /\ n = 0 => after[n] = sim
       /\ n = 1 => after[n] = r
       /\ n = 2 => after[n] = q
  BY <1>8, <1>9, <1>10, <1>11
<1> QED
  BY <1>1, <1>6, <1>12, Zenon

LEMMA InstructionAccesses ==
  ASSUME NEW instr \in Instructions, NEW a \in Addrs
  PROVE  LET s == AccessesOf(instr, a)
         IN  \/ s = <<>>
             \/ s = <<a>>
             \/ s = <<a, a>>
<1>1. CASE instr = "I"
  BY <1>1 DEF AccessesOf
<1>2. CASE instr \in {"L", "S"}
  BY <1>2 DEF AccessesOf
<1>3. CASE instr = "M"
  BY <1>3 DEF AccessesOf
<1> QED
  BY <1>1, <1>2, <1>3 DEF Instructions

LEMMA LineRead ==
  ASSUME NEW p, NEW c, NEW t, LruInv(p, c, t), NEW a \in Addrs, NEW instr \in Instructions,
         Len(t) + Len(AccessesOf(instr, a)) <= MaxAccesses, MaxAccesses < Pow2[CountWidth]
  PROVE  LET r == AccessAll([param |-> p, cache |-> c], AccessesOf(instr, a))
         IN  LruInv(r.param, r.cache, t \o AccessesOf(instr, a))
<1>1. PICK s : s = AccessesOf(instr, a)
  OBVIOUS
<1>2. PICK sim : sim = [param |-> p, cache |-> c]
  OBVIOUS
<1>3. PICK r : r = AccessAll(sim, s)
  OBVIOUS
<1>4. t \in Seq(Addrs) /\ Len(t) + Len(s) <= MaxAccesses
  BY <1>1 DEF LruInv
<1>5. sim.param = p /\ sim.cache = c
  BY <1>2
<1>6. CASE s = <<>>
  <2>1. 0 \in 0..2 /\ Len(s) = 0 /\ t \o s = t
    BY <1>4, <1>6
  <2>2. r = sim
    BY <1>3, <2>1, AccessesDone, Zenon
  <2> QED
    BY <1>1, <1>2, <1>3, <1>5, <2>1, <2>2
<1>7. ASSUME s = <<a>> \/ s = <<a, a>>
      PROVE  LET q == accessCache(sim, a) IN LruInv(q.param, q.cache, Append(t, a))
  <2>1. Len(t) + 1 <= MaxAccesses
    <3>1. Len(s) = 1 \/ Len(s) = 2
      BY <1>7
    <3> QED
      BY <1>4, <3>1, SimulatorAssumption
  <2> QED
    BY <1>2, <2>1, AccessStep, Zenon
<1>8. CASE s = <<a>>
  <2>1. 1 \in 0..2 /\ Len(s) = 1 /\ t \o s = Append(t, a) /\ s[1] = a
    BY <1>4, <1>8
  <2>2. r = accessCache(sim, a)
    BY <1>3, <2>1, AccessesDone, Zenon
  <2>3. LruInv(r.param, r.cache, t \o s)
    BY <1>7, <1>8, <2>1, <2>2
  <2> QED
    BY <1>1, <1>2, <1>3, <2>3
<1>9. CASE s = <<a, a>>
  <2>1. 2 \in 0..2 /\ Len(s) = 2 /\ s[1] = a /\ s[2] = a
    BY <1>9
  <2>2. PICK u : u = Append(t, a)
    OBVIOUS
  <2>3. u \in Seq(Addrs) /\ Len(u) = Len(t) + 1 /\ t \o s = Append(u, a)
    BY <1>4, <1>9, <2>2
  <2>4. PICK q : q = accessCache(sim, a)
    OBVIOUS
  <2>5. LruInv(q.param, q.cache, u)
    BY <1>7, <1>9, <2>2, <2>4
  <2>6. q = [param |-> q.param, cache |-> q.cache]
    BY <2>4, AccessRecord, Zenon
  <2>7. r = accessCache(q, a)
    <3>1. AccessAll(sim, s) = accessCache(accessCache(sim, s[1]), s[2])
      BY <2>1, AccessesDone, Zenon
    <3> QED
      BY <1>3, <2>1, <2>4, <3>1, Zenon
  <2>8. Len(u) + 1 <= MaxAccesses
    BY <1>4, <2>1, <2>3, SimulatorAssumption
  <2>9. PICK pp, cc : pp = q.param /\ cc = q.cache
    OBVIOUS
  <2>10. LruInv(pp, cc, u) /\ r = accessCache([param |-> pp, cache |-> cc], a)
    BY <2>5, <2>6, <2>7, <2>9
  <2>11. LruInv(r.param, r.cache, Append(u, a))
    BY <2>8, <2>10, AccessStep, Zenon
  <2> QED
    BY <1>1, <1>2, <1>3, <2>3, <2>11
<1>10. s = <<>> \/ s = <<a>> \/ s = <<a, a>>
  BY <1>1, InstructionAccesses, Zenon
<1> QED
  BY <1>6, <1>8, <1>9, <1>10

-----------------------------------------------------------------------------
(* The simulator as a whole.                                               *)

LEMMA NothingRead ==
  ASSUME NEW k \in Caches
  PROVE  LruInv(NewParam(k), NewCache(k, 0), <<>>)
<1>1. PICK p, c : p = NewParam(k) /\ c = NewCache(k, 0)
  OBVIOUS
<1>2. /\ k.s \in 1..(Width - 1) /\ k.b \in 0..(Width - k.s - 1) /\ k.E \in Nat \ {0}
      /\ Width \in Nat /\ MaxAccesses \in Nat
  BY SimulatorAssumption
<1>3. /\ p.s = k.s /\ p.E = k.E /\ p.b = k.b /\ p.nHit = 0 /\ p.nMiss = 0 /\ p.nEvict = 0
      /\ p \in Counters
  BY <1>1, <1>2 DEF NewParam, Counters
<1>4. Geometry(p)
  BY <1>2, <1>3 DEF Geometry
<1>5. PICK d : d = [lines |-> [e \in 0..(k.E - 1) |-> [tag |-> 0, valid |-> 0, useTime |-> 0]],
                    useCnt |-> 0]
  OBVIOUS
<1>6. d \in SetType(k.E) /\ d.useCnt = 0 /\ \A e \in DOMAIN d.lines : d.lines[e].valid = 0
  BY <1>2, <1>5 DEF SetType, Line
<1>7. Filled(d) = {}
  BY <1>6 DEF Filled
<1>8. c = [x \in 0..(Pow2[k.s] - 1) |-> d]
  BY <1>1, <1>5 DEF NewCache
<1>9. SimType(p, c)
  BY <1>3, <1>4, <1>6, <1>8 DEF SimType
<1>10. <<>> \in Seq(Addrs) /\ Len(<<>>) = 0 /\ DOMAIN <<>> = {}
  OBVIOUS
<1>11. ASSUME NEW x \in DOMAIN c PROVE SetInv(p, <<>>, x, c[x])
  <2>1. c[x] = d
    BY <1>8
  <2>2. OrderInv(p, <<>>, x, d)
    BY <1>7 DEF OrderInv
  <2>3. \A y : ~Used(p, <<>>, y)
    BY <1>10 DEF Used
  <2>4. ReplacedInv(p, <<>>, x, d)
    BY <2>3 DEF ReplacedInv
  <2> QED
    BY <1>6, <1>10, <2>1, <2>2, <2>4 DEF SetInv
<1>12. CountInv(p, <<>>)
  <2>1. HitsIn(p, <<>>) = {} /\ EvictsIn(p, <<>>) = {} /\ DOMAIN <<>> \ HitsIn(p, <<>>) = {}
    BY <1>10 DEF HitsIn, EvictsIn
  <2>2. Cardinality({}) = 0
    BY FS_EmptySet
  <2> QED
    BY <1>3, <2>1, <2>2 DEF CountInv
<1>13. LruInv(p, c, <<>>)
  BY <1>2, <1>9, <1>10, <1>11, <1>12 DEF LruInv
<1> QED
  BY <1>1, <1>13

(***************************************************************************)
(* SimInv is an invariant: whatever trace csim reads, the lines of a set   *)
(* hold the blocks used last, in the order of their times of use, and the  *)
(* counts are those of a cache that replaces the least recently used       *)
(* block.  The memory that malloc returns must read as zero, as its first  *)
(* pages do, because main does not set the valid bits; and the use counter *)
(* of a set must not wrap around.                                          *)
(***************************************************************************)
THEOREM SimInvariance ==
  ASSUME StaleBits = {0}, MaxAccesses < Pow2[CountWidth]
  PROVE  Spec => []SimInv
<1>1. Init => SimInv
  <2> SUFFICES ASSUME Init PROVE SimInv
    OBVIOUS
  <2>1. CASE phase = "csim"
    <3>1. PICK k \in Caches : SimInit(k)
      BY <2>1, Zenon DEF Init
    <3>2. param = NewParam(k) /\ cache = NewCache(k, 0) /\ trace = <<>>
      BY <3>1 DEF SimInit
    <3> QED
      BY <2>1, <3>2, NothingRead DEF SimInv
  <2>2. CASE phase # "csim"
    <3>1. trace = <<>>
      BY <2>2, Zenon DEF Init, SimInit
    <3> QED
      BY <2>2, <3>1 DEF SimInv
  <2> QED
    BY <2>1, <2>2
<1>2. SimInv /\ [Next]_vars => SimInv'
  <2> SUFFICES ASSUME SimInv, [Next]_vars PROVE SimInv'
    OBVIOUS
  <2>1. CASE Csim
    <3>1. phase = "csim" /\ phase' = phase /\ LruInv(param, cache, trace)
      BY <2>1 DEF Csim, testvars, SimInv
    <3>2. ASSUME NEW instr \in Instructions, NEW addr \in Addrs, ReadLine(instr, addr)
          PROVE  LruInv(param', cache', trace')
      <4>1. PICK r : r = AccessAll([param |-> param, cache |-> cache], AccessesOf(instr, addr))
        OBVIOUS
      <4>2. /\ param' = r.param /\ cache' = r.cache
            /\ trace' = trace \o AccessesOf(instr, addr)
            /\ Len(trace) + Len(AccessesOf(instr, addr)) <= MaxAccesses
        BY <3>2, <4>1 DEF ReadLine
      <4>3. LruInv(r.param, r.cache, trace \o AccessesOf(instr, addr))
        BY <3>1, <4>1, <4>2, LineRead, Zenon
      <4> QED
        BY <4>2, <4>3, Zenon
    <3>3. LruInv(param', cache', trace')
      <4>1. CASE \E instr \in Instructions, addr \in Addrs : ReadLine(instr, addr)
        BY <3>2, <4>1
      <4>2. CASE printSummary
        BY <3>1, <4>2 DEF printSummary
      <4> QED
        BY <2>1, <4>1, <4>2, Zenon DEF Csim
    <3>4. LruInv(param, cache, trace)'
      BY <3>3
    <3> QED
      BY <3>1, <3>4 DEF SimInv
  <2>2. ASSUME trace' = trace, phase # "csim", phase' # "csim"
        PROVE  SimInv'
    BY <2>2 DEF SimInv
  <2>3. CASE eval_perf
    BY <2>2, <2>3 DEF eval_perf
  <2>4. CASE transpose_submit
    BY <2>2, <2>4 DEF transpose_submit
  <2>5. CASE Validated
    BY <2>2, <2>5 DEF Validated
  <2>6. CASE Filter
    BY <2>2, <2>6 DEF Filter
  <2>7. CASE Simulated
    BY <2>2, <2>7 DEF Simulated, printSummary, testvars
  <2>8. CASE Collect
    BY <2>2, <2>8 DEF Collect
  <2>9. CASE Report
    BY <2>2, <2>9 DEF Report
  <2>10. CASE Exit
    BY <2>2, <2>10 DEF Exit
  <2>11. CASE sigalrm_handler
    BY <2>2, <2>11 DEF sigalrm_handler, Running
  <2>12. CASE UNCHANGED vars
    <3>1. phase' = phase /\ param' = param /\ cache' = cache /\ trace' = trace
      BY <2>12 DEF vars
    <3>2. LruInv(param, cache, trace) => LruInv(param', cache', trace')
      BY <3>1
    <3> QED
      BY <3>1, <3>2 DEF SimInv
  <2> QED
    BY <2>1, <2>3, <2>4, <2>5, <2>6, <2>7, <2>8, <2>9, <2>10, <2>11, <2>12 DEF Next
<1> QED
  BY <1>1, <1>2, PTL DEF Spec

(***************************************************************************)
(* csim.c accessCache, for every geometry, set of addresses and length of  *)
(* trace: the hits, misses and evictions counted are those of a cache that *)
(* replaces the least recently used block of a set.                        *)
(***************************************************************************)
THEOREM CountsLikeLru ==
  ASSUME StaleBits = {0}, MaxAccesses < Pow2[CountWidth]
  PROVE  Spec => []CountsAreLru
<1>1. SimInv => CountsAreLru
  BY DEF SimInv, LruInv, CountInv, CountsAreLru
<1>2. Spec => []SimInv
  BY SimInvariance
<1> QED
  BY <1>1, <1>2, PTL
=============================================================================
