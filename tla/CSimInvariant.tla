---------------------------- MODULE CSimInvariant ----------------------------
(***************************************************************************)
(* The inductive invariant of the cache simulator, from which module       *)
(* CSimProofs derives that its counts are those of a cache that replaces   *)
(* the least recently used block.                                          *)
(***************************************************************************)
EXTENDS TestTrans

\* What accessCache needs of a geometry.
Geometry(p) ==
    /\ p.s \in 1..(Width - 1) /\ p.b \in 0..(Width - p.s - 1)
    /\ p.E \in Nat \ {0}

Counters == [s : Nat, E : Nat, b : Nat, nHit : Nat, nMiss : Nat, nEvict : Nat]

Line == [tag : Nat, valid : {0, 1}, useTime : Nat]

\* The sets of a cache with E lines each.
SetType(E) == [lines : [0..(E - 1) -> Line], useCnt : Nat]

SimType(p, c) ==
    /\ p \in Counters /\ Geometry(p)
    /\ c \in [0..(Pow2[p.s] - 1) -> SetType(p.E)]

\* The block y has been used.
Used(p, t, y) == \E k \in DOMAIN t : Block(p, t[k]) = y

\* The block z has been used after y was used last.
Newer(p, t, y, z) ==
    \E k \in DOMAIN t : Block(p, t[k]) = z /\ \A j \in k..Len(t) : Block(p, t[j]) # y

Filled(c) == {e \in DOMAIN c.lines : c.lines[e].valid = 1}

\* The block in line e of set x.
Held(p, x, c, e) == c.lines[e].tag * Pow2[p.s] + x

\* The lines of set x hold different blocks that were used, in the order of
\* their times of use.
OrderInv(p, t, x, c) ==
    \A e \in Filled(c) :
        /\ c.lines[e].useTime <= c.useCnt
        /\ Used(p, t, Held(p, x, c, e))
        /\ \A f \in Filled(c) \ {e} :
              /\ c.lines[e].tag # c.lines[f].tag
              /\ c.lines[e].useTime # c.lines[f].useTime
              /\ c.lines[e].useTime < c.lines[f].useTime =>
                    Newer(p, t, Held(p, x, c, e), Held(p, x, c, f))

\* A block of set x that was used and is in no line has been replaced: the
\* lines are filled with blocks used after it.
ReplacedInv(p, t, x, c) ==
    \A y \in Nat :
        /\ y % Pow2[p.s] = x /\ Used(p, t, y)
        /\ \A e \in Filled(c) : Held(p, x, c, e) # y
        => \A e \in DOMAIN c.lines :
              e \in Filled(c) /\ Newer(p, t, y, Held(p, x, c, e))

SetInv(p, t, x, c) ==
    c.useCnt <= Len(t) /\ OrderInv(p, t, x, c) /\ ReplacedInv(p, t, x, c)

CountInv(p, t) ==
    /\ p.nHit = Cardinality(HitsIn(p, t))
    /\ p.nMiss = Cardinality(DOMAIN t \ HitsIn(p, t))
    /\ p.nEvict = Cardinality(EvictsIn(p, t))

\* The simulator with parameters p and cache c has read the trace t.
LruInv(p, c, t) ==
    /\ SimType(p, c) /\ t \in Seq(Addrs) /\ Len(t) <= MaxAccesses
    /\ \A x \in DOMAIN c : SetInv(p, t, x, c[x])
    /\ CountInv(p, t)

\* The inductive invariant: the trace is that of csim run by hand.
SimInv ==
    IF phase = "csim" THEN LruInv(param, cache, trace) ELSE trace = <<>>
=============================================================================
