-------------------------------- MODULE CSim --------------------------------
(***************************************************************************)
(* The cache simulator csim: sets of lines with a time of last use, driven *)
(* by the lines of a memory trace.  Words have Width bits (64 in the code) *)
(* and the use counters CountWidth (32 in the code).                       *)
(***************************************************************************)
EXTENDS Integers, Sequences, FiniteSets, FiniteSetsExt, SequencesExt

CONSTANTS
    Width,
    CountWidth,
    Caches,         \* the caches to simulate: records of s, E and b
    Addrs,          \* the addresses that occur in a trace
    MaxAccesses,    \* the most accesses of a trace
    StaleBits       \* the values a valid bit may have as malloc returns it

\* The powers of two that the shifts and the counters need.
Pow2[n \in 0..(Width + CountWidth)] == IF n = 0 THEN 1 ELSE 2 * Pow2[n - 1]

\* With s = 0 or s + b = Width a word would be shifted by all of its width.
ASSUME SimulatorAssumption ==
    /\ Width \in Nat \ {0} /\ CountWidth \in Nat /\ MaxAccesses \in Nat
    /\ \A c \in Caches : /\ c.s \in 1..(Width - 1) /\ c.b \in 0..(Width - c.s - 1)
                         /\ c.E \in Nat \ {0}
    /\ Addrs \subseteq 0..(Pow2[Width] - 1) /\ StaleBits \subseteq {0, 1}

VARIABLES
    param,      \* PARAM: the geometry with the counts of hits, misses, evictions
    cache,      \* SET[]: lines and use counter of each set
    trace,      \* the addresses accessed so far
    summary     \* what printSummary has left in the file .csim_results

-----------------------------------------------------------------------------
(* The shifts of the machine take their count modulo the width.            *)
Shl(x, n) == (x * Pow2[n % Width]) % Pow2[Width]
Shr(x, n) == x \div Pow2[n % Width]

TagOf(p, addr) == Shr(addr, p.s + p.b)

SetOf(p, addr) ==
    LET t == Width - p.s - p.b IN Shr(Shl(addr, t), t + p.b)

Victim_First(lines) == Min(DOMAIN lines)

\* The line with the smallest time of last use, the first of them.
Victim(lines) ==
    LET oldest == Min({lines[e].useTime : e \in DOMAIN lines})
    IN  Min({e \in DOMAIN lines : lines[e].useTime = oldest})

\* A simulator is a record of param and cache.
accessCache(sim, addr) ==
    LET p     == sim.param
        tag   == TagOf(p, addr)
        set   == SetOf(p, addr)
        lines == sim.cache[set].lines
        cnt   == (sim.cache[set].useCnt + 1) % Pow2[CountWidth]
        found == {e \in DOMAIN lines : lines[e].valid # 0 /\ lines[e].tag = tag}
        empty == {e \in DOMAIN lines : lines[e].valid = 0}
        Use(e, v) == [sim.cache EXCEPT
            ![set] = [lines |-> [lines EXCEPT
                                    ![e] = [tag |-> tag, valid |-> v, useTime |-> cnt]],
                      useCnt |-> cnt]]
    IN  IF found # {}
        THEN [param |-> [p EXCEPT !.nHit = @ + 1],
              cache |-> Use(Min(found), lines[Min(found)].valid)]
        ELSE IF empty = {}
        THEN [param |-> [p EXCEPT !.nMiss = @ + 1, !.nEvict = @ + 1],
              cache |-> Use(Victim(lines), lines[Victim(lines)].valid)]
        ELSE [param |-> [p EXCEPT !.nMiss = @ + 1],
              cache |-> Use(Min(empty), 1)]

AccessAll(sim, addrs) ==
    LET after[i \in 0..Len(addrs)] ==
            IF i = 0 THEN sim ELSE accessCache(after[i - 1], addrs[i])
    IN  after[Len(addrs)]

-----------------------------------------------------------------------------
NewParam(c) == [s |-> c.s, E |-> c.E, b |-> c.b, nHit |-> 0, nMiss |-> 0, nEvict |-> 0]

\* The lines come from malloc: main sets only the use counter of each set.
NewCache(c, v) ==
    [set \in 0..(Pow2[c.s] - 1) |->
        [lines |-> [e \in 0..(c.E - 1) |-> [tag |-> 0, valid |-> v, useTime |-> 0]],
         useCnt |-> 0]]

NoSummary == <<>>

SimInit(c) ==
    /\ param = NewParam(c)
    /\ \E v \in StaleBits : cache = NewCache(c, v)
    /\ trace = <<>>
    /\ summary = NoSummary

\* One line of the trace: M falls through to a second access, and the
\* instruction fetches I are none.
Instructions == {"I", "L", "S", "M"}

AccessesOf(instr, addr) ==
    CASE instr = "M" -> <<addr, addr>>
      [] instr \in {"L", "S"} -> <<addr>>
      [] instr = "I" -> <<>>

ReadLine(instr, addr) ==
    LET sim == AccessAll([param |-> param, cache |-> cache], AccessesOf(instr, addr))
    IN  /\ summary = NoSummary
        /\ Len(trace) + Len(AccessesOf(instr, addr)) <= MaxAccesses
        /\ param' = sim.param
        /\ cache' = sim.cache
        /\ trace' = trace \o AccessesOf(instr, addr)
        /\ UNCHANGED summary

printSummary ==
    /\ summary = NoSummary
    /\ summary' = <<param.nHit, param.nMiss, param.nEvict>>
    /\ UNCHANGED <<param, cache, trace>>

-----------------------------------------------------------------------------
(* What a least-recently-used cache of geometry p does on the trace t.      *)
Block(p, addr) == addr \div Pow2[p.b]
SetIndex(p, addr) == Block(p, addr) % Pow2[p.s]

\* The blocks of the set of access i that accesses j to i - 1 are to.
Rivals(p, t, j, i) ==
    {Block(p, t[k]) : k \in {k \in j..(i - 1) : SetIndex(p, t[k]) = SetIndex(p, t[i])}}

Hits(p, t, i) ==
    \E j \in 1..(i - 1) : /\ Block(p, t[j]) = Block(p, t[i])
                          /\ Cardinality(Rivals(p, t, j, i)) <= p.E

Evicts(p, t, i) == ~Hits(p, t, i) /\ Cardinality(Rivals(p, t, 1, i)) >= p.E

HitsIn(p, t) == {i \in DOMAIN t : Hits(p, t, i)}
EvictsIn(p, t) == {i \in DOMAIN t : Evicts(p, t, i)}

(***************************************************************************)
(* csim.c accessCache: after any trace the counts are those of a cache     *)
(* that replaces the least recently used block of a set: an access hits    *)
(* when at most E blocks of its set, its own one included, were used since *)
(* its block was last used, and it evicts when it misses in a full set.    *)
(***************************************************************************)
CountsAreLru ==
    trace # <<>> =>
        /\ param.nHit = Cardinality(HitsIn(param, trace))
        /\ param.nMiss = Cardinality(DOMAIN trace \ HitsIn(param, trace))
        /\ param.nEvict = Cardinality(EvictsIn(param, trace))
=============================================================================
