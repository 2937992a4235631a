-------------------------- MODULE MdriverInvariant --------------------------
(***************************************************************************)
(* The inductive invariant of the malloc packages under their driver.  The *)
(* heap is described by ghosts: the set D of its blocks, the prologue      *)
(* included, their sizes sz, and the set al of the allocated ones.         *)
(***************************************************************************)
EXTENDS Mdriver

Heaps == [mem : [Addr -> Nat], brk : Nat, prol : Nat, root : Nat]

\* The blocks D lie one behind the other from prol to brk.
Layout(prol, brk, D, sz) ==
    /\ prol = Start + 8 /\ prol \in D /\ sz \in [D -> Nat]
    /\ brk \in Nat /\ brk % 8 = 0 /\ brk <= Start + MAX_HEAP
    /\ \A x \in D : /\ x \in Nat /\ x % 8 = 0 /\ prol <= x /\ x < brk
                    /\ sz[x] % 8 = 0 /\ sz[x] >= 8 /\ (x # prol => sz[x] >= 16)
                    /\ x + sz[x] \in D \cup {brk}
    /\ \A x, y \in D : x < y => x + sz[x] <= y
    /\ \A y \in (D \cup {brk}) \ {prol} : \E x \in D : x + sz[x] = y

Tag(sz, al, x) == IF x \in al THEN sz[x] + 1 ELSE sz[x]

\* The tags at both ends of the blocks, and the epilogue.
Tagged(h, D, sz, al) ==
    /\ \A x \in D : /\ h.mem[x - 4] = Tag(sz, al, x)
                    /\ h.mem[x + sz[x] - 8] = Tag(sz, al, x)
    /\ h.mem[h.brk - 4] = 1

Tiled(h, D, sz, al) ==
    /\ h \in Heaps /\ Layout(h.prol, h.brk, D, sz) /\ Tagged(h, D, sz, al)
    /\ h.prol \in al /\ al \subseteq D

\* No free block follows a free block.
Apart(D, sz, al) == \A x \in D \ al : x + sz[x] \notin D \ al

\* The free list, s[0] to s[n]: the blocks F in some order, then the prologue,
\* linked forward and back.
Chain(h, F, n, s) ==
    /\ n \in Nat /\ s \in [0 .. n -> F \cup {h.prol}]
    /\ s[0] = h.root /\ s[n] = h.prol
    /\ \A k \in 0 .. n - 1 : /\ s[k] \in F /\ h.mem[s[k]] = s[k + 1]
                            /\ h.mem[s[k + 1] + 4] = s[k]
    /\ \A x \in F : \E k \in 0 .. n - 1 : s[k] = x
    /\ \A j, k \in 0 .. n : s[j] = s[k] => j = k
    /\ n > 0 => h.mem[s[0] + 4] = NULL

Linked(h, F) == \E n, s : Chain(h, F, n, s)

\* What a package with a free list keeps true between two calls.
ListHeap(h, D, sz, al) ==
    /\ Tiled(h, D, sz, al) /\ Apart(D, sz, al)
    /\ sz[h.prol] = 16 /\ Linked(h, D \ al)

\* The blocks X are in g with the size and the contents that they have in h.
Kept(h, g, sz, zs, X) ==
    \A x \in X : /\ zs[x] = sz[x]
                 /\ \A a \in Addr : x <= a /\ a < x + sz[x] - 8 => g.mem[a] = h.mem[a]

\* The packages without and with a free list.
PkgHeap(pk, h, D, sz, al) ==
    /\ Tiled(h, D, sz, al) /\ Apart(D, sz, al)
    /\ pk # "implicit" => sz[h.prol] = 16 /\ Linked(h, D \ al)

-----------------------------------------------------------------------------
(* The driver.                                                             *)

BlockTable == [Ids -> [ptr : Nat, size : Nat]]

Ptrs(bl, I) == {bl[i].ptr : i \in I}

\* The indices I have blocks of their own; those are the allocated blocks.
Owned(bl, I, prol) ==
    /\ \A i \in I : bl[i].ptr # prol
    /\ \A i, j \in I : bl[i].ptr = bl[j].ptr => i = j

Roomy(bl, I, sz) == \A i \in I : bl[i].size > 0 /\ bl[i].size + 8 <= sz[bl[i].ptr]

\* sized: the sizes in the table are those of this pass.
Kempt(pk, h, bl, I, sized) ==
    \E D, sz : /\ PkgHeap(pk, h, D, sz, {h.prol} \cup Ptrs(bl, I))
               /\ Owned(bl, I, h.prol) /\ (sized => Roomy(bl, I, sz))

\* The first n bytes of the block of index i.
Filled(h, bl, i, n) == \A a \in Payload(bl[i].ptr, n) : h.mem[a] = i

Extents(bl, I) == {Extent(bl[i].ptr, bl[i].size) : i \in I}

\* eval_mm_valid knows the blocks of the indices I, and has filled them.
Known(h, bl, I, known) ==
    known = Extents(bl, I) /\ \A i \in I : Filled(h, bl, i, bl[i].size)

\* What eval_mm_valid knows when it checks the request q.
KnownAt(q, known) == IF q.type = "REALLOC" THEN remove_range(known, q.oldp) ELSE known

CheckInv ==
    /\ request = {} => Known(heap, blocks, held, ranges)
    /\ \A q \in request :
           /\ request = {q} /\ q.index \in held /\ q.oldsize \in Nat
           /\ Known(heap, blocks, held \ {q.index}, KnownAt(q, ranges))
           /\ \A n \in Nat : n <= q.oldsize /\ n <= blocks[q.index].size
                  => Filled(heap, blocks, q.index, n)

\* A request takes the allocated indices from I to J.
Requests(I, op, J) ==
    /\ op.index \in Ids
    /\ \/ op.type = "ALLOC" /\ op.size \in Sizes /\ op.index \notin I /\ J = I \cup {op.index}
       \/ op.type = "REALLOC" /\ op.size \in Sizes /\ op.index \in I /\ J = I
       \/ op.type = "FREE" /\ op.index \in I /\ J = I \ {op.index}

\* hs: the allocated indices along the trace t.
Trace(t, hs) ==
    /\ hs \in [0 .. Len(t) -> SUBSET Ids] /\ hs[0] = {}
    /\ \A k \in 1 .. Len(t) : Requests(hs[k - 1], t[k], hs[k])

OpRecords == [type : {"ALLOC", "REALLOC", "FREE"}, index : Ids, size : Nat]

\* The trace has led to this point.
TraceInv ==
    /\ pass = "valid" /\ at <= MaxReplay => Len(ops) = at
    /\ (pass = "valid" /\ at <= MaxReplay) \/ pass \in {"util", "speed"} =>
           /\ at <= Len(ops)
           /\ \E hs : Trace(ops, hs) /\ held = hs[at]

TypeInv ==
    /\ package \in AllPackages
    /\ pass \in {"start", "valid", "failed", "util", "speed", "done", "exit"}
    /\ ops \in Seq(OpRecords) /\ at \in Nat /\ held \in SUBSET Ids
    /\ blocks \in BlockTable

DriverInv ==
    /\ TypeInv /\ TraceInv
    /\ pass \in {"start", "done"} => heap \in Heaps
    /\ pass = "start" => held = {} /\ ops = <<>>
    /\ Running => Kempt(package, heap, blocks, held, pass # "speed")
    /\ pass # "valid" => request = {}
    /\ pass = "valid" => CheckInv
    /\ pass = "failed" => \A i \in held : Filled(heap, blocks, i, blocks[i].size)

\* eval_mm_valid holds blocks of sizes that the trace may ask for.
SizesInv ==
    pass \in {"valid", "failed"} => \A i \in held : blocks[i].size \in Sizes
=============================================================================
