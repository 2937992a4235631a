------------------------------- MODULE Memlib -------------------------------
(***************************************************************************)
(* The simulated memory of memlib.c, and the boundary tags that every      *)
(* version of the malloc package keeps in it.                              *)
(*                                                                         *)
(* A heap is a record: mem (a word for every address that mem_init         *)
(* reserved), brk, and the pointers that the package keeps outside of the  *)
(* memory: prol (the prologue block, the end of the free list) and root    *)
(* (its first block).  Addresses and sizes are in bytes; a word holds a    *)
(* tag, a pointer, or payload.  A payload word is named by the byte it is  *)
(* filled with.                                                            *)
(***************************************************************************)
EXTENDS Integers

CONSTANTS
    Start,      \* mem_start_brk
    MAX_HEAP,   \* bytes of memory
    CHUNKSIZE,  \* the heap grows by at least this much
    SIZE_T      \* the number of values of size_t

\* malloc aligns to a double word; all sizes are whole words.
ASSUME MemAssumption ==
    /\ Start \in Nat \ {0} /\ Start % 8 = 0
    /\ MAX_HEAP \in Nat /\ MAX_HEAP % 4 = 0
    /\ CHUNKSIZE \in Nat /\ CHUNKSIZE % 8 = 0 /\ CHUNKSIZE >= 16
    /\ SIZE_T \in Nat /\ SIZE_T % 16 = 0 /\ SIZE_T > Start + MAX_HEAP

WSIZE == 4
DSIZE == 8
MIN_BSIZE == 2 * DSIZE
NULL == 0
Failed == -1    \* (void *)-1

Addr == {Start + WSIZE * i : i \in 0 .. (MAX_HEAP \div WSIZE) - 1}

\* No loop over blocks takes more steps than the heap has double words.
HeapUnits == MAX_HEAP \div DSIZE

\* A result of a call: the heap it leaves, and the pointer it returns.
Result(h, p) == [heap |-> h, ptr |-> p]

ALIGN(size) == (((size + 7) % SIZE_T) \div 8) * 8
BlockSize(size) == (ALIGN(size) + DSIZE) % SIZE_T

\* Memory that mem_init leaves as malloc returned it, read beyond the heap.
Junk == 7

mem_init == [mem |-> [a \in Addr |-> Junk], brk |-> Start,
             prol |-> NULL, root |-> NULL]

mem_reset_brk_Late(h) == h

mem_reset_brk(h) == [h EXCEPT !.brk = Start]

mem_heapsize(h) == h.brk - Start

\* incr is an int: half of the values of size_t are negative.
mem_sbrk(h, incr) ==
    IF incr >= SIZE_T \div 2 \/ h.brk + incr > Start + MAX_HEAP
    THEN Result(h, Failed)
    ELSE Result([h EXCEPT !.brk = @ + incr], h.brk)

-----------------------------------------------------------------------------
PACK(size, alloc) == size + alloc
GET(h, p) == h.mem[p]
PUT(h, p, val) == [h EXCEPT !.mem[p] = val]

GET_SIZE(h, p) == (h.mem[p] \div 8) * 8
GET_ALLOC(h, p) == h.mem[p] % 2

HDRP(bp) == bp - WSIZE
FTRP(h, bp) == bp + GET_SIZE(h, HDRP(bp)) - DSIZE
NEXT_BLKP(h, bp) == bp + GET_SIZE(h, HDRP(bp))
PREV_BLKP(h, bp) == bp - GET_SIZE(h, bp - DSIZE)

\* Header, then the footer that the new header leads to.
PutFooter(h, bp, tag) == PUT(h, FTRP(h, bp), tag)
PutTags(h, bp, size, alloc) ==
    PutFooter(PUT(h, HDRP(bp), PACK(size, alloc)), bp, PACK(size, alloc))

Split_OneTag(h, bp, bsize, rest) ==
    LET h1 == PutTags(h, bp, bsize, 1)
    IN  PUT(h1, HDRP(NEXT_BLKP(h1, bp)), PACK(rest, 0))

\* Header and footer of an allocated block, and of the free block behind it.
PutRest(h, bp, rest) == PutTags(h, NEXT_BLKP(h, bp), rest, 0)
Split(h, bp, bsize, rest) == PutRest(PutTags(h, bp, bsize, 1), bp, rest)

\* memcpy, memmove: n is a whole number of words.
memmove(h, dst, src, n) ==
    [h EXCEPT !.mem = [a \in Addr |->
        IF a >= dst /\ a < dst + n
        THEN IF src + a - dst \in Addr THEN @[src + a - dst] ELSE Junk
        ELSE @[a]]]

\* extend_heap up to the call of coalesce, which the versions do differently.
PutEpilogue(h, bp) == PUT(h, HDRP(NEXT_BLKP(h, bp)), PACK(0, 1))
Grown(r, size) ==
    IF r.ptr = Failed THEN Result(r.heap, NULL)
    ELSE Result(PutEpilogue(PutTags(r.heap, r.ptr, size, 0), r.ptr), r.ptr)
Extended(h, words) ==
    LET size == IF words % 2 = 1 THEN (words + 1) * WSIZE ELSE words * WSIZE
    IN  Grown(mem_sbrk(h, size), size)

-----------------------------------------------------------------------------
(* What the tags say, for the properties.                                  *)

\* A walk through the blocks: where it is, and the blocks it has seen.
Walk(h, w) ==
    IF w.at >= h.brk \/ GET_SIZE(h, HDRP(w.at)) = 0 THEN w
    ELSE [at |-> NEXT_BLKP(h, w.at), seen |-> w.seen \cup {w.at}]

\* The blocks after the prologue, by their block pointers.
Blocks(h) ==
    LET walk[k \in 0 .. HeapUnits] ==
            IF k = 0 THEN [at |-> NEXT_BLKP(h, h.prol), seen |-> {}]
            ELSE Walk(h, walk[k - 1])
    IN  walk[HeapUnits].seen

IsFree(h, bp) == GET_ALLOC(h, HDRP(bp)) = 0
FreeBlocks(h) == {bp \in Blocks(h) : IsFree(h, bp)}
=============================================================================
