--------------------------------- MODULE Mm ---------------------------------
(***************************************************************************)
(* The malloc package src/mm.c: boundary tags, an explicit free list that  *)
(* is used last in first out, and a realloc that first tries the block and *)
(* its neighbours.  Every operator is the function of that name: it takes  *)
(* the heap and returns the heap it leaves, with the pointer it returns    *)
(* where it returns one.                                                   *)
(***************************************************************************)
EXTENDS Memlib

SUCCP(bp) == bp
PREDP(bp) == bp + WSIZE

set_root_NoPred(h, bp) ==
    IF bp = h.root THEN h
    ELSE [h EXCEPT !.mem[SUCCP(bp)] = h.root, !.mem[PREDP(bp)] = NULL,
                   !.root = bp]

set_root(h, bp) ==
    IF bp = h.root THEN h
    ELSE [h EXCEPT !.mem[PREDP(h.root)] = bp, !.mem[SUCCP(bp)] = h.root,
                   !.mem[PREDP(bp)] = NULL, !.root = bp]

cut_out(h, bp) ==
    LET succ == GET(h, SUCCP(bp))
        pred == GET(h, PREDP(bp))
    IN  IF bp = h.root
        THEN [h EXCEPT !.root = succ, !.mem[PREDP(succ)] = NULL]
        ELSE [h EXCEPT !.mem[SUCCP(pred)] = succ, !.mem[PREDP(succ)] = pred]

coalesce_Backward(h, bp) ==
    LET prev == PREV_BLKP(h, bp)
        size == GET_SIZE(h, HDRP(bp)) + GET_SIZE(h, HDRP(prev))
    IN  IF GET_ALLOC(h, FTRP(h, prev)) = 0
        THEN Result(PutTags(cut_out(h, prev), prev, size, 0), prev)
        ELSE Result(h, bp)

Unlinked(h, bp, isfree) == IF isfree THEN cut_out(h, bp) ELSE h

\* The tags of the merged block, once its parts have left the list.
Merged(h, bp, size, prev, pfree, next, nfree) ==
    LET lo == IF pfree THEN prev ELSE bp
        total == size + (IF pfree THEN GET_SIZE(h, HDRP(prev)) ELSE 0)
                      + (IF nfree THEN GET_SIZE(h, FTRP(h, next)) ELSE 0)
    IN  Result(PutTags(h, lo, total, 0), lo)

\* The free neighbours leave the list, the one before first; the tags of
\* the merged block replace theirs.
coalesce(h, bp) ==
    LET prev  == PREV_BLKP(h, bp)
        next  == NEXT_BLKP(h, bp)
        pfree == GET_ALLOC(h, FTRP(h, prev)) = 0
        nfree == GET_ALLOC(h, HDRP(next)) = 0
    IN  IF pfree \/ nfree
        THEN Merged(Unlinked(Unlinked(h, prev, pfree), next, nfree),
                    bp, GET_SIZE(h, HDRP(bp)), prev, pfree, next, nfree)
        ELSE Result(h, bp)

\* set_root(coalesce(bp)).
Rooted(c) == Result(set_root(c.heap, c.ptr), c.ptr)
Release(h, bp) == Rooted(coalesce(h, bp))

\* What is behind the block bp goes to the free list, coalesced or as it is.
ReleaseRest(h, bp) == Release(h, NEXT_BLKP(h, bp)).heap
RootRest(h, bp) == set_root(h, NEXT_BLKP(h, bp))

Released(e) == IF e.ptr = NULL THEN e ELSE Release(e.heap, e.ptr)
extend_heap(h, words) == Released(Extended(h, words))

\* The loop of find_fit goes on to the next free block, or stays where it ends.
NextFit(h, bsize, bp) ==
    IF bp = h.prol \/ bsize <= GET_SIZE(h, HDRP(bp)) THEN bp
    ELSE GET(h, SUCCP(bp))

\* First fit from the root; the prologue ends the list.
find_fit(h, bsize) ==
    LET bp[k \in 0 .. HeapUnits] ==
            IF k = 0 THEN h.root ELSE NextFit(h, bsize, bp[k - 1])
    IN  IF bp[HeapUnits] = h.prol THEN NULL ELSE bp[HeapUnits]

place(h, bp, bsize) ==
    LET initsize == GET_SIZE(h, HDRP(bp))
    IN  IF initsize < bsize + MIN_BSIZE
        THEN PutTags(cut_out(h, bp), bp, initsize, 1)
        ELSE RootRest(Split(cut_out(h, bp), bp, bsize, initsize - bsize), bp)

\* The prologue at p, which is its own empty free list, and the epilogue.
PutPrologue(h, p) ==
    LET next == NEXT_BLKP(h, p)
    IN  [h EXCEPT !.mem[SUCCP(p)] = NULL, !.mem[PREDP(p)] = next,
                  !.mem[HDRP(next)] = PACK(0, 1), !.prol = p, !.root = p]

\* NULL in ptr tells that the heap could not be set up.
SetUp(r, p) ==
    IF r.ptr = Failed THEN Result(r.heap, NULL)
    ELSE extend_heap(
             PutPrologue(PutTags(PUT(r.heap, r.ptr, 0), p, MIN_BSIZE, 1), p),
             CHUNKSIZE \div WSIZE)
mm_init(h) == SetUp(mem_sbrk(h, 6 * WSIZE), h.brk + 2 * WSIZE)

Placed(e, bsize) ==
    IF e.ptr = NULL THEN e ELSE Result(place(e.heap, e.ptr, bsize), e.ptr)

mm_malloc(h, size) ==
    LET bsize == BlockSize(size)
        fit == find_fit(h, bsize)
        extendsize == IF bsize > CHUNKSIZE THEN bsize ELSE CHUNKSIZE
    IN  IF size = 0 THEN Result(h, NULL)
        ELSE Placed(IF fit # NULL THEN Result(h, fit)
                    ELSE extend_heap(h, extendsize \div WSIZE), bsize)

mm_free(h, ptr) ==
    IF ptr = NULL THEN h
    ELSE Release(PutTags(h, ptr, GET_SIZE(h, HDRP(ptr)), 0), ptr).heap

-----------------------------------------------------------------------------
(* mm_realloc, one operator for each of its cases.                         *)

\* The old block is split; its remainder goes to the free list.
ReallocShrink(h, ptr, oldbsize, newbsize) ==
    Result(ReleaseRest(Split(h, ptr, newbsize, oldbsize - newbsize), ptr), ptr)

ReallocPrev_TagsFirst(h, ptr, newbsize, totalbsize) ==
    LET newptr == PREV_BLKP(h, ptr)
        h1 == Split(cut_out(h, newptr), newptr, newbsize, totalbsize - newbsize)
    IN  Result(ReleaseRest(memmove(h1, newptr, ptr, newbsize - DSIZE), newptr),
               newptr)

\* The payload moves into the free block before it before the tags of the
\* new block and of the remainder are written.
ReallocPrev(h, ptr, newbsize, totalbsize) ==
    LET newptr == PREV_BLKP(h, ptr)
        h1 == memmove(cut_out(h, newptr), newptr, ptr, newbsize - DSIZE)
    IN  Result(ReleaseRest(Split(h1, newptr, newbsize, totalbsize - newbsize),
                           newptr), newptr)

\* The block behind is absorbed and the two are split.
Absorbed(h, ptr, newbsize) ==
    LET next == NEXT_BLKP(h, ptr)
        totalbsize == GET_SIZE(h, HDRP(ptr)) + GET_SIZE(h, FTRP(h, next))
    IN  Split(cut_out(h, next), ptr, newbsize, totalbsize - newbsize)

\* The remainder is not coalesced.
ReallocNext(h, ptr, newbsize) ==
    Result(RootRest(Absorbed(h, ptr, newbsize), ptr), ptr)

MoveTo_FreesAnyway(m, ptr, copysize) ==
    IF m.ptr = NULL THEN Result(mm_free(m.heap, ptr), NULL)
    ELSE Result(mm_free(memmove(m.heap, m.ptr, ptr, copysize), ptr), m.ptr)

\* The payload is copied to the block m, if there is one, and the old block
\* is freed.
MoveTo(m, ptr, copysize) ==
    IF m.ptr = NULL THEN m
    ELSE Result(mm_free(memmove(m.heap, m.ptr, ptr, copysize), ptr), m.ptr)

\* A new block, to which the smaller of the two payloads is copied.
ReallocMove(h, ptr, size, oldbsize, newbsize) ==
    MoveTo(mm_malloc(h, size), ptr,
           (IF oldbsize > newbsize THEN newbsize ELSE oldbsize) - DSIZE)

\* behind is the result of the case of the block behind: two packages differ
\* there.
ReallocCases(h, ptr, size, behind) ==
    LET oldbsize == GET_SIZE(h, HDRP(ptr))
        newbsize == BlockSize(size)
        splitsize == (newbsize + MIN_BSIZE) % SIZE_T
        prev     == PREV_BLKP(h, ptr)
        next     == NEXT_BLKP(h, ptr)
        prevsize == GET_SIZE(h, FTRP(h, prev))
        nextsize == GET_SIZE(h, FTRP(h, next))
    IN  IF ptr = NULL THEN mm_malloc(h, size)
        ELSE IF size = 0 THEN Result(mm_free(h, ptr), NULL)
        ELSE IF oldbsize >= splitsize
             THEN ReallocShrink(h, ptr, oldbsize, newbsize)
        ELSE IF oldbsize = newbsize THEN Result(h, ptr)
        ELSE IF /\ GET_ALLOC(h, FTRP(h, prev)) = 0
                /\ oldbsize + prevsize >= splitsize
             THEN ReallocPrev(h, ptr, newbsize, oldbsize + prevsize)
        ELSE IF /\ GET_ALLOC(h, HDRP(next)) = 0
                /\ oldbsize + nextsize >= splitsize
             THEN behind
        ELSE ReallocMove(h, ptr, size, oldbsize, newbsize)

mm_realloc(h, ptr, size) ==
    ReallocCases(h, ptr, size, ReallocNext(h, ptr, BlockSize(size)))
=============================================================================
