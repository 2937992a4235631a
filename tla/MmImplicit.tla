----------------------------- MODULE MmImplicit -----------------------------
(***************************************************************************)
(* The earlier package mm_implicit.c: the same boundary tags, but no free  *)
(* list.  find_fit walks the whole heap from the prologue, heap_listp, and *)
(* realloc always moves.  h.prol is heap_listp; h.root is not used.        *)
(***************************************************************************)
EXTENDS Memlib

coalesce(h, bp) ==
    LET prev  == PREV_BLKP(h, bp)
        next  == NEXT_BLKP(h, bp)
        pfree == GET_ALLOC(h, FTRP(h, prev)) = 0
        nfree == GET_ALLOC(h, HDRP(next)) = 0
        size  == GET_SIZE(h, HDRP(bp))
                 + (IF pfree THEN GET_SIZE(h, HDRP(prev)) ELSE 0)
                 + (IF nfree THEN GET_SIZE(h, FTRP(h, next)) ELSE 0)
        lo    == IF pfree THEN prev ELSE bp
    IN  Result(IF pfree \/ nfree THEN PutTags(h, lo, size, 0) ELSE h, lo)

Coalesced(e) == IF e.ptr = NULL THEN e ELSE coalesce(e.heap, e.ptr)
extend_heap(h, words) == Coalesced(Extended(h, words))

\* The loop of find_fit goes on to the next block, or stays where it ends.
NextFit(h, bsize, bp) ==
    IF \/ GET_SIZE(h, HDRP(bp)) = 0
       \/ GET_ALLOC(h, HDRP(bp)) = 0 /\ bsize <= GET_SIZE(h, HDRP(bp))
    THEN bp ELSE NEXT_BLKP(h, bp)

\* First fit in the order of the addresses, up to the epilogue of size 0.
find_fit(h, bsize) ==
    LET bp[k \in 0 .. HeapUnits] ==
            IF k = 0 THEN h.prol ELSE NextFit(h, bsize, bp[k - 1])
    IN  IF GET_SIZE(h, HDRP(bp[HeapUnits])) = 0 THEN NULL ELSE bp[HeapUnits]

place(h, bp, bsize) ==
    LET initsize == GET_SIZE(h, HDRP(bp))
    IN  IF (initsize - bsize) % SIZE_T < 2 * DSIZE
        THEN PutTags(h, bp, initsize, 1)
        ELSE Split(h, bp, bsize, initsize - bsize)

SetUp(r) ==
    LET h1 == [r.heap EXCEPT !.mem[r.ptr] = 0,
                             !.mem[r.ptr + WSIZE] = PACK(DSIZE, 1),
                             !.mem[r.ptr + 2 * WSIZE] = PACK(DSIZE, 1),
                             !.mem[r.ptr + 3 * WSIZE] = PACK(0, 1),
                             !.prol = r.ptr + 2 * WSIZE]
    IN  IF r.ptr = Failed THEN Result(r.heap, NULL)
        ELSE extend_heap(h1, CHUNKSIZE \div WSIZE)
mm_init(h) == SetUp(mem_sbrk(h, 4 * WSIZE))

Placed(e, bsize) ==
    IF e.ptr = NULL THEN e ELSE Result(place(e.heap, e.ptr, bsize), e.ptr)

mm_malloc(h, size) ==
    LET bsize == BlockSize(size)
        fit == find_fit(h, bsize)
        extendsize == IF bsize > CHUNKSIZE THEN bsize ELSE CHUNKSIZE
    IN  IF size = 0 THEN Result(h, NULL)
        ELSE Placed(IF fit # NULL THEN Result(h, fit)
                    ELSE extend_heap(h, extendsize \div WSIZE), bsize)

mm_free(h, ptr) ==
    IF ptr = NULL THEN h
    ELSE coalesce(PutTags(h, ptr, GET_SIZE(h, HDRP(ptr)), 0), ptr).heap

\* The size that bounds the copy counts the tags of the old block too.
MoveAll(m, ptr, size) ==
    LET oldsize == GET_SIZE(m.heap, HDRP(ptr))
        copysize == IF size < oldsize THEN size ELSE oldsize
    IN  IF m.ptr = NULL THEN m
        ELSE Result(mm_free(memmove(m.heap, m.ptr, ptr, copysize), ptr), m.ptr)

mm_realloc(h, ptr, size) == MoveAll(mm_malloc(h, size), ptr, size)
=============================================================================
