----------------------------- MODULE MmExplicit -----------------------------
(***************************************************************************)
(* The packages between mm_implicit.c and src/mm.c: mm_explicit.c has the  *)
(* free list of mm.c and the realloc of mm_implicit.c, and                 *)
(* mm_explicit_realloc.c and its clean copy have the realloc of mm.c       *)
(* except for one case.  Everything else in these files is as in mm.c.     *)
(***************************************************************************)
EXTENDS Mm

\* mm_explicit.c: always a new block.
MoveAll(m, ptr, size) ==
    LET oldsize == GET_SIZE(m.heap, HDRP(ptr))
    IN  MoveTo(m, ptr, IF size < oldsize THEN size ELSE oldsize)

ExplicitRealloc(h, ptr, size) == MoveAll(mm_malloc(h, size), ptr, size)

\* mm_explicit_realloc_clean.c: here the remainder of the block behind is
\* coalesced.
CleanReallocNext(h, ptr, newbsize) ==
    Result(ReleaseRest(Absorbed(h, ptr, newbsize), ptr), ptr)

CleanRealloc(h, ptr, size) ==
    ReallocCases(h, ptr, size, CleanReallocNext(h, ptr, BlockSize(size)))
=============================================================================
