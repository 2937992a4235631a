------------------------------- MODULE Mdriver -------------------------------
(***************************************************************************)
(* mdriver.c: the driver that replays one trace of requests after the      *)
(* other against a malloc package, each in several passes: eval_mm_valid   *)
(* checks every block it is given, eval_mm_util finds out how much of the  *)
(* heap was needed, eval_mm_speed is timed, as often as fsecs sees fit.  A *)
(* trace is any sequence of requests that allocates an index before it     *)
(* frees it, and takes the smallest index first (indices are names); it is *)
(* chosen while the first pass runs.                                       *)
(***************************************************************************)
EXTENDS MmExplicit, Sequences, FiniteSets

CONSTANTS
    Packages,   \* the packages to run: a subset of AllPackages
    Ids,        \* the indices of a trace
    Sizes,      \* the sizes it asks for, in bytes
    MaxOps,     \* the most requests in all traces together
    MaxReplay,  \* a trace of more requests is not replayed
    MaxBefore   \* traces of more requests together are not followed by another

AllPackages == {"implicit", "explicit", "clean", "mm"}

\* A block is filled with the low byte of its index, which is compared as a
\* signed char: larger indices are left out.  So are sizes so large that the
\* computation of the block size wraps around.
ASSUME DriverAssumption ==
    /\ Packages \subseteq AllPackages
    /\ Ids \subseteq 0 .. 127
    /\ \A s \in Sizes : s \in Nat /\ s % WSIZE = 0 /\ s < SIZE_T - 4 * DSIZE
    /\ {MaxOps, MaxReplay, MaxBefore} \subseteq Nat

VARIABLES
    package,    \* the package that is linked with the driver
    heap,
    spent,      \* the requests of the traces before this one
    pass,       \* "start", "valid", "failed" after a request that failed,
                \* "util", "speed", "done", or "exit"
    ops,        \* the requests of the trace so far, up to MaxReplay
    at,         \* how many of them the pass has made
    held,       \* the indices that are allocated at this point of the trace
    blocks,     \* trace->blocks and trace->block_sizes
    request,    \* the request that was made and whose result is not checked
                \* yet, as a set of at most one
    ranges,     \* the extents of the payloads that eval_mm_valid knows of
    errors,
    total_size, max_total_size

vars == <<package, heap, spent, pass, ops, at, held, blocks, request, ranges,
          errors, total_size, max_total_size>>

mmi == INSTANCE MmImplicit

PkgInit(h) == IF package = "implicit" THEN mmi!mm_init(h) ELSE mm_init(h)
PkgMalloc(h, size) ==
    IF package = "implicit" THEN mmi!mm_malloc(h, size)
                            ELSE mm_malloc(h, size)
PkgFree(h, p) ==
    IF package = "implicit" THEN mmi!mm_free(h, p) ELSE mm_free(h, p)
PkgRealloc(h, p, size) ==
    CASE package = "implicit" -> mmi!mm_realloc(h, p, size)
      [] package = "explicit" -> ExplicitRealloc(h, p, size)
      [] package = "clean"    -> CleanRealloc(h, p, size)
      [] package = "mm"       -> mm_realloc(h, p, size)

-----------------------------------------------------------------------------
(* The range list: only which extents are in it matters.                   *)

Extent(lo, size) == [lo |-> lo, hi |-> lo + size - 1]

\* add_range accepts the block: aligned, inside the heap, and neither end
\* inside a known payload.
RangeOK(known, lo, size) ==
    LET r == Extent(lo, size)
    IN  /\ lo % 8 = 0
        /\ r.lo >= Start /\ r.hi <= heap.brk - 1
        /\ \A p \in known : /\ ~ (r.lo >= p.lo /\ r.lo <= p.hi)
                            /\ ~ (r.hi >= p.lo /\ r.hi <= p.hi)

remove_range_Keeps(known, lo) == known

remove_range(known, lo) == {p \in known : p.lo # lo}

-----------------------------------------------------------------------------
Byte(index) == index % 256
\* A char is signed.
Char(b) == IF b >= 128 THEN b - 256 ELSE b

Payload(lo, size) == {a \in Addr : lo <= a /\ a < lo + size}

memset(h, lo, size, b) ==
    [h EXCEPT !.mem = [a \in Addr |-> IF a \in Payload(lo, size) THEN b ELSE @[a]]]

\* The realloc check: the old contents compare equal to the index.
Preserved(lo, size, index) ==
    \A a \in Payload(lo, size) : Char(heap.mem[a]) = Byte(index)

NoBlocks == [i \in Ids |-> [ptr |-> NULL, size |-> 0]]

Init ==
    /\ package \in Packages
    /\ heap = mem_init
    /\ spent = 0 /\ pass = "start"
    /\ ops = <<>> /\ at = 0 /\ held = {}
    /\ blocks = NoBlocks
    /\ request = {} /\ ranges = {}
    /\ errors = 0 /\ total_size = 0 /\ max_total_size = 0

\* Every pass starts with an empty heap, over what the last one left there.
StartPass(next, onfail) ==
    /\ \E r \in {PkgInit(mem_reset_brk(heap))} :
           /\ heap' = r.heap
           /\ pass' = IF r.ptr = NULL THEN onfail ELSE next
    /\ at' = 0 /\ held' = {}

\* eval_mm_valid up to its loop.
StartValid ==
    /\ pass = "start"
    /\ StartPass("valid", "done")
    /\ errors' = IF pass' = "done" THEN errors + 1 ELSE errors
    /\ ranges' = {}
    /\ UNCHANGED <<package, spent, ops, blocks, request, total_size, max_total_size>>

\* The trace has this request next.
Recorded(op) ==
    /\ spent + at < MaxOps /\ at' = at + 1
    /\ ops' = IF at < MaxReplay THEN Append(ops, op) ELSE <<>>

Op(type, i, size) == [type |-> type, index |-> i, size |-> size]

\* A request failed: malloc_error, and eval_mm_valid returns 0.  The blocks of
\* the indices I stay in the heap.
Failure(h, I) ==
    /\ errors' = errors + 1
    /\ pass' = "failed"
    /\ heap' = h
    /\ request' = {} /\ held' = I

\* The calls of mm_malloc and mm_realloc; the result is checked next.
ValidAlloc(i, size) ==
    /\ pass = "valid" /\ request = {} /\ i \notin held
    /\ \A j \in Ids \ held : i <= j
    /\ Recorded(Op("ALLOC", i, size))
    /\ \E r \in {PkgMalloc(heap, size)} :
           \/ /\ r.ptr = NULL
              /\ Failure(r.heap, held)
              /\ UNCHANGED <<blocks>>
           \/ /\ r.ptr # NULL
              /\ heap' = r.heap
              /\ held' = held \cup {i}
              /\ blocks' = [blocks EXCEPT ![i] = [ptr |-> r.ptr, size |-> size]]
              /\ request' = {[type |-> "ALLOC", index |-> i, oldp |-> NULL,
                              oldsize |-> 0]}
              /\ UNCHANGED <<pass, errors>>
    /\ UNCHANGED <<package, spent, ranges, total_size, max_total_size>>

\* A realloc to nothing frees the block, in the packages that look for it; its
\* NULL is an error for the driver.
HeldAfterNull(i, size) ==
    IF size = 0 /\ package \in {"clean", "mm"} THEN held \ {i} ELSE held

ValidRealloc(i, size) ==
    /\ pass = "valid" /\ request = {} /\ i \in held
    /\ Recorded(Op("REALLOC", i, size))
    /\ \E r \in {PkgRealloc(heap, blocks[i].ptr, size)} :
           \/ /\ r.ptr = NULL
              /\ Failure(r.heap, HeldAfterNull(i, size))
              /\ UNCHANGED <<blocks>>
           \/ /\ r.ptr # NULL
              /\ heap' = r.heap
              /\ blocks' = [blocks EXCEPT ![i] = [ptr |-> r.ptr, size |-> size]]
              /\ request' = {[type |-> "REALLOC", index |-> i,
                              oldp |-> blocks[i].ptr, oldsize |-> blocks[i].size]}
              /\ UNCHANGED <<pass, errors, held>>
    /\ UNCHANGED <<package, spent, ranges, total_size, max_total_size>>

\* add_range, the comparison with the old contents, and memset.
ValidCheck ==
    \E q \in request :
        LET b == blocks[q.index]
            known == IF q.type = "REALLOC" THEN remove_range(ranges, q.oldp)
                                           ELSE ranges
            kept == IF b.size < q.oldsize THEN b.size ELSE q.oldsize
            inrange == RangeOK(known, b.ptr, b.size)
        IN  /\ ranges' = IF inrange THEN known \cup {Extent(b.ptr, b.size)}
                                    ELSE known
            /\ IF inrange /\ Preserved(b.ptr, kept, q.index)
               THEN /\ heap' = memset(heap, b.ptr, b.size, Byte(q.index))
                    /\ request' = {}
                    /\ UNCHANGED <<pass, errors, held>>
               ELSE Failure(heap, held)
            /\ UNCHANGED <<package, spent, ops, at, blocks, total_size, max_total_size>>

ValidFree(i) ==
    /\ pass = "valid" /\ request = {} /\ i \in held
    /\ Recorded(Op("FREE", i, 0))
    /\ ranges' = remove_range(ranges, blocks[i].ptr)
    /\ heap' = PkgFree(heap, blocks[i].ptr)
    /\ held' = held \ {i}
    /\ UNCHANGED <<package, spent, pass, blocks, request, errors, total_size,
                   max_total_size>>

\* The trace ends, eval_mm_valid returns 1, and eval_mm_util starts.
StartUtil ==
    /\ pass = "valid" /\ request = {} /\ at <= MaxReplay
    /\ StartPass("util", "exit")
    /\ total_size' = 0 /\ max_total_size' = 0
    /\ UNCHANGED <<package, spent, ops, blocks, request, ranges, errors>>

\* fsecs calls eval_mm_speed again and again.
StartSpeed ==
    /\ pass \in {"util", "speed"} /\ at = Len(ops)
    /\ StartPass("speed", "exit")
    /\ UNCHANGED <<package, spent, ops, blocks, request, ranges, errors, total_size,
                   max_total_size>>

\* What a request of the second or the third pass calls.
Called(op) ==
    CASE op.type = "ALLOC"   -> PkgMalloc(heap, op.size)
      [] op.type = "REALLOC" -> PkgRealloc(heap, blocks[op.index].ptr, op.size)
      [] op.type = "FREE"    ->
             Result(PkgFree(heap, blocks[op.index].ptr), NULL)

\* app_error ends the driver.  eval_mm_speed leaves block_sizes alone.
Replay(op) ==
    /\ at' = at + 1
    /\ \E r \in {Called(op)} :
           /\ heap' = r.heap
           /\ IF op.type = "FREE"
              THEN held' = held \ {op.index} /\ UNCHANGED <<pass, blocks>>
              ELSE IF r.ptr = NULL
              THEN pass' = "exit" /\ UNCHANGED <<held, blocks>>
              ELSE /\ blocks' = [blocks EXCEPT ![op.index] =
                                    [ptr |-> r.ptr,
                                     size |-> IF pass = "util" THEN op.size
                                              ELSE @.size]]
                   /\ held' = held \cup {op.index}
                   /\ UNCHANGED pass

Resized(op) ==
    CASE op.type = "ALLOC"   -> op.size
      [] op.type = "REALLOC" -> op.size - blocks[op.index].size
      [] op.type = "FREE"    -> - blocks[op.index].size

\* eval_mm_util also keeps count of what the trace holds.
Counted(op) ==
    /\ total_size' = total_size + Resized(op)
    /\ max_total_size' = IF total_size' > max_total_size THEN total_size'
                                                        ELSE max_total_size

ReplayStep ==
    /\ pass \in {"util", "speed"} /\ at < Len(ops)
    /\ Replay(ops[at + 1])
    /\ \/ pass = "util" /\ Counted(ops[at + 1])
       \/ pass = "speed" /\ UNCHANGED <<total_size, max_total_size>>
    /\ UNCHANGED <<package, spent, ops, request, ranges, errors>>

\* free_trace: the last pass is over, or there are none after a request that
\* failed.
EndTrace ==
    /\ pass = "failed" \/ (pass = "speed" /\ at = Len(ops))
    /\ pass' = "done"
    /\ UNCHANGED <<package, heap, spent, ops, at, held, blocks, request, ranges,
                   errors, total_size, max_total_size>>

\* read_trace: the next trace is run over what the last one left in the heap.
NextTrace ==
    /\ pass = "done" /\ pass' = "start"
    /\ spent + at <= MaxBefore
    /\ spent' = spent + at
    /\ ops' = <<>> /\ at' = 0 /\ held' = {} /\ blocks' = NoBlocks
    /\ total_size' = 0 /\ max_total_size' = 0
    /\ UNCHANGED <<package, heap, request, ranges, errors>>

Next ==
    \/ StartValid \/ StartUtil \/ StartSpeed \/ EndTrace \/ NextTrace
    \/ \E i \in Ids, size \in Sizes : ValidAlloc(i, size) \/ ValidRealloc(i, size)
    \/ \E i \in Ids : ValidFree(i)
    \/ ValidCheck \/ ReplayStep

Spec == Init /\ [][Next]_vars

-----------------------------------------------------------------------------
(* Properties.                                                             *)

\* The package has been started, and has perhaps failed a request.
Running == pass \in {"valid", "failed", "util", "speed"}

\* Whatever the order of requests, the blocks tile the heap from the prologue
\* to the epilogue at its very end, each with equal tags at both ends (the
\* cases of coalesce, place and mm_realloc).
HeapTiled ==
    Running =>
        LET bs == Blocks(heap) \cup {heap.prol}
        IN  /\ \A bp \in bs : GET(heap, HDRP(bp)) = GET(heap, FTRP(heap, bp))
            /\ heap.brk \in {NEXT_BLKP(heap, bp) : bp \in bs}
            /\ GET(heap, HDRP(heap.brk)) = PACK(0, 1)

\* No two free blocks are neighbours, although one case of mm_realloc does
\* not coalesce: freed space is never lost to fragmentation by tags.
NoFreeNeighbours ==
    Running => \A bp \in FreeBlocks(heap) :
                   NEXT_BLKP(heap, bp) \notin FreeBlocks(heap)

\* The list from root_bp to the prologue has every free block once, and the
\* links back agree with the links forward.
FreeListExact ==
    Running /\ package # "implicit" =>
        LET n == Cardinality(FreeBlocks(heap))
            nth[k \in 0 .. n] == IF k = 0 THEN heap.root
                                 ELSE GET(heap, SUCCP(nth[k - 1]))
        IN  /\ {nth[k] : k \in 0 .. n - 1} = FreeBlocks(heap)
            /\ nth[n] = heap.prol
            /\ n > 0 => GET(heap, PREDP(nth[0])) = NULL
            /\ \A k \in 1 .. n : GET(heap, PREDP(nth[k])) = nth[k - 1]

\* Every allocated block belongs to an index that is allocated in the trace,
\* and has room for it: nothing leaks and nothing is handed out twice.  A
\* request that fails at the heap limit leaves all blocks as they were.
NothingLeaks ==
    Running =>
        /\ Blocks(heap) \ FreeBlocks(heap) = {blocks[i].ptr : i \in held}
        /\ \A i, j \in held : blocks[i].ptr = blocks[j].ptr => i = j
        /\ pass # "speed" => \A i \in held :
               blocks[i].size <= GET_SIZE(heap, HDRP(blocks[i].ptr)) - DSIZE

\* eval_mm_valid finds an error only when a request could not be met.
ChecksPass ==
    [][request # {} => errors' = errors]_vars

\* A trace that eval_mm_valid has run can be run again over the garbage that
\* it left in the heap, and never needs more than the heap it was given: the
\* later passes end without app_error, and the utilization is at most 1.
ReplaysSucceed ==
    /\ pass # "exit"
    /\ pass = "util" => max_total_size <= mem_heapsize(heap)

\* The package keeps the promises of a memory allocator to eval_mm_valid.
Contents(i) ==
    [k \in 1 .. blocks[i].size \div WSIZE |->
        heap.mem[blocks[i].ptr + WSIZE * (k - 1)]]

Promise == INSTANCE Allocator WITH
    Lo <- Start, Hi <- Start + MAX_HEAP, WordSize <- WSIZE,
    held <- [i \in (IF pass \in {"valid", "failed"} THEN held ELSE {}) |->
                [lo |-> blocks[i].ptr, data |-> Contents(i)]],
    fresh <- {q.index : q \in request}

KeepsPromise == Promise!Spec
=============================================================================
