------------------------------ MODULE MemTrace ------------------------------
(***************************************************************************)
(* The memory tracer: a library that is loaded in front of libc and stands *)
(* between a program and malloc, calloc, realloc and free.  Part 1 counts, *)
(* part 2 also lists the blocks, and part 3 also catches illegal calls of  *)
(* free and realloc, which the earlier parts pass on to libc.  The program *)
(* may call anything with any pointer.                                     *)
(***************************************************************************)
EXTENDS MemList, FiniteSetsExt

CONSTANTS
    Parts,          \* the parts to check, of 1, 2, 3
    Ptrs,           \* the addresses libc has for blocks
    Sizes,
    MaxCalls        \* the most calls of a program

NULL == 0

ASSUME TracerAssumption ==
    /\ Parts \subseteq {1, 2, 3}
    /\ Ptrs \subseteq Nat \ {NULL} /\ Sizes \subseteq Nat /\ MaxCalls \in Nat

VARIABLES
    part,
    list,
    n_alloc,    \* n_malloc + n_calloc + n_realloc
    n_allocb, n_freeb,
    live,       \* libc: the blocks in use and their sizes
    seen,       \* the pointers that the program has been given
    strays,     \* history: the addresses that the tracer has lost sight of,
                \* with the reason
    unlisted,   \* history: the bytes counted of requests that were not listed
    log,        \* what was reported of the last call
    calls,
    status      \* "loading" (list is NULL: before the constructor, or because
                \* new_list had no memory), "running", "done", or the signal
                \* of the program's end: "abort" (libc), "segv", "fpe"

vars == <<part, list, n_alloc, n_allocb, n_freeb, live, seen, strays, unlisted,
          log, calls, status>>

-----------------------------------------------------------------------------
(* libc: the results a call may have, with the blocks it leaves.  It may    *)
(* refuse any request, and move a block whether it grows or shrinks.       *)

\* The blocks lv and one of size bytes at q.
With(lv, q, size) == [p \in DOMAIN lv \cup {q} |-> IF p = q THEN size ELSE lv[p]]

LibMalloc(size) ==
    {[live |-> With(live, q, size), ptr |-> q] : q \in Ptrs \ DOMAIN live}
    \cup {[live |-> live, ptr |-> NULL]}

LibFree(ptr) == [p \in DOMAIN live \ {ptr} |-> live[p]]

LibRealloc(ptr, size) ==
    {[live |-> With(LibFree(ptr), q, size), ptr |-> q] :
        q \in {ptr} \cup (Ptrs \ DOMAIN live)}
    \cup {[live |-> live, ptr |-> NULL]}

-----------------------------------------------------------------------------
Quiet == [report |-> "none", of |-> NULL]

\* LOG_ILL_FREE where find returned NULL, LOG_DOUBLE_FREE otherwise.
Report(found, ptr) ==
    [report |-> IF found = {} THEN "illegal" ELSE "double", of |-> ptr]

Init ==
    /\ part \in Parts
    /\ list = new_list
    /\ n_alloc = 0 /\ n_allocb = 0 /\ n_freeb = 0
    /\ live = <<>> /\ seen = {} /\ strays = {} /\ unlisted = 0
    /\ log = Quiet /\ calls = 0 /\ status = "loading"

\* The constructor.
init ==
    /\ status = "loading" /\ status' = "running"
    /\ list' = new_list
    /\ UNCHANGED <<part, n_alloc, n_allocb, n_freeb, live, seen, strays, unlisted,
                   log, calls>>

Call ==
    /\ status \in {"loading", "running"} /\ calls < MaxCalls
    /\ calls' = calls + 1
    /\ UNCHANGED part

\* The program is given the result r of a request for size bytes.
Return(r, size) ==
    /\ live' = r.live
    /\ seen' = IF r.ptr = NULL THEN seen ELSE seen \cup {r.ptr}
    /\ unlisted' = IF r.ptr = NULL \/ status = "loading" THEN unlisted + size ELSE unlisted

\* The tracer loses sight of the blocks at ps.
Stray(ps, reason) == strays' = strays \cup ((ps \ {NULL}) \X {reason})

\* A block that libc has returned is listed.  The item is not checked: the
\* program ends if callocp had no memory for it.
Enter(lst, ptr, size) ==
    \/ /\ list' = IF part = 1 \/ ptr = NULL \/ status = "loading" THEN lst
                  ELSE alloc(lst, ptr, size)
       /\ UNCHANGED status
    \/ /\ part > 1 /\ ptr # NULL /\ status = "running"
       /\ list' = lst /\ status' = "segv"

\* The answer to a request for a new block.
Obtain(r, size) ==
    /\ Return(r, size)
    /\ Enter(list, r.ptr, size)
    /\ Stray(IF part > 1 /\ status = "loading" THEN {r.ptr} ELSE {}, "early")

Count(size) == n_alloc' = n_alloc + 1 /\ n_allocb' = n_allocb + size

Malloc(size) ==
    /\ Call /\ Count(size)
    /\ \E r \in LibMalloc(size) : Obtain(r, size)
    /\ log' = Quiet
    /\ UNCHANGED n_freeb

Calloc(nmemb, size) ==
    /\ Call /\ Count(nmemb * size)
    /\ \E r \in LibMalloc(nmemb * size) : Obtain(r, nmemb * size)
    /\ log' = Quiet
    /\ UNCHANGED n_freeb

\* libc is called with a pointer that is not in use, and aborts.
Abort(ptr) ==
    /\ status' = "abort"
    /\ log' = [report |-> "abort", of |-> ptr]
    /\ UNCHANGED <<live, seen, strays, unlisted>>

\* libc frees a block in use.
Release(ptr) ==
    /\ live' = LibFree(ptr)
    /\ log' = Quiet
    /\ UNCHANGED <<seen, strays, unlisted, status>>

\* Part 1 calls libc with whatever it is given.
ReallocUnlisted(ptr, size) ==
    /\ part = 1 /\ Call
    /\ \/ /\ ptr \notin DOMAIN live /\ ptr # NULL
          /\ Abort(ptr) /\ UNCHANGED <<n_alloc, n_allocb>>
       \/ /\ ptr \in DOMAIN live /\ size = 0
          /\ Release(ptr) /\ Count(size)
       \/ /\ ptr = NULL \/ (ptr \in DOMAIN live /\ size > 0)
          /\ \E r \in IF ptr = NULL THEN LibMalloc(size) ELSE LibRealloc(ptr, size) :
                Return(r, size)
          /\ Count(size) /\ log' = Quiet /\ UNCHANGED <<strays, status>>
    /\ UNCHANGED <<list, n_freeb>>

\* realloc(NULL, 0) is counted, but a block of no bytes is not listed.
ReallocNull(size) ==
    /\ part > 1 /\ Call
    /\ n_allocb' = n_allocb + size
    /\ \E r \in LibMalloc(size) :
          IF size > 0 THEN n_alloc' = n_alloc + 1 /\ Obtain(r, size)
          ELSE /\ Return(r, 0)
               /\ Stray({r.ptr}, IF status = "loading" THEN "early" ELSE "empty")
               /\ UNCHANGED <<n_alloc, list, status>>
    /\ log' = Quiet
    /\ UNCHANGED n_freeb

\* A block that is not listed, or freed: a new one is allocated, and part 3
\* reports the call.
ReallocInvalid(ptr, size) ==
    LET i == find(list, ptr)
    IN  /\ part > 1 /\ Call
        /\ \A it \in i : it.cnt = 0
        /\ Count(size)
        /\ \E r \in LibMalloc(size) : Obtain(r, size)
        /\ log' = IF part = 2 THEN Quiet ELSE Report(i, ptr)
        /\ UNCHANGED n_freeb

\* The old block is marked as freed, whether or not libc had the new one.
Grow_NoFreeb(i, size) ==
    /\ Count(size) /\ UNCHANGED n_freeb
    /\ \E r \in LibRealloc(i.ptr, size) :
          /\ Return(r, size)
          /\ Enter(dealloc(list, i.ptr), r.ptr, size)
          /\ Stray(IF r.ptr = NULL THEN {i.ptr} ELSE {}, "refused")

Grow(i, size) ==
    /\ Count(size) /\ n_freeb' = n_freeb + i.size
    /\ \E r \in LibRealloc(i.ptr, size) :
          /\ Return(r, size)
          /\ Enter(dealloc(list, i.ptr), r.ptr, size)
          /\ Stray(IF r.ptr = NULL THEN {i.ptr} ELSE {}, "refused")

\* The list is left alone, wherever the block is now.
Shrink(i, size) ==
    /\ \E r \in LibRealloc(i.ptr, size) :
          /\ Return(r, 0)
          /\ Stray(IF r.ptr \in {i.ptr, NULL} THEN {} ELSE {i.ptr, r.ptr}, "moved")
    /\ UNCHANGED <<list, n_alloc, n_allocb, n_freeb, status>>

ReallocListed(ptr, size) ==
    \E i \in find(list, ptr) :
        /\ part > 1 /\ Call
        /\ i.cnt # 0
        /\ \/ /\ ptr \notin DOMAIN live
              /\ Abort(ptr) /\ UNCHANGED <<list, n_alloc, n_allocb, n_freeb>>
           \/ /\ ptr \in DOMAIN live /\ size = 0
              /\ Release(ptr)
              /\ n_freeb' = n_freeb + i.size /\ list' = dealloc(list, ptr)
              /\ UNCHANGED <<n_alloc, n_allocb>>
           \/ /\ ptr \in DOMAIN live /\ size > 0 /\ size <= i.size
              /\ Shrink(i, size) /\ log' = Quiet
           \/ /\ ptr \in DOMAIN live /\ size > i.size
              /\ Grow(i, size) /\ log' = Quiet

\* free of NULL returns at once in every part.
FreeNull ==
    /\ Call
    /\ log' = Quiet
    /\ UNCHANGED <<list, n_alloc, n_allocb, n_freeb, live, seen, strays, unlisted, status>>

\* Parts 1 and 2 pass the call on.
FreeUnchecked(ptr) ==
    /\ part < 3 /\ Call
    /\ \/ /\ part = 1 \/ \A i \in find(list, ptr) : i.cnt <= 0
          /\ UNCHANGED n_freeb
       \/ /\ part = 2
          /\ \E i \in find(list, ptr) : i.cnt > 0 /\ n_freeb' = n_freeb + i.size
    /\ list' = IF part = 1 THEN list ELSE dealloc(list, ptr)
    /\ IF ptr \in DOMAIN live THEN Release(ptr) ELSE Abort(ptr)
    /\ UNCHANGED <<n_alloc, n_allocb>>

\* Part 3 reports what is not listed or already freed, and returns.
FreeInvalid(ptr) ==
    LET i == find(list, ptr)
    IN  /\ part = 3 /\ Call
        /\ \A it \in i : it.cnt = 0
        /\ log' = Report(i, ptr)
        /\ UNCHANGED <<list, n_alloc, n_allocb, n_freeb, live, seen, strays, unlisted,
                       status>>

FreeListed_TwiceFreed(ptr) ==
    \E i \in find(list, ptr) :
        /\ part = 3 /\ Call
        /\ list' = dealloc(list, ptr)
        /\ n_freeb' = n_freeb + i.size
        /\ IF ptr \in DOMAIN live THEN Release(ptr) ELSE Abort(ptr)
        /\ UNCHANGED <<n_alloc, n_allocb>>

FreeListed(ptr) ==
    \E i \in find(list, ptr) :
        /\ part = 3 /\ Call
        /\ i.cnt # 0
        /\ list' = dealloc(list, ptr)
        /\ n_freeb' = n_freeb + i.size
        /\ IF ptr \in DOMAIN live THEN Release(ptr) ELSE Abort(ptr)
        /\ UNCHANGED <<n_alloc, n_allocb>>

\* The program ends.  The average is over the calls counted, and the list is
\* walked without a check that there is one, except in part 1.
fini ==
    /\ status \in {"loading", "running"}
    /\ status' = CASE n_alloc = 0 -> "fpe"
                   [] n_alloc > 0 /\ part > 1 /\ status = "loading" -> "segv"
                   [] OTHER -> "done"
    /\ list' = IF status' = "done" THEN <<>> ELSE list
    /\ UNCHANGED <<part, n_alloc, n_allocb, n_freeb, live, seen, strays, unlisted,
                   log, calls>>

Next ==
    \/ \E size \in Sizes : Malloc(size) \/ ReallocNull(size)
    \/ \E nmemb, size \in Sizes : Calloc(nmemb, size)
    \/ \E ptr \in Ptrs \cup {NULL}, size \in Sizes : ReallocUnlisted(ptr, size)
    \/ \E ptr \in Ptrs, size \in Sizes :
           ReallocInvalid(ptr, size) \/ ReallocListed(ptr, size)
    \/ \E ptr \in Ptrs : FreeUnchecked(ptr) \/ FreeInvalid(ptr) \/ FreeListed(ptr)
    \/ FreeNull \/ init \/ fini

Spec == Init /\ [][Next]_vars

-----------------------------------------------------------------------------
(* Properties.  Three calls make the tracer lose sight of a block: a realloc *)
(* that libc refuses ("refused": the block is still in use but counts as   *)
(* freed), realloc(NULL, 0) ("empty": in use but not listed) and a realloc *)
(* to no more than the listed size that libc answers with another address  *)
(* ("moved": the old address stays listed, the new one is not); what is    *)
(* allocated before the constructor ("early") is not listed either.  The   *)
(* properties say that nothing else does, and how far the damage goes.     *)

InUse == {k \in DOMAIN list : list[k].cnt > 0}

Strayed == {s[1] : s \in strays}

\* The addresses whose items may be wrong about libc: part 3 never frees what
\* counts as freed or is not listed, so that no address is confused with it.
Adrift ==
    IF part = 3 THEN {s[1] : s \in {t \in strays : t[2] = "moved"}} ELSE Strayed

\* While a program runs, the list is ordered by address, and every address
\* that was not itself lost sight of is listed as allocated exactly if it is
\* in use in libc, whatever was freed, refused, moved and used again: once,
\* and with at least the size it has.
ListMatchesLibrary ==
    status = "running" /\ part > 1 =>
        /\ \A k \in DOMAIN list : k > 1 => list[k - 1].ptr < list[k].ptr
        /\ {list[k].ptr : k \in InUse} \ Strayed = DOMAIN live \ Strayed
        /\ \A k \in DOMAIN list : list[k].ptr \notin Strayed =>
             /\ list[k].cnt \in {0, 1}
             /\ k \in InUse => list[k].size >= live[list[k].ptr]

\* The bytes of the blocks that the list counts as allocated.
Listed == UNION {{list[k].ptr} \X (1..list[k].size) : k \in InUse}

\* Bytes allocated less bytes freed are the bytes of the listed blocks and of
\* the requests that were counted and not listed: realloc accounts for both
\* of its blocks.  In part 3 only a block that moved away from its item can
\* upset the counts.
BytesBalance ==
    status = "running" /\ part > 1 /\ Adrift = {} =>
        n_allocb - n_freeb = unlisted + Cardinality(Listed)

\* Part 3 keeps every misuse of free and realloc away from libc, unless the
\* address is that of a block that libc moved behind the tracer's back.
LibraryShielded == part = 3 /\ status = "abort" => log.of \in Adrift

\* Of an address that was not lost sight of, a call is reported as a double
\* free only if it was allocated and freed, and as illegal only if it never
\* was allocated: a block in use is freed.
ReportsTruthful ==
    [][calls' # calls /\ log'.of \notin Strayed =>
          /\ log'.report = "illegal" => log'.of \notin seen
          /\ log'.report = "double" => log'.of \in seen \ DOMAIN live]_vars
=============================================================================
