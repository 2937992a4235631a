# A verification project for sysprog2021s

The repository archives six system-programming labs: a job-control shell, a
caching web proxy, a dynamic memory allocator, a memory tracer, a cache
simulator with a matrix transpose, and two kernel modules.  They are separate
programs; this directory models them one by one, in TLA+, checks the models
with TLC and proves the central results with TLAPS.

## 1. Inventory

| component | state | operations | what is hard | what makes it correct |
|---|---|---|---|---|
| tiny shell (`shlab-handout/tsh.c`) | job list, `nextjid`, message flags and data, signal mask; the kernel's children and pending signals | read/eval loop, `bg`/`fg`, `waitfg`, handlers of SIGCHLD, SIGINT, SIGTSTP, SIGQUIT | handlers interrupt main and one another at any instruction the mask allows; SIGCHLDs coalesce; slots are read after an unblock | the list mirrors the children, no report is lost, one foreground job and main waits for it, the prompt returns |
| proxy cache (`proxylab-handout/cache.c`) | doubly linked list of objects, room left, reader-writer lock | `cache_lookup`, `cache_add`, `cache_evict`, `move_to_head` | a lookup releases the read lock and takes the write lock, holding an item across the gap; eviction at the size limit | room accounting, a hit returns the object of its URL, every lookup ends, no freed item is used |
| proxy threads (`proxy.c`), robust I/O (`csapp.c`) | one thread per connection, read buffers | accept, parse, look up, fetch, forward, add | threads of two clients of one URL; short reads, a size limit inside the copy loop | complete objects only, every connection is closed |
| malloc package (`malloclab-handout/src/mm.c`, `memlib.c`) | the heap words: boundary tags and free-list links, the list root, the break | `mm_init`, `mm_malloc`, `mm_free`, `mm_realloc`, `extend_heap`, `coalesce`, `place`, `mem_sbrk` | long sequences of calls, the four coalescing cases, the growing realloc at the end of the heap | blocks tile the heap, tags agree, the free list holds exactly the free blocks, payloads are disjoint and preserved |
| malloc driver (`mdriver.c`) | the ranges handed out | trace replay, range checks | passes and traces run over what earlier ones left in the heap; requests that fail at the limit | it accepts an allocator only if the ranges are valid |
| memory tracer (`linklab-handout/part*/memtrace.c`, `utils/memlist.c`) | counters, list of blocks with reference counts | interposed `malloc`, `calloc`, `realloc`, `free`, constructor, destructor | realloc as free plus allocation, foreign and double frees | counts and list agree with the calls |
| cache simulator (`cachelab_handout/csim.c`), transpose (`trans.c`) | lines with tag, valid bit and use counter | load, store, modify | eviction order, fresh lines, counters | LRU order; the transpose is the transpose |
| cache lab tools (`test-trans.c`, `tracegen.c`, `cachelab.c`, `driver.py`) | the trace and its markers, the function list, the result | trace, validate, filter, simulate, report | an alarm at any time; only the accesses between the markers count | a correct transpose within the limits gets full marks |
| kernel modules (`kernellab-handout/ptree`, `paddr`) | one static buffer; the page tables walked | debugfs write and read | two processes using one file | the output belongs to the last write; the walk follows the tables |

`PROJECT.json` lists every component, the ones left out too, and every hazard
at the line where it bites.

## 2. The tiny shell

### Modules

* `JobList` - the array of `MAXJOBS` slots and the routines on it (`clearjob`,
  `initjobs`, `maxjid`, `fgpid`, `getjobpid`, `getjobjid`, `addjob`,
  `deletejob`) as operators.  A search returns the lowest matching slot, as
  the loops do; `addjob` and `deletejob` return the new array and the new
  `nextjid`.  Command lines (text) are left out.
* `Tsh` - the shell.  Extends `JobList`.
* `TshInvariant` - the inductive invariant.
* `TshProofs` - the proofs; its first part is about the operators of `JobList`.
* `MCTsh` - the instances for TLC.

### How the model corresponds to the code

A *context* is the main program or one of the handlers.  `cur` is the context
that runs, `ret[h]` the one that handler `h` interrupted, `mask[c]` the signal
mask while `c` runs.  `Signal` installs handlers with an empty `sa_mask`, so a
handler is entered with the interrupted context's mask plus its own signal;
its return reinstates the old mask.  `sigsuspend` is the control point
`wf_suspend`, at which `Blocked` is the mask that `waitfg` built, and from
which a delivered signal leads back to the test of the loop.

The main program's control points follow the code between two calls that
matter to someone else: every `Sigprocmask`, `Fork`, `addjob`, `Kill`, every
read of the job list that is not protected by a mask, and the reads and
writes of the message flags.  `eval` is `ReadRun`, `EvalBlock`, `EvalFork`,
`EvalAddjob`, `EvalUnblock`; `do_bgfg` is `ReadBgfg` (the lookup, with SIGCHLD
still unblocked) and the `Bgfg...` actions; `waitfg` the `Waitfg...` actions;
the end of `eval` is `MsgStop`, `ClearStop`, `MsgTerm`, `EvalReturn`.
`sigchld_handler` is `ChldWaitpid`, `ChldBlock`, `ChldUpdate`, `ChldUnblock`
around its loop and `ChldReturn` out of it.  `sigint_handler` and
`sigtstp_handler` are `ForwardLookup` and `ForwardKill`; `Kill`'s and `Fork`'s
`unix_error` exits are actions of their own.

The kernel is external: `proc[p]` is the state of child `p` (see the table in
the module), `waitpid` reports zombies and new stops, `kill(-p, ...)` fails
until `p` has called `setpgid` and after it has been reaped, every change of
state raises SIGCHLD, and pending signals do not queue.  Children run, exit
(also because `execve` failed), stop, continue and are killed at any time.  A
child is not killed before its `setpgid`.

Left out: the text of command lines, output, `errno`, argument parsing beyond
what `eval` tells apart, and failures of `setpgid` and of the `sigset`
wrappers, which cannot fail with the arguments used.

### Runs

| run | instance | what it shows |
|---|---|---|
| `tsh_jobs` | 2 processes, 2 slots, ctrl-c | `JobsAreChildren`, `ChildrenListed`, `ForegroundAwaited`, `PromptUnmasked`, `JobTransitions` |
| `tsh_full` | 2 processes, 1 slot, ctrl-z and SIGQUIT | `ListEditExclusive`, `BackgroundUnharmed`, `NoLostSigchld` and the inductive invariant `IInv`, with a full list, coalescing SIGCHLDs and nested handlers |
| `tsh_live` | 1 process, 1 slot, ctrl-c, fairness | `ZombiesReaped`, `PromptReturns` |
| `tsh_waitfg` | violation | `waitfg(0)` never returns |

Bounds.  `JidBound` stops new jobs once an ID could exceed it; it is the only
bound on a counter and is at least `MAXJOBS`, so the wrap of `nextjid` and the
growth past `MAXJOBS` both happen.  Two processes are enough for the
properties about two jobs (two foreground jobs, a stranger's slot, coalescing
signals); the three handlers of outside signals are spread over the runs, each
together with `sigchld_handler`.  Processes are symmetric; symmetry is used in
safety runs only.

Five more behaviours of the code are steps of the model and stated by no
property: ctrl-c or ctrl-z that falls between `waitpid` and the list update, or
between `addjob` and the child's `setpgid`, makes `kill` fail, and the `Kill`
wrapper then ends the shell (`ForwardKillFails`); a stopped background job goes from BG to ST, which the comment at
`tsh.c:31-36` does not list; a second report of `sigchld_handler` replaces the
message data of the first before `eval` prints it; SIGQUIT waits until the
foreground job leaves `waitfg`; with four or more slots `nextjid` wraps to an ID
that is still in use.

Fairness.  The kernel runs the current context and delivers pending unblocked
signals: strong fairness on main's steps, on each handler and on delivery,
because a signal may interrupt a context again and again but the context makes
progress between two signals.  Nothing is assumed of the user or of the
children: no key is ever pressed, no line typed, no child ever ends unless it
chooses to.

### Proofs

`TshProofs` proves, for every set of processes, every number of slots, every
`JidBound` and every set of keys, that `IInv` is an invariant of `Spec`, and
from it all the safety properties of `tsh_jobs` and `tsh_full`, and that there
is at most one foreground job.  Assumptions: 0 is no process ID, `MAXJOBS` is
positive, `JidBound >= MAXJOBS`, the keys are signals other than SIGCHLD.

`ChildrenListed` is about a shell with a slot for every process it may have
(`AllChildrenListed`).  Its invariant `ListedInv` is separate: every child is
listed, except the one that `eval` has just forked, and a child that
`sigchld_handler` is deleting is gone.  `addjob` succeeds because a full list
would hold as many processes as there are, all different by `ListInv`, so the
new one too: a comparison of cardinalities.

Why the properties are not inductive as they stand, and what `IInv` adds:

* `ContextInv` - the active handlers form a stack with `main` at the bottom.
  With three handlers this is: nobody returns to the running context, no two
  return to the same one, no cycle.
* `MaskInv` - masks grow towards the top of that stack, so that a pending
  signal whose handler is active is blocked (lemma `ActiveBlocked`: a handler
  is never entered twice), SIGCHLD stays blocked in main's critical sections
  whatever interrupts them, and `sigchld_handler` updates the list on top of
  the stack.
* `LocalInv`, `ListInv` - between `fork` and `addjob` the new process is not
  listed and not reaped; no process is listed twice.
* `FgInv` - a foreground slot is the slot main is about to wait for, also when
  `fg` marked a slot that had just been cleared.
* `JidInv`, `PrevInv` - room for the next job ID; what `prev` restores.

One lemma per conjunct shows that a step preserves it, with one case per
action that can disturb it; `UpdateEffect`, `AddEffect` and `EditEffect` say
once what the three writers of the job list do to its slots, from the lemmas
on the array routines.

Only model-checked: liveness under fairness, and the violation.

## 3. The caching proxy

### Modules

* `CacheList` - the list of `cache.c` on a heap of items: `cache_init`,
  `move_to_head`, `cache_evict` and the insertion of `cache_add` as operators
  from a cache to a cache.
* `Proxy` - the threads of `proxy.c` on that list and its lock.
* `ProxyInvariant` - the inductive invariants.
* `ProxyProofs` - the proofs; its first part is about the operators of
  `CacheList`.
* `MCProxy` - the instances for TLC.

### How the model corresponds to the code

`pc[t]` is the control point of thread `t` in `run_thread`, `cache_lookup` and
`cache_add`; the header of `Proxy` lists them.  The lock is `readers` and
`writer`.  A lookup takes one step per item it passes; the copy of a hit and
the unlock are one step, the relock, the move and the unlock another; an
addition takes the lock, evicts one item per step, and inserts.  `cursor[t]` is
the pointer `item` of `cache_lookup`, kept over the gap between the two locks
as in the code.

Memory is modelled where the code's errors live in it.  Items are addresses;
`live` are the allocated ones, and an address may be handed out again once
freed.  A freed item keeps its links (the allocator overwrites only the words
of `tag` and `object`), so a dangling pointer leads on to where it led before;
reading its tag may also be fatal (`LookupFreed`).  Objects are byte sequences:
`strcpy` stops at a NUL, and what follows is `Junk`.  Sizes are `size_t`: the -1
of a failed `Rio_readnb` is `SIZE_T - 1`, and `Fits` adds modulo `SIZE_T`.  When
the program dereferences NULL or copies outside its buffers, `fault` says how
and the model stops: nothing can be said of the program after that.

Left out: the text of requests, URLs and header lines (a request is a URL that
is served or not), the write end of sockets (results of `rio_writen` are
ignored by the code), `cache_deinit` (never reached), failures of `Malloc` and
of thread creation.

### Runs

| run | instance | what it shows |
|---|---|---|
| `proxy` | 2 threads, 5 connections; one URL with plain responses, one of them empty, and one whose responses have a NUL or are too long | `RepliesAreResponses`, `HitIsOfUrl`, `RoomExact`, `ReadersFreezeCache` and the inductive invariant `ReplyInv` |
| `proxy_live` | 2 threads, 4 connections, 1 URL, fairness | `CacheCallsReturn` |
| `proxy_cycle` | violation | a lookup never ends once the list is a cycle |

Three more defects are steps of the model.  No item has a `prev`, so the first
eviction leaves the tail NULL and the second dereferences it (`AddEvictNull`,
`cache.c:74`).  `objectlen` counts only the chunks that fitted, so the test
before `cache_add` is always true: a response above `MAX_OBJECT_SIZE` is cached
with a hole and sent to later clients of its URL (`Receive`, `proxy.c:179-184`).
An object that fills its buffer exactly has no terminating NUL, and `strcpy`
runs on (`AddOverrun`, `cache.c:61`).  `RepliesAreResponses` is therefore about
the plain URLs, whose responses are shorter than the object buffer and have no
NUL; it says that the others, in the same cache, do not harm them.

The passing runs say what still holds although the links of the list are soon
wrong: `prev` is NULL in every item, because `move_to_head` never sets it, so
nothing is ever unlinked.  The room is accounted for, a lookup copies only from
an allocated item of its URL, and clients of plain URLs are sent whole responses.

Bounds.  `MaxConns` bounds the connections, and with it the additions, so
`Items` (at least as many) is never exhausted.  An object buffer of 3 bytes and
a read buffer of 2 give a response of 5 bytes whose second chunk does not fit
and whose third does; the cache holds 4 bytes, so that the second or third
object evicts.  Five connections are one addition, a hit that is held up between
its two locks, an eviction and a reuse of its item by others, and a lookup after
all that.  `proxy_cycle` needs three URLs: two cached, and one to look for.

Fairness.  Weak fairness of each thread's steps in the cache: a runnable thread
runs, and a lock that stays free is granted.  With finitely many connections
readers end, so a waiting writer finds the lock free; for an endless stream of
readers the lock promises nothing.  Nothing is assumed of clients and servers.

### Proofs

`ProxyProofs` proves for all sets of threads, URLs, items and responses and all
sizes:

* `CacheInvariance` - `CacheInv` is inductive.  It adds to `TypeOK` and
  `HitIsOfUrl` that the lock is held exactly by the threads whose control is in
  a locked section, a writer alone (`LockInv`), and that the item of a hit is an
  item (`LocalInv`).  `HitIsOfUrl` is preserved because a thread at `copy` is a
  reader, and no step changes the cache while there are readers (lemma
  `Frozen`), from which `ReadersFreeze` follows as well.
* `ReplyInvariance`, `RepliesWhole` - `RepliesAreResponses`, whatever responses
  the URLs that are not plain have.  `ReplyInv` says what is where: the cached
  objects of plain URLs are whole, and a thread that receives for one has sent
  a prefix of a response and holds the same in its object buffer.  A broken
  connection is survived only before the first byte: after it the `size_t` sum
  wraps (`SizeArithmetic`).

* `RoomIsExact` - `RoomExact`, from `CacheInv` and the same statement.  The
  bytes stored are counted as the cardinality of a set of (item, byte) pairs, so
  that an insertion adds, and an eviction takes away, a set as large as the
  object.

The first part of `ProxyProofs` shows what the three writers do to tags and
objects whatever the links are.  Only model-checked: liveness and the violation.

## 4. The malloc package and its driver

### Modules

* `Memlib` - the simulated heap: `mem_sbrk` up to `MAX_HEAP`, `mem_reset_brk`
  (which clears nothing), and the macros on words that all packages share
  (`GET`, `PUT`, `HDRP`, `FTRP`, `NEXT_BLKP`, `PREV_BLKP`, `PACK`).
* `Mm` - `src/mm.c`, an operator per function from a heap to a heap and a
  pointer; `mm_realloc` has an operator per case.  `mm-final.c` is the same
  text.  `MmExplicit` extends it by what is different in `mm_explicit.c`,
  `mm_explicit_realloc.c` and its clean copy; `MmImplicit` is `mm_implicit.c`.
* `Mdriver` - `mdriver.c`, which links one of the packages and runs one trace
  after the other, each in three kinds of passes: `eval_mm_valid`,
  `eval_mm_util`, and `eval_mm_speed` as often as `fsecs` calls it.
* `Allocator` - the abstract specification: what a malloc package promises to a
  program, wherever it puts the blocks.
* `MdriverInvariant` - the inductive invariant; `MdriverProofs` - the proofs.
* `MCMdriver` - the instance.

### How the model corresponds to the code

The heap is a function from word addresses to words, with the break, the root
of the free list and the prologue; nothing else is kept, so that a wrong tag or
link leads the walks astray as in the code.  Sizes are `size_t` (`% SIZE_T`).
`ValidAlloc`, `ValidRealloc` and `ValidFree` call the package, `ValidCheck` is
`add_range`, the comparison of the old contents and the `memset`; a call and its
check are two steps so that the abstract allocator can see the block before it
is filled.  The trace is chosen while the first pass runs: any sequence of
requests in which an index is allocated before it is resized or freed.  Traces
of up to `MaxReplay` requests are then run by the other passes, over the
garbage of the first, and `NextTrace` starts another trace over what they left.

A request that fails ends `eval_mm_valid`: `Failure` leaves the heap and the held
indices as they are, in the pass "failed", so that the properties look at what
the package has left behind.  `mm_realloc` to 0 bytes, in the two packages that
test for it, frees the block and returns NULL, which the driver takes for an
error (`HeldAfterNull`).

### Run `malloc`

Three indices, which differ from all tags and pointers so that a payload is not
mistaken for one, six requests in all traces together, sizes from 0 to more than
the heap, for all four packages: 456,000 states.

* `HeapTiled`, `NoFreeNeighbours`, `FreeListExact` - the representation:
  blocks tile the heap with equal tags, no two free blocks are neighbours
  (although one case of `mm_realloc` does not coalesce), the list has exactly
  the free blocks and its links agree both ways.
* `NothingLeaks` - every allocated block belongs to an index of the trace, and
  each index has its block.  The states after a failed request count as well:
  when `mem_sbrk` has failed inside `mm_malloc` or `mm_realloc`, all blocks are
  where they were.
* `ChecksPass`, `ReplaysSucceed` - the driver reports an error only when a
  request could not be met; what ran once runs again on the dirty heap.
* `KeepsPromise` - the refinement: `Mdriver` with any of the packages
  implements `Allocator`, under the mapping that takes the words of each
  allocated payload for its data.  It catches what the driver's own test of
  ranges does not: `add_range` looks at the two ends of a payload only.  After a
  failed request the blocks and their data are still there.

Bounds.  A heap of 120 bytes with chunks of 32 has room for four blocks; every
case of `coalesce`, `place` and `mm_realloc` happens (except for a null pointer,
which the driver never passes to `mm_realloc`), and the limit is met, by
`mm_malloc` and by the moving case of `mm_realloc`.  Traces of up to three
requests are replayed (`MaxReplay`).  Another trace follows when the ones before
it had at most two requests (`MaxBefore`): a longer trace over the garbage of a
short one, of one that failed, or of an empty one.

A loop of the code is a recursive function of the number of steps taken, up to
`HeapUnits`: a heap in order has fewer blocks than double words, so the loops of
`find_fit` end before that (the proofs show it).  In a heap that is not in order
a loop could go on; there the model stops it, and the properties above are
already violated.

Not covered: an index whose low byte is 128 or more fails the driver's
comparison, because `char` is signed (`mdriver.c:658`), and sizes within four
double words of `SIZE_MAX` make the block size wrap (`mm.c:111`); the assumptions
exclude both.  `read_trace`, the passes over libc and the scores are not modelled.

### Proofs

`MdriverProofs` proves, for every size of the heap and of a chunk, every set of
indices and sizes and traces of any length, that `DriverInv` of
`MdriverInvariant` is an invariant of `Spec` with each of the four packages, and
from it `HeapTiled`, `NoFreeNeighbours`, `FreeListExact`, `NothingLeaks`,
`ChecksPass` and the refinement `KeepsPromise`.  The assumptions are those of
`Memlib` and `Mdriver`: the heap starts on a double word, the heap and the chunk
are whole numbers of words and double words, `size_t` can count the heap, the
indices are below 128 and the sizes are whole words that do not wrap.

The properties read the heap by walking it, so none of them is inductive.
`DriverInv` describes the heap without a walk, by ghosts: the set `D` of the
blocks, the prologue included, their sizes `sz`, the allocated ones `al`.

* `Layout` - the blocks lie one behind the other from the prologue to the break;
  stated between neighbours only, with an order, so that a change of one or two
  blocks is a change of one or two facts.
* `Tagged` - the words at both ends of a block are its size and its bit; the
  epilogue is 1.
* `Apart` - no free block follows a free block.
* `Linked` - there is a numbering of the free blocks, from the root to the
  prologue, along which the links agree both ways (not for `mm_implicit.c`).
* `Kempt` - such ghosts exist, and the allocated blocks are exactly those of the
  held indices, each its own, with room for what was asked for.
* `CheckInv` - what `eval_mm_valid` knows are the extents of the held blocks,
  and the words of each payload are what it was filled with; between a call and
  its check this holds of all blocks but one, and of the part of that one that a
  realloc must keep.
* `TraceInv` - the held indices are those that the trace leads to, which is why
  a replay frees and resizes only what it has allocated.

The proof goes in layers.  Three lemmas change a layout (`LayoutJoined`,
`LayoutCut`, `LayoutGrown`); `TiledJoined` and `TiledSplit` do the same to the
tags; `CutsOut` and `SetsRoot` are what `cut_out` and `set_root` do to the chain.
A call is then followed from the state in which one block is loose, neither
allocated nor in the list (`Loose`, `Works`), to a heap in order (`Releases`, for
all four cases of `coalesce`).  Each function has a contract, from
`FreeContract`, `PlaceContract`, `ExtendContract` and `FitContract` to
`MallocContract`, `InitContract` and the cases of `mm_realloc`
(`ShrinkContract`, `PrevContract`, `NextContract`, `MoveContract`), with the
words that survive the call (`Kept`); `PlainFree` to `PlainRealloc` are those of
`mm_implicit.c`.  A request that fails leaves the heap as it was (`ExtendedFails`,
`MallocFails`, `CasesFail`, `PkgMallocFails`, `PkgReallocFails`), or with the
block freed that was to be resized to nothing; either way it is `Kempt` for the
indices that `Failure` holds.  The driver uses the packages through their contracts only.
Last, the walks are shown to find the ghosts (`BlocksAre`, `ChainLength`).

For the refinement, `SizesInv` adds that the held sizes are among `Sizes`.
`Promise!Malloc` needs that a payload is apart from all others, which is
`Layout` and `Kempt`; that nothing else changed its contents is `CheckInv` before
and after.

`DriverInv` quantifies over all layouts, so TLC cannot evaluate it as it stands.
The parts were checked on the instance of the run with `D`, `sz`, `al` and the
chain computed from the heap by the walks, before they were proved.

`ReplaysSucceed` is only model-checked: it compares two runs of the package over
different garbage (no word that steers a call is garbage, and the same requests
give the same addresses), where an invariant speaks of one; and it adds up
sizes.

## 5. The memory tracer

`MemList` is the ordered list of `utils/memlist.c`; `MemTrace` has the four
interposed functions of the three parts, with libc beside them.  Part 1 counts,
part 2 lists, part 3 also reports.  The program may call anything with any
pointer, also before the constructor `init` has run (status "loading"); libc may
refuse any request, give an address out again, and move a block in any realloc,
whether it grows or shrinks.  Log text is abstracted to the report a call makes.
An item for which the list gets no memory is written through NULL (`Enter`, status
"segv"), and a program that allocates nothing ends in a division by zero (line 59
of part 3, status "fpe").

The tracer loses sight of blocks in four ways, which the history variable
`strays` records with the address and the reason:

* "refused" - libc refuses a realloc; the old block is marked as freed although it
  is still in use (`part3/memtrace.c:192`);
* "empty" - `realloc(NULL, 0)` returns a block that is not listed (line 155);
* "moved" - a realloc to no more than the listed size is taken to leave the block
  in place; if libc moves it, the list keeps the old address (line 181);
* "early" - the block was allocated before the constructor.

Run `memtrace`: every program of five calls over three addresses and sizes 0, 1
and 2 in all three parts, 1.7 million states.  Nothing of libc is excluded; the
properties say that no other call makes the tracer wrong, and how far the damage
of these goes.

* `ListMatchesLibrary` - an address that was not itself lost is listed as allocated
  exactly if it is in use, whatever has happened to others.
* `BytesBalance` - bytes allocated less bytes freed are the bytes listed and those
  counted without being listed.  In part 3 it takes a moved block to upset this,
  since what counts as freed is never passed on; in part 2 any stray does
  (`Adrift`).
* `LibraryShielded` - part 3 lets no misuse through to libc, except at an address of
  a moved block.
* `ReportsTruthful` - a report of a double or an illegal free is true, unless it is
  of a lost address.

The comment at `part3/memtrace.c:43` promises a list of all allocations: the four
ways above are the exceptions.

`MemTraceProofs` proves the four properties without hypotheses, for any set of
pointers, any sizes and any number of calls.  `TraceInv`, in `MemTraceInvariant`, is
inductive:

* `ListGood` - the list is ordered by address, without repetitions; it has exactly
  the pointers the program was given, lost ones aside; and each item that is not
  of a lost address is `Right`: its count is 0 or 1, 1 exactly if the block is in
  use, and then its size is the largest the block ever had, because a block that
  shrinks is not entered again;
* `NoneDangles` - an item that counts as allocated is in use, for all addresses but
  those of `Adrift`: this is what shields libc in part 3 although the list may have
  lost a block.  Part 2 passes every free on, so there a block that was lost may
  be freed behind the list, and every lost address is adrift;
* `BalanceInv` - the bytes, as the cardinality of the set `Listed` of (pointer,
  byte) pairs.

## 6. The cache lab

* `CSim` - `csim.c`: `accessCache` and the loop of `main` over a trace, with
  the shifts of the machine and the widths of words and counters as parameters.
* `Trans` - `transpose_submit` of `trans.c`: each block as rows of moves between
  elements of A and B and local variables.
* `TestTrans` - the composition: `csim` by itself on any trace, or `test-trans`
  with `tracegen` (the layout of its data, the markers, `validate`), the filter
  of the trace, the simulation with s = 5, E = 1, b = 5, the report, the score
  of `driver.py`, and the alarm of 120 seconds, which may ring at any step.
* `CSimInvariant` - the inductive invariant of the simulator; `CSimProofs` - the
  proofs.
* `MCTestTrans` - the instance.

Run `cachelab`.  `CountsAreLru`: after every trace of six accesses, in four
geometries, hits, misses and evictions are those of least-recently-used
replacement, defined on the trace alone (a block is hit if at most E blocks of
its set were used since).  `TransposeCorrect`: B is the transpose of A, for the
matrices of the driver and for 61x32, whose last blocks reach behind the rows,
and 40x64, which is not square.  `FullMarks`: the report of a run that is
not cut off is worth full marks, which depends on the misses of whole matrices
(287, 1195 and 1816) among the accesses between the filter's markers.

`test-trans` starts the simulator `csim-ref`, of which the repository has only the
binary; the model runs `accessCache` of `csim.c` in its place.  The misses of a
function that was not simulated are `INT_MAX`, as in `test-trans.c:42`.

Assumptions: fresh memory of `malloc` is zero (`StaleBits`; the valid bits at
`csim.c:120` are read uninitialized, and with {0, 1} `CountsAreLru` fails); s is
not 0, for which the shift is undefined (`csim.c:34`); the simulator that
`test-trans` starts does not fail, as its status is ignored and an old
`.csim_results` would be read (`test-trans.c:142`).  The addresses of A, B and
the markers are those of the `tracegen` in the repository.  An alarm between the
report and the end prints a second line; the driver reads the first.

`CSimProofs` proves `CountsAreLru` for every set of geometries, every set of
addresses and traces of any length (`CountsLikeLru`).  Its hypotheses are that
fresh memory is zero (`StaleBits = {0}`) and that no use counter wraps
(`MaxAccesses` below the range of the counter); the assumption on the geometries
is that s is at least 1 and s + b less than the width of an address, because a
shift by the whole width is undefined.  `SimInv`, in `CSimInvariant`, is the
inductive invariant (`SimInvariance`).  For each set:

* `OrderInv` - the lines hold different blocks that were used, and their times of
  use are in the order of the last uses in the trace;
* `ReplacedInv` - a block that was used and is in no line has been replaced:
  the lines are all filled, with blocks used after it;

and `CountInv` - the counters are the cardinalities of the sets of positions that
hit, miss and evict.  From these a block is in a line exactly if fewer than E
other blocks of its set were used since, which is the definition of a hit on
the trace alone.  That the two shifts cut the set and the tag of its block out
of an address is division by powers of two, `Pow2`, a recursive function.
`TransposeCorrect` and `FullMarks` are only model-checked.

## 7. The kernel modules

`Ptree` and `Paddr` are the two modules, `KernelLab` loads, uses and removes one
of them; the static variables are zero again when it is loaded again.

### How the model corresponds to the code

Every access to a static variable (`buf` and `curr`, or `task`) is a step, because
no lock is taken; a NULL pointer kills the process that follows it (`Oops`,
`TakeMm`).  The two reads of `curr` in the arguments of `snprintf` are one step.

`ptree`.  Texts are characters.  `CopyFromUser` puts the bytes of the write over the
start of `buf`, without a NUL; `Scan` is the `sscanf` of line 27 on all of `buf`, so
that digits which an earlier branch or write has left behind the text are read
with it, and without a number `input_pid` is whatever the stack had.  A copy that
faults fills up with zeros (`CopyFaults`), and one that is longer than `buf` is
refused by the kernel's check of the size, which is external (`CopyRefused`).
Every read gets the start of `buf`, wherever the file position is (line 52).  The
pid 0 finds no task.

`paddr`.  A packet is its bytes, in little-endian order, with a small base.  The
tables are, for each page, the read at which a walk ends and the frame in the
pte; they change under the walk.  The walk has seven reads, each a step: four
upper entries, and the pte for `pte_none`, for `pte_present` and for its value
(`dbfs_paddr.c:56-57`).  A page that is unmapped at a level the walk has passed is
recorded in `behind`.  If only the pte was cleared, the last read makes an address
out of whatever is there; if a table was freed, the walk reads anything and may
die (`Lost`, `WalkDies`).

### Runs

| run | instance | what it shows |
|---|---|---|
| `kernel` | two writers and a reader, three writes, texts with a newline, without one and too long (the overlapping writes make one without a number), reads of 2 and of 6 with `MAXLEN` 5; or two callers with two changes of the tables; fairness; 460,000 states | `TypeOK`, `TreeIsBranch`, `AddressOfPid`, `WalksEnd` |

`TreeIsBranch`: whatever overlapping, failed or unterminated writes have left in
`buf` and `curr`, after a write that ran alone, of a number and a character that
ends it, the first read gets the start of the branch of that process, cut off at
`MAXLEN`, and all of it if it asks for all.  Without the character that ends it
the statement is false, and TLC finds it violated: the README of the lab promises
the branch of a "specific pid", but after a branch that begins with a one-letter
name a write of "1" is read as 11.  After a first read that was
shorter, the next ones repeat the start of `buf`, and nothing is promised of them.

`AddressOfPid`: a call that ran alone returns an error only if there was a moment of
the call without a translation, and otherwise an address that was mapped during
the call, unless the page was unmapped behind the walk.  The exception is real:
with a pte cleared between lines 56 and 57 the call returns successfully an
address that was never mapped, and TLC finds it when `behind[c] < Present` is left
out of the property.

`WalksEnd`: every write ends, although other writers move `curr` under it.

Fairness: weak fairness of each writer's steps: the kernel schedules a process
that is inside a system call.  Writes are bounded by `MaxWrites`; an endless
stream of writers could restart a walk for ever.

Not covered: the results of overlapping calls (one may get the other's); numbers
of more than 32 bits, which `sscanf` wraps; physical addresses of more than five
bytes (`dbfs_paddr.c:59`; `PaddrAssumption`); files that stay behind when a later one
cannot be created (`dbfs_ptree.c:79`) are a state of the model and of no property.
Processes do not exit during a walk: a freed task is undefined behaviour.

### Proofs

`KernelProofs` proves the three safety properties without hypotheses, for any
number of processes, any tree, texts and lines, any buffer length and lengths of
reads, any base of bytes and any tables.  The tree is finite, its parents end at
process 0 (`PtreeAssumption` asks for a depth that decreases), and a line fits into
the buffer; packets have byte values and pages of the address space.
`KernelInvariant` has the inductive invariants:

* `BranchInv` - how far a writer that runs alone has got with the number it wrote
  (`Progress`): at first it is the one number that can be read in `buf`, whatever is
  behind the text; then the lines of `curr` and of all above it, put in front of
  what `buf` now holds, are the branch asked for, cut at `MAXLEN` (`Completes`).  One
  turn of the loop moves one line from the first part to the second, which rests
  on two facts about `Cut`: cutting early loses nothing, and concatenation is
  associative.  A branch in `buf` stays there while nobody writes, and a reader has
  none of it, or its start at first (`HasBranch`).
* `WalkInv` - a call has the bytes of a packet, and the translation of its page is
  among those seen since the call began; a call that runs alone has its own task;
  the walk is at a read that its page gets through, unless the page was unmapped
  behind it, and then a translation that failed has been seen.  It needs that the
  bytes of a packet are read back as what was packed: `Value`, the loop of the code,
  sums digits of weight `Weight[i]`, and the round trip is shown digit by digit
  from the division theorem.
* `PtreeType`, `PaddrType`, `LabType` - the ranges, from which `RangesKept` has
  `TypeOK`.

`Ancestry`, `Decimal` and `Value` are recursive functions.  What `Ancestry` and `Value`
return is proved by their least counterexample, a number, which takes the place
of induction.  `WalksEnd` is only model-checked.

## 8. Robust I/O

`Sockets` is `open_clientfd` and `open_listenfd`: the walk over the list of
addresses, with any call failing.  `Rio` is a writer with `rio_writen` and a
reader with `rio_readlineb` and `rio_readnb`, mixed, or with `rio_readn`, over a
kernel buffer that takes and gives any number of bytes; calls are interrupted
and fail.  `Csapp` connects the two: the transfer starts when both sides have
their sockets.

Run `rio`.  `StreamIntact`: handed out, buffered, in the kernel, in the writer
and unsent are together the data, in order.  `CallsFilled`: less than asked for
is returned only at a newline or at the end of the stream.  `OpensTidy`: a call
leaves open the descriptor it returns and no other, whatever failed.
`TransferEnds`: both sides come to an end, also when the reader gave up after an
error while the writer waits for room.  The reader of the model closes at a
result that is not positive; `proxy.c:177` takes -1 for a length and calls again,
which `Proxy` models.  `TypeOK`: a line leaves room for its
zero.

Fairness: weak fairness of writer and reader; signals and errors need not come.
Bounds: eight bytes with lines shorter and longer than the buffers (3 in the
reader, 4 in the kernel), two interrupts.  A `maxlen` of 1 returns 0 as if the
stream had ended (`RioAssumption` excludes it).  When `close` fails,
`open_clientfd` and `open_listenfd` return at once (`csapp.c:964`, 1016) and the list
of addresses is lost: `OpensTidy` is about descriptors, and says of the list that
it is freed except then (`kept`).

`CsappProofs` proves the safety properties for any data, buffer sizes and lists
of addresses, with the invariants of `CsappInvariant`:

* `OpenInv` - at each control point of `open_clientfd` and `open_listenfd` the
  call has one descriptor, that of the address it works on, or none;
* `RioInv` - `StreamIntact` as it stands is preserved by every step only together
  with `IdleInv` (nothing is under way between calls, and `rio_readn`, which
  passes the buffer by, is used only if nothing is in it), and `CallsFilled` with
  `CallInv` (a call that goes on has room left and has seen no newline).

`StreamIntact` is an equation of six concatenated parts; every step moves a piece
from one part to the next, which is one of a few lemmas on `Cat`.  `TransferEnds`
is only model-checked.

## 9. What is checked and what is proved

Proved by TLAPS for every value of the constants that satisfies the assumptions:
all safety properties of the shell (`TshProofs`), of the proxy (`ProxyProofs`),
of the memory tracer (`MemTraceProofs`), of the kernel modules (`KernelProofs`)
and of robust I/O (`CsappProofs`), those of the malloc packages but
`ReplaysSucceed`, the refinement included (`MdriverProofs`), and that the cache
simulator counts as a cache with least-recently-used replacement
(`CSimProofs`).  Only `CountsLikeLru` and `AllChildrenListed` have hypotheses beyond
the assumptions of the modules; they are in the statements and above.  `DataLemmas` has what the proofs
share: numbers and division, concatenation and pieces of sequences, and the
existence and uniqueness of functions defined by recursion on 0..N.

Only model-checked:

* liveness under fairness, and the violations: the prover knows neither
  `ENABLED` nor fairness;
* `ReplaysSucceed` (section 4), a statement about two runs;
* `TransposeCorrect` and `FullMarks`, results of computations on whole matrices,
  with nothing to generalise: the limits of misses hold for the sizes of the
  driver.

The prover has no induction over data and no sums.  Where a proof needs
induction, it takes the least number for which a statement fails
(`KernelProofs`, `DataLemmas`); where it needs a sum, the model counts the elements
of a set instead (`RoomExact`, `BytesBalance`, `CountInv`).

Every property comes with a mutant: a plausible bug in a definition that models
code, with which TLC finds the property violated.

## 10. Not modelled

* `malloclab-handout/src/clock.c`, `fcyc.c`, `fsecs.c`, `ftimer.c`: timers.
* The parts of `mdriver.c` that parse traces and options and print results.
* The wrappers of `csapp.c` that are one libc call with an error exit, and its
  signal-safe printing.
* `sdriver.pl`, the traces and the test programs of the labs, valgrind, the part
  of `driver.py` that runs `test-csim`.
* `cache_deinit`, which `main` never reaches.

## 11. What could be added

All components with control of their own are modelled, and every safety property
that is not a computation is proved, with one exception.  `ReplaysSucceed` would
need, for each package, that a call on two heaps with the same tags and the same
links in the free blocks returns the same address and leaves two such heaps: a
second set of contracts beside those of `MdriverProofs`, from the words that a
call reads.  The bound on the utilization would follow from `Kempt` by counting
the bytes of the held payloads.
