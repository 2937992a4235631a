-------------------------------- MODULE Proxy --------------------------------
(***************************************************************************)
(* The connection threads of the caching proxy, proxylab-handout/proxy.c,  *)
(* on the cache of cache.c with its reader-writer lock.                    *)
(*                                                                         *)
(* A thread runs through these control points:                             *)
(*   idle     no connection                                                *)
(*   request  about to read the request line                               *)
(*   lookup   cache_lookup, about to take the lock for reading             *)
(*   scan     walking the list with cursor, lock held for reading          *)
(*   copy     a matching item was found, lock held for reading             *)
(*   touch    about to take the lock for writing and move the item found   *)
(*   miss     cache_lookup returned 0                                      *)
(*   receive  reading the server's response                                *)
(*   add      cache_add, about to take the lock for writing                *)
(*   evict    making room, lock held for writing                           *)
(*   end      end_thread                                                   *)
(* The sections under the write lock that need no loop are one step: every *)
(* access to the list happens under the lock.                              *)
(*                                                                         *)
(* fault says how the process died, if it did: the model stops there.      *)
(***************************************************************************)
EXTENDS CacheList

CONSTANTS
    Threads,
    Responses,   \* Responses[u]: what the server of u may answer, byte sequences
    MAXBUF,
    SIZE_T,      \* one more than the largest size_t
    MaxConns     \* bound: the number of connections

ASSUME ProxyAssumption ==
    /\ NULL \notin Threads
    /\ Responses \in [Urls -> SUBSET Seq(Nat)]
    /\ MAXBUF \in Nat \ {0}
    /\ MAXBUF <= MAX_OBJECT_SIZE
    /\ SIZE_T \in Nat
    /\ SIZE_T > 2 * MAX_OBJECT_SIZE
    /\ MaxConns \in Nat
    /\ IsFiniteSet(Items)
    /\ Cardinality(Items) >= MaxConns   \* Malloc does not run out of addresses

VARIABLES
    cache,     \* list, and the heap of its items
    readers,   \* the threads that hold the lock for reading
    writer,    \* the thread that holds it for writing, or NULL
    pc,        \* the control point of each thread
    url,       \* the URL each thread was asked for
    cursor,    \* item of cache_lookup
    object,    \* the first objectlen bytes of each thread's object buffer
    rest,      \* what the server has still to send to each thread
    reply,     \* what each thread has written to its client
    conns,     \* the number of connections accepted
    fault

vars == <<cache, readers, writer, pc, url, cursor, object, rest, reply, conns, fault>>


Control == {"idle", "request", "lookup", "scan", "copy", "touch", "miss",
            "receive", "add", "evict", "end"}

Faults == {"none", "null pointer", "freed item", "strcpy", "memcpy"}

\* One type invariant for the module.
TypeOK ==
    /\ cache \in Cache
    /\ readers \subseteq Threads
    /\ writer \in Threads \cup {NULL}
    /\ pc \in [Threads -> Control]
    /\ url \in [Threads -> Urls \cup {NULL}]
    /\ cursor \in [Threads -> Pointer]
    /\ object \in [Threads -> Seq(Byte)]
    /\ rest \in [Threads -> Seq(Nat)]
    /\ reply \in [Threads -> Seq(Byte)]
    /\ conns \in 0..MaxConns
    /\ fault \in Faults

Init ==
    /\ cache = cache_init
    /\ readers = {}
    /\ writer = NULL
    /\ pc = [t \in Threads |-> "idle"]
    /\ url = [t \in Threads |-> NULL]
    /\ cursor = [t \in Threads |-> NULL]
    /\ object = [t \in Threads |-> <<>>]
    /\ rest = [t \in Threads |-> <<>>]
    /\ reply = [t \in Threads |-> <<>>]
    /\ conns = 0
    /\ fault = "none"

Goto(t, from, to) ==
    /\ fault = "none"
    /\ pc[t] = from
    /\ pc' = [pc EXCEPT ![t] = to]

\* The process dies of what thread t does at this point.
Die(t, from, how) ==
    /\ fault = "none"
    /\ pc[t] = from
    /\ fault' = how
    /\ UNCHANGED <<cache, readers, writer, pc, url, cursor, object, rest, reply, conns>>

-----------------------------------------------------------------------------
(***************************************************************************)
(* main: a connection is accepted and a thread made for it.                *)
(***************************************************************************)
Accept(t) ==
    /\ conns < MaxConns
    /\ Goto(t, "idle", "request")
    /\ conns' = conns + 1
    /\ UNCHANGED <<cache, readers, writer, url, cursor, object, rest, reply, fault>>

(***************************************************************************)
(* run_thread reads a request line and splits it.  At the end of the file  *)
(* Rio_readlineb returns 0 and the buffer, never written, is split: what   *)
(* the stack holds there may be any request or none.                       *)
(***************************************************************************)
ReadRequest(t, u) ==
    /\ Goto(t, "request", "lookup")
    /\ url' = [url EXCEPT ![t] = u]
    /\ UNCHANGED <<cache, readers, writer, cursor, object, rest, reply, conns, fault>>

BadRequest(t) ==
    /\ Goto(t, "request", "end")
    /\ UNCHANGED <<cache, readers, writer, url, cursor, object, rest, reply, conns, fault>>

-----------------------------------------------------------------------------
(***************************************************************************)
(* cache_lookup.                                                           *)
(***************************************************************************)
CanRead == writer = NULL

\* A write lock that does not wait for the readers.
CanWrite_Shared == writer = NULL

CanWrite == writer = NULL /\ readers = {}

Matches(t) ==
    /\ cursor[t] \in cache.live
    /\ cache.item[cursor[t]].tag = url[t]

LookupRdlock(t) ==
    /\ CanRead
    /\ Goto(t, "lookup", "scan")
    /\ readers' = readers \cup {t}
    /\ cursor' = [cursor EXCEPT ![t] = cache.head]
    /\ UNCHANGED <<cache, writer, url, object, rest, reply, conns, fault>>

\* The tag of a freed item is no string of ours: it differs from url, or
\* (LookupFreed) reading it is fatal.
LookupNext(t) ==
    /\ Goto(t, "scan", "scan")
    /\ cursor[t] # NULL
    /\ ~Matches(t)
    /\ cursor' = [cursor EXCEPT ![t] = cache.item[cursor[t]].next]
    /\ UNCHANGED <<cache, readers, writer, url, object, rest, reply, conns, fault>>

LookupFreed(t) ==
    /\ cursor[t] \in Items \ cache.live
    /\ Die(t, "scan", "freed item")

\* LookupMiss that forgets to unlock.
LookupMiss_KeepsLock(t) ==
    /\ Goto(t, "scan", "miss")
    /\ cursor[t] = NULL
    /\ UNCHANGED <<cache, readers, writer, url, cursor, object, rest, reply, conns, fault>>

LookupMiss(t) ==
    /\ Goto(t, "scan", "miss")
    /\ cursor[t] = NULL
    /\ readers' = readers \ {t}
    /\ UNCHANGED <<cache, writer, url, cursor, object, rest, reply, conns, fault>>

\* LookupMatch that unlocks before the copy.
LookupMatch_Unlocks(t) ==
    /\ Goto(t, "scan", "copy")
    /\ Matches(t)
    /\ readers' = readers \ {t}
    /\ UNCHANGED <<cache, writer, url, cursor, object, rest, reply, conns, fault>>

LookupMatch(t) ==
    /\ Goto(t, "scan", "copy")
    /\ Matches(t)
    /\ UNCHANGED <<cache, readers, writer, url, cursor, object, rest, reply, conns, fault>>

LookupCopy(t) ==
    /\ Goto(t, "copy", "touch")
    /\ object' = [object EXCEPT ![t] = cache.item[cursor[t]].object]
    /\ readers' = readers \ {t}
    /\ UNCHANGED <<cache, writer, url, cursor, rest, reply, conns, fault>>

(***************************************************************************)
(* The write-locked end of a hit, and what run_thread does with it: an     *)
(* object of length 0 counts as a miss.                                    *)
(***************************************************************************)
LookupTouch(t) ==
    /\ CanWrite
    /\ Goto(t, "touch", IF object[t] = <<>> THEN "miss" ELSE "end")
    /\ cache' = move_to_head(cache, cursor[t])
    /\ reply' = [reply EXCEPT ![t] = @ \o object[t]]
    /\ UNCHANGED <<readers, writer, url, cursor, object, rest, conns, fault>>

-----------------------------------------------------------------------------
(***************************************************************************)
(* A miss: another method than GET, a URL that does not parse or a server  *)
(* that cannot be reached end the thread.  Otherwise the request is        *)
(* forwarded and the response read.                                        *)
(***************************************************************************)
Reject(t) ==
    /\ Goto(t, "miss", "end")
    /\ UNCHANGED <<cache, readers, writer, url, cursor, object, rest, reply, conns, fault>>

Forward(t) ==
    /\ Goto(t, "miss", "receive")
    /\ \E b \in Responses[url[t]] : rest' = [rest EXCEPT ![t] = b]
    /\ object' = [object EXCEPT ![t] = <<>>]
    /\ UNCHANGED <<cache, readers, writer, url, cursor, reply, conns, fault>>

\* The test before the copy into the object buffer, in size_t arithmetic.
Fits(t, len) == (Len(object[t]) + len) % SIZE_T <= MAX_OBJECT_SIZE

\* Rio_readnb fills resp unless the response ends before.
Chunk(t) == SubSeq(rest[t], 1, Min({MAXBUF, Len(rest[t])}))

Receive(t) ==
    LET resp == Chunk(t) IN
    /\ Goto(t, "receive", "receive")
    /\ rest[t] # <<>>
    /\ reply' = [reply EXCEPT ![t] = @ \o resp]
    /\ object' = [object EXCEPT ![t] = IF Fits(t, Len(resp)) THEN @ \o resp ELSE @]
    /\ rest' = [rest EXCEPT ![t] = SubSeq(@, Len(resp) + 1, Len(@))]
    /\ UNCHANGED <<cache, readers, writer, url, cursor, conns, fault>>

(***************************************************************************)
(* The connection to the server breaks.  Rio_readnb returns -1, which len  *)
(* holds as the largest size_t: nothing is written (write refuses such a   *)
(* count), and nothing is copied unless the sum wraps around.  The read    *)
(* after that one finds the end of the file.                               *)
(***************************************************************************)
ReceiveError(t) ==
    /\ ~Fits(t, SIZE_T - 1)
    /\ Goto(t, "receive", "receive")
    /\ rest' = [rest EXCEPT ![t] = <<>>]
    /\ UNCHANGED <<cache, readers, writer, url, cursor, object, reply, conns, fault>>

ReceiveErrorWraps(t) ==
    /\ Fits(t, SIZE_T - 1)
    /\ Die(t, "receive", "memcpy")

ReceiveEnd(t) ==
    /\ Goto(t, "receive", IF Len(object[t]) <= MAX_OBJECT_SIZE THEN "add" ELSE "end")
    /\ rest[t] = <<>>
    /\ UNCHANGED <<cache, readers, writer, url, cursor, object, rest, reply, conns, fault>>

-----------------------------------------------------------------------------
(***************************************************************************)
(* cache_add.                                                              *)
(***************************************************************************)
AddWrlock(t) ==
    /\ CanWrite
    /\ Goto(t, "add", "evict")
    /\ writer' = t
    /\ UNCHANGED <<cache, readers, url, cursor, object, rest, reply, conns, fault>>

NeedsRoom(t) == cache.remainlen < Len(object[t])

AddEvict(t) ==
    /\ Goto(t, "evict", "evict")
    /\ NeedsRoom(t)
    /\ cache.tail # NULL
    /\ cache' = cache_evict(cache)
    /\ UNCHANGED <<readers, writer, url, cursor, object, rest, reply, conns, fault>>

AddEvictNull(t) ==
    /\ NeedsRoom(t)
    /\ cache.tail = NULL
    /\ Die(t, "evict", "null pointer")

AddInsert(t, i) ==
    /\ Goto(t, "evict", "end")
    /\ ~NeedsRoom(t)
    /\ i \notin cache.live
    /\ cache' = Inserted(cache, i, url[t], object[t])
    /\ writer' = NULL
    /\ UNCHANGED <<readers, url, cursor, object, rest, reply, conns, fault>>

\* The object fills its buffer and no NUL ends it: strcpy runs on into what
\* the stack holds next and past the end of the item's copy, unless a NUL
\* happens to follow (then AddInsert).
AddOverrun(t) ==
    /\ ~NeedsRoom(t)
    /\ Len(object[t]) = MAX_OBJECT_SIZE
    /\ \A k \in DOMAIN object[t] : object[t][k] # 0
    /\ Die(t, "evict", "strcpy")

-----------------------------------------------------------------------------
(***************************************************************************)
(* end_thread closes the connections; the thread's variables are gone.     *)
(***************************************************************************)
EndThread(t) ==
    /\ Goto(t, "end", "idle")
    /\ url' = [url EXCEPT ![t] = NULL]
    /\ cursor' = [cursor EXCEPT ![t] = NULL]
    /\ object' = [object EXCEPT ![t] = <<>>]
    /\ rest' = [rest EXCEPT ![t] = <<>>]
    /\ reply' = [reply EXCEPT ![t] = <<>>]
    /\ UNCHANGED <<cache, readers, writer, conns, fault>>

\* Everyone was served, within the bound, or the process is dead.
Stopped ==
    /\ \/ fault # "none"
       \/ conns = MaxConns /\ \A t \in Threads : pc[t] = "idle"
    /\ UNCHANGED vars

CacheStep(t) ==
    \/ LookupRdlock(t) \/ LookupNext(t) \/ LookupFreed(t) \/ LookupMiss(t)
    \/ LookupMatch(t) \/ LookupCopy(t) \/ LookupTouch(t)
    \/ AddWrlock(t) \/ AddEvict(t) \/ AddEvictNull(t) \/ AddOverrun(t)
    \/ \E i \in Items : AddInsert(t, i)

ThreadStep(t) ==
    \/ BadRequest(t) \/ Reject(t) \/ Forward(t) \/ Receive(t) \/ ReceiveError(t)
    \/ ReceiveErrorWraps(t) \/ ReceiveEnd(t) \/ EndThread(t)
    \/ \E u \in Urls : ReadRequest(t, u)

Next ==
    \/ \E t \in Threads : Accept(t) \/ ThreadStep(t) \/ CacheStep(t)
    \/ Stopped

Spec == Init /\ [][Next]_vars

(***************************************************************************)
(* A runnable thread runs, and a lock that stays free for a waiting thread *)
(* is granted.  Nothing is assumed of clients and servers.                 *)
(***************************************************************************)
Fairness == \A t \in Threads : WF_vars(CacheStep(t))

LiveSpec == Spec /\ Fairness

-----------------------------------------------------------------------------
(***************************************************************************)
(* The bytes of the objects on the heap and remainlen add up to            *)
(* MAX_CACHE_SIZE, and remainlen, a size_t, never wraps below zero, through *)
(* every addition, eviction and move of whatever threads meet in the       *)
(* cache (cache_add and cache_evict).                                      *)
(***************************************************************************)
RoomExact ==
    /\ cache.remainlen >= 0
    /\ cache.remainlen + StoredBytes(cache) = MAX_CACHE_SIZE

(***************************************************************************)
(* The item from which cache_lookup copies is allocated and holds an       *)
(* object of the URL asked for, although other threads evict, reuse        *)
(* addresses and move items at the same time.                              *)
(***************************************************************************)
HitIsOfUrl == \A t \in Threads : pc[t] = "copy" => Matches(t)

(***************************************************************************)
(* While a thread reads the list nothing in it changes: cache_lookup walks *)
(* one list, not parts of two.                                             *)
(***************************************************************************)
ReadersFreezeCache == [][readers # {} => cache' = cache]_vars

\* A URL whose responses survive the copies of proxy.c and cache.c: they are
\* shorter than the object buffer and have no NUL.
Plain(u) ==
    \A b \in Responses[u] :
        /\ Len(b) < MAX_OBJECT_SIZE
        /\ \A k \in DOMAIN b : b[k] # 0

(***************************************************************************)
(* End to end: what a client has been sent when its connection is closed   *)
(* is nothing, or all of what the server of its URL answered to this or to *)
(* an earlier request.  It holds of the plain URLs, whatever the others    *)
(* that share the cache with them do to it.                                *)
(***************************************************************************)
RepliesAreResponses ==
    \A t \in Threads :
        pc[t] = "end" /\ reply[t] # <<>> /\ Plain(url[t])
            => reply[t] \in Responses[url[t]]

(***************************************************************************)
(* cache_lookup returns: a thread that enters it, or cache_add, leaves it, *)
(* unless the process dies.                                                *)
(***************************************************************************)
InCache(t) == pc[t] \in {"lookup", "scan", "copy", "touch", "add", "evict"}
CacheCallsReturn == \A t \in Threads : InCache(t) ~> (~InCache(t) \/ fault # "none")

=============================================================================
