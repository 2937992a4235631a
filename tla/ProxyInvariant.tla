---------------------------- MODULE ProxyInvariant ----------------------------
(***************************************************************************)
(* The inductive invariants from which module ProxyProofs derives the      *)
(* safety of the proxy.                                                    *)
(***************************************************************************)
EXTENDS Proxy

\* The lock is held by exactly the threads whose control is inside a locked
\* section of cache_lookup or cache_add, and a writer is alone.
LockInv ==
    /\ writer # NULL => readers = {}
    /\ \A t \in Threads : t \in readers <=> pc[t] \in {"scan", "copy"}
    /\ \A t \in Threads : writer = t <=> pc[t] = "evict"

\* The item of a hit is an item until the thread ends, and a thread that
\* works for a client has a URL.
LocalInv ==
    \A t \in Threads :
        /\ pc[t] \in {"copy", "touch"} => cursor[t] \in Items
        /\ pc[t] \notin {"idle", "request", "end"} => url[t] \in Urls

\* The inductive invariant of the list and its lock: it implies HitIsOfUrl
\* and, of a step, ReadersFreezeCache.
CacheInv == TypeOK /\ LockInv /\ LocalInv /\ HitIsOfUrl

-----------------------------------------------------------------------------
\* Nothing, or all of a response of the server of u, if u is plain.
Whole(o, u) == o = <<>> \/ o \in Responses[u] \/ ~Plain(u)

\* Every object of the cache is whole.
StoredInv ==
    \A i \in cache.live :
        /\ cache.item[i].tag \in Urls
        /\ Whole(cache.item[i].object, cache.item[i].tag)

\* What a thread has read, copied and sent at each of its control points.
ThreadData(t) ==
    /\ pc[t] \notin {"receive", "add", "evict", "end"} => reply[t] = <<>>
    /\ pc[t] = "touch" => Whole(object[t], url[t])
    /\ pc[t] = "receive" /\ Plain(url[t]) =>
           /\ object[t] = reply[t]
           /\ \/ reply[t] \o rest[t] \in Responses[url[t]]
              \/ reply[t] = <<>> /\ rest[t] = <<>>
    /\ pc[t] \in {"add", "evict"} /\ Plain(url[t]) => object[t] = reply[t]
    /\ pc[t] \in {"add", "evict", "end"} => Whole(reply[t], url[t])

\* The inductive invariant of the data; it implies RepliesAreResponses.
ReplyInv == CacheInv /\ StoredInv /\ \A t \in Threads : ThreadData(t)

=============================================================================
