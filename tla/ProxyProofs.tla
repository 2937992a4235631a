----------------------------- MODULE ProxyProofs -----------------------------
(***************************************************************************)
(* Safety of the proxy, for every set of threads, URLs and items and for   *)
(* every size of the buffers: the lock protects the walk of cache_lookup,  *)
(* and clients are sent whole responses of the server they asked for.      *)
(***************************************************************************)
EXTENDS ProxyInvariant, DataLemmas

(* What the routines on the list of cached objects do to it.               *)

\* Item j has the same tag and the same object in c and in d.
SameItem(c, d, j) ==
    /\ d.item[j].tag = c.item[j].tag
    /\ d.item[j].object = c.item[j].object

\* d is c with other links between the same items.
Relinked(c, d) ==
    /\ d \in Cache
    /\ d.live = c.live
    /\ d.remainlen = c.remainlen
    /\ \A j \in Items : SameItem(c, d, j)

\* d is c without its tail.
Shrunk(c, d) ==
    /\ d \in Cache
    /\ d.live = c.live \ {c.tail}
    /\ d.remainlen = c.remainlen + objectlen(c, c.tail)
    /\ d.item[c.tail].object = <<>>
    /\ \A j \in Items \ {c.tail} : SameItem(c, d, j)

\* d is c with the new item i.
Grown(c, d, i, uu, oo) ==
    /\ d \in Cache
    /\ d.live = c.live \cup {i}
    /\ d.remainlen = c.remainlen - Len(oo)
    /\ d.item[i].tag = uu
    /\ d.item[i].object = oo
    /\ \A j \in Items \ {i} : SameItem(c, d, j)

\* Unlinking an item changes links only.
LEMMA UnlinkedRelinks ==
  ASSUME NEW c \in Cache, NEW i \in Items
  PROVE  Relinked(c, Unlinked(c, i))
<1> DEFINE p == c.item[i].prev
           n == c.item[i].next
           by == IF p = NULL THEN c.item ELSE [c.item EXCEPT ![p].next = n]
           it == IF n = NULL THEN by ELSE [by EXCEPT ![n].prev = p]
           tl == IF c.tail = i THEN p ELSE c.tail
<1>0. /\ c.item \in [Items -> CacheItem]
      /\ c.item[i] \in CacheItem
  BY DEF Cache
<1>1. p \in Pointer /\ n \in Pointer
  BY <1>0 DEF CacheItem
<1>2. /\ by \in [Items -> CacheItem]
      /\ \A j \in Items : by[j].tag = c.item[j].tag /\ by[j].object = c.item[j].object
  BY <1>0, <1>1 DEF CacheItem, Pointer
<1>3. /\ it \in [Items -> CacheItem]
      /\ \A j \in Items : it[j].tag = c.item[j].tag /\ it[j].object = c.item[j].object
  <2> HIDE DEF by
  <2> QED BY <1>1, <1>2 DEF CacheItem, Pointer
<1>4. Unlinked(c, i) = [c EXCEPT !.tail = tl, !.item = it]
  BY DEF Unlinked
<1>5. tl \in Pointer
  BY <1>1 DEF Cache
<1> HIDE DEF tl, it
<1> QED
  BY <1>3, <1>4, <1>5 DEF Relinked, SameItem, Cache

\* move_to_head changes links only, also for an item that was freed.
LEMMA MoveRelinks ==
  ASSUME NEW c \in Cache, NEW i \in Items
  PROVE  Relinked(c, move_to_head(c, i))
<1>1. CASE c.head = i
  <2>1. move_to_head(c, i) = c
    BY <1>1, ListAssumption DEF move_to_head
  <2> QED
    BY <2>1 DEF Relinked, SameItem
<1>2. CASE c.head # i /\ c.head = NULL
  <2>1. move_to_head(c, i) = [c EXCEPT !.head = i, !.tail = i]
    BY <1>2 DEF move_to_head
  <2> QED
    BY <2>1 DEF Relinked, SameItem, Cache, Pointer
<1>3. CASE c.head # i /\ c.head # NULL
  <2>1. PICK d : d = Unlinked(c, i)
    OBVIOUS
  <2>2. Relinked(c, d)
    BY <2>1, UnlinkedRelinks
  <2>3. move_to_head(c, i) = [d EXCEPT !.item[i] = [@ EXCEPT !.prev = NULL, !.next = c.head], !.head = i]
    BY <1>3, <2>1 DEF move_to_head
  <2>4. d \in Cache /\ d.item \in [Items -> CacheItem] /\ d.item[i] \in CacheItem
    BY <2>2 DEF Relinked, Cache
  <2>5. PICK it : it = [d.item EXCEPT ![i] = [d.item[i] EXCEPT !.prev = NULL, !.next = c.head]]
    OBVIOUS
  <2>6. /\ it \in [Items -> CacheItem]
        /\ \A j \in Items : it[j].tag = d.item[j].tag /\ it[j].object = d.item[j].object
    BY <2>4, <2>5 DEF CacheItem, Cache, Pointer
  <2>7. move_to_head(c, i) = [d EXCEPT !.item = it, !.head = i]
    BY <2>3, <2>4, <2>5 DEF Cache, CacheItem
  <2> QED
    BY <2>2, <2>4, <2>6, <2>7 DEF Relinked, SameItem, Cache, Pointer
<1> QED
  BY <1>1, <1>2, <1>3

\* cache_evict removes one item and leaves the others.
LEMMA EvictShrinks ==
  ASSUME NEW c \in Cache, c.tail # NULL
  PROVE  Shrunk(c, cache_evict(c))
<1>1. c.tail \in Items /\ c.item \in [Items -> CacheItem] /\ c.item[c.tail] \in CacheItem
  BY DEF Cache, Pointer
<1>2. objectlen(c, c.tail) \in Nat
  BY <1>1 DEF objectlen, CacheItem
<1>3. PICK r : r = [c.item[c.tail] EXCEPT !.tag = NULL, !.object = <<>>]
  OBVIOUS
<1>3a. r \in CacheItem
  <2>1. <<>> \in Seq(Byte)
    OBVIOUS
  <2> QED
    BY <1>1, <1>3, <2>1 DEF CacheItem
<1>3b. PICK it : it = [c.item EXCEPT ![c.tail] = r]
  OBVIOUS
<1>4. /\ it \in [Items -> CacheItem]
      /\ it[c.tail] = r
      /\ \A j \in Items \ {c.tail} : it[j] = c.item[j]
  BY <1>1, <1>3a, <1>3b
<1>4a. it[c.tail].object = <<>>
  BY <1>1, <1>3, <1>4 DEF CacheItem
<1>5. cache_evict(c) = [c EXCEPT !.tail = c.item[c.tail].prev,
                                 !.remainlen = c.remainlen + objectlen(c, c.tail),
                                 !.live = c.live \ {c.tail},
                                 !.item = it]
  BY <1>1, <1>3, <1>3b DEF cache_evict, Cache, CacheItem
<1>6. c.item[c.tail].prev \in Pointer
  BY <1>1 DEF CacheItem
<1>7. PICK d : d = cache_evict(c)
  OBVIOUS
<1>8. c.remainlen + objectlen(c, c.tail) \in Nat
  BY <1>2 DEF Cache
<1>9. /\ d \in Cache
      /\ d.live = c.live \ {c.tail}
      /\ d.remainlen = c.remainlen + objectlen(c, c.tail)
      /\ d.item = it
  <2> HIDE DEF objectlen
  <2> QED BY <1>4, <1>5, <1>6, <1>7, <1>8 DEF Cache
<1> QED
  BY <1>4, <1>4a, <1>7, <1>9 DEF Shrunk, SameItem

\* strcpy copies byte sequences to byte sequences of the same length, and
\* copies those without NUL as they are.
LEMMA StrcpyCopies ==
  ASSUME NEW o \in Seq(Byte)
  PROVE  /\ Strcpy(o) \in Seq(Byte)
         /\ Len(Strcpy(o)) = Len(o)
         /\ (\A k \in DOMAIN o : o[k] # 0) => Strcpy(o) = o
<1>1. Len(o) \in Nat /\ DOMAIN o = 1..Len(o) /\ \A k \in 1..Len(o) : o[k] \in Byte
  OBVIOUS
<1>2. \A k \in 1..Len(o) : (IF \E j \in 1..(k - 1) : o[j] = 0 THEN Junk ELSE o[k]) \in Byte
  BY <1>1 DEF Byte, Junk
<1>3. Strcpy(o) \in [1..Len(o) -> Byte]
  BY <1>1, <1>2 DEF Strcpy
<1>4. Strcpy(o) \in Seq(Byte) /\ Len(Strcpy(o)) = Len(o)
  BY <1>1, <1>3
<1>5. ASSUME \A k \in DOMAIN o : o[k] # 0
      PROVE  Strcpy(o) = o
  <2>1. o \in [1..Len(o) -> Byte]
    BY <1>1
  <2>2. \A k \in 1..Len(o) : Strcpy(o)[k] = o[k]
    BY <1>1, <1>5 DEF Strcpy
  <2> QED
    BY <1>3, <2>1, <2>2
<1> QED
  BY <1>4, <1>5

\* cache_add adds an item with the object's copy and leaves the others.
LEMMA InsertGrows ==
  ASSUME NEW c \in Cache, NEW i \in Items, NEW u \in Urls, NEW o \in Seq(Byte),
         Len(o) <= c.remainlen
  PROVE  Grown(c, Inserted(c, i, u, o), i, u, Strcpy(o))
<1>1. PICK it : it = [c.item EXCEPT ![i] = [tag |-> u, object |-> Strcpy(o),
                                            prev |-> NULL, next |-> NULL]]
  OBVIOUS
<1>2. PICK d : d = [c EXCEPT !.live = c.live \cup {i}, !.item = it,
                             !.remainlen = c.remainlen - Len(o)]
  OBVIOUS
<1>3. Inserted(c, i, u, o) = move_to_head(d, i)
  BY <1>1, <1>2 DEF Inserted, Cache
<1>4. c.item \in [Items -> CacheItem] /\ Strcpy(o) \in Seq(Byte)
  BY StrcpyCopies DEF Cache
<1>5. /\ it \in [Items -> CacheItem]
      /\ it[i].tag = u /\ it[i].object = Strcpy(o)
      /\ \A j \in Items \ {i} : it[j] = c.item[j]
  BY <1>1, <1>4 DEF CacheItem, Pointer
<1>6. Len(o) \in Nat /\ c.remainlen \in Nat /\ c.remainlen - Len(o) \in Nat
  BY DEF Cache
<1>7. /\ d \in Cache
      /\ d.live = c.live \cup {i}
      /\ d.remainlen = c.remainlen - Len(o)
      /\ d.item = it
  BY <1>2, <1>5, <1>6 DEF Cache
<1>8. Relinked(d, move_to_head(d, i))
  BY <1>7, MoveRelinks
<1> QED
  BY <1>3, <1>5, <1>7, <1>8, StrcpyCopies DEF Relinked, Grown, SameItem

-----------------------------------------------------------------------------
(* The room of the cache.                                                  *)

\* A freed item holds no bytes, and the bytes of the others and the room
\* that is left add up.
Room(c) ==
    /\ \A i \in Items \ c.live : c.item[i].object = <<>>
    /\ IsFiniteSet(Stored(c))
    /\ c.remainlen + StoredBytes(c) = MAX_CACHE_SIZE

\* The bytes of one item.
BytesOf(c, i) == {i} \X DOMAIN c.item[i].object

LEMMA BytesCount ==
  ASSUME NEW c \in Cache, NEW i \in Items
  PROVE  /\ IsFiniteSet(BytesOf(c, i))
         /\ Cardinality(BytesOf(c, i)) = objectlen(c, i)
         /\ objectlen(c, i) \in Nat
<1>1. PICK n \in Nat : n = objectlen(c, i) /\ DOMAIN c.item[i].object = 1..n
  BY DEF Cache, CacheItem, objectlen
<1>2. IsFiniteSet(1..n) /\ Cardinality(1..n) = n
  BY FS_Interval
<1>3. IsFiniteSet({i}) /\ Cardinality({i}) = 1
  BY FS_Singleton
<1>4. /\ IsFiniteSet({i} \X (1..n))
      /\ Cardinality({i} \X (1..n)) = Cardinality({i}) * Cardinality(1..n)
  BY <1>2, <1>3, FS_Product
<1>5. 1 * n = n
  OBVIOUS
<1> QED
  BY <1>1, <1>2, <1>3, <1>4, <1>5 DEF BytesOf

\* An item whose bytes come to a cache, or go, changes the sum by them.
LEMMA StoredSplit ==
  ASSUME NEW c \in Cache, NEW d \in Cache, NEW i \in Items,
         i \in c.live, d.live = c.live \ {i},
         \A j \in d.live : d.item[j].object = c.item[j].object,
         IsFiniteSet(Stored(c)) \/ IsFiniteSet(Stored(d))
  PROVE  /\ IsFiniteSet(Stored(c)) /\ IsFiniteSet(Stored(d))
         /\ StoredBytes(c) \in Nat /\ StoredBytes(d) \in Nat
         /\ StoredBytes(c) = StoredBytes(d) + objectlen(c, i)
<1>1. Stored(c) = Stored(d) \cup BytesOf(c, i)
  BY DEF Stored, BytesOf
<1>2. Stored(d) \cap BytesOf(c, i) = {}
  BY DEF Stored, BytesOf
<1>3. IsFiniteSet(Stored(d))
  BY <1>1, FS_Subset
<1>4. /\ IsFiniteSet(Stored(d) \cup BytesOf(c, i))
      /\ Cardinality(Stored(d) \cup BytesOf(c, i)) =
           Cardinality(Stored(d)) + Cardinality(BytesOf(c, i)) - Cardinality(Stored(d) \cap BytesOf(c, i))
  BY <1>3, BytesCount, FS_Union
<1>5. Cardinality(Stored(d) \cap BytesOf(c, i)) = 0
  BY <1>2, FS_EmptySet
<1>6. Cardinality(Stored(d)) \in Nat /\ Cardinality(Stored(c)) \in Nat
  BY <1>1, <1>3, <1>4, FS_CardinalityType
<1>7. Cardinality(BytesOf(c, i)) = objectlen(c, i) /\ objectlen(c, i) \in Nat
  BY BytesCount
<1> QED
  BY <1>1, <1>3, <1>4, <1>5, <1>6, <1>7 DEF StoredBytes

LEMMA RoomInit == Room(cache_init)
<1>1. Stored(cache_init) = {}
  BY DEF Stored, cache_init
<1>2. IsFiniteSet(Stored(cache_init)) /\ StoredBytes(cache_init) = 0
  BY <1>1, FS_EmptySet DEF StoredBytes
<1> QED
  BY <1>2, ListAssumption DEF Room, cache_init, Raw

LEMMA RoomMove ==
  ASSUME NEW c \in Cache, NEW d, Relinked(c, d), Room(c) PROVE Room(d)
<1>1. Stored(d) = Stored(c)
  BY DEF Stored, Relinked, SameItem, Cache
<1> QED
  BY <1>1 DEF Room, StoredBytes, Relinked, SameItem

\* Also when the tail is an item that was freed: it gives no room back.
LEMMA RoomEvict ==
  ASSUME NEW c \in Cache, NEW d, c.tail # NULL, Shrunk(c, d), Room(c) PROVE Room(d)
<1>1. c.tail \in Items /\ d \in Cache
  BY DEF Cache, Pointer, Shrunk
<1>2. \A i \in Items \ d.live : d.item[i].object = <<>>
  BY <1>1 DEF Shrunk, SameItem, Room
<1>3. CASE c.tail \in c.live
  <2>1. /\ IsFiniteSet(Stored(c)) /\ IsFiniteSet(Stored(d))
        /\ StoredBytes(c) \in Nat /\ StoredBytes(d) \in Nat
        /\ StoredBytes(c) = StoredBytes(d) + objectlen(c, c.tail)
    BY <1>1, <1>3, StoredSplit DEF Shrunk, SameItem, Room, Cache
  <2>2. objectlen(c, c.tail) \in Nat /\ c.remainlen \in Nat
    BY <1>1, BytesCount DEF Cache
  <2>3. d.remainlen + StoredBytes(d) = c.remainlen + StoredBytes(c)
    BY <2>1, <2>2 DEF Shrunk
  <2> QED
    BY <1>2, <2>1, <2>3 DEF Room
<1>4. CASE c.tail \notin c.live
  <2>1. Stored(d) = Stored(c)
    BY <1>1, <1>4 DEF Stored, Shrunk, SameItem, Cache
  <2>2. objectlen(c, c.tail) = 0
    BY <1>1, <1>4 DEF Room, objectlen
  <2>3. d.remainlen = c.remainlen
    BY <2>2 DEF Shrunk, Cache
  <2> QED
    BY <1>2, <2>1, <2>3 DEF Room, StoredBytes
<1> QED
  BY <1>3, <1>4

LEMMA RoomInsert ==
  ASSUME NEW c \in Cache, NEW d, NEW i \in Items \ c.live, NEW u, NEW o \in Seq(Byte),
         Grown(c, d, i, u, o), Room(c)
  PROVE  Room(d)
<1>1. d \in Cache /\ i \in d.live /\ c.live = d.live \ {i}
  BY DEF Grown
<1>2. /\ IsFiniteSet(Stored(c)) /\ IsFiniteSet(Stored(d))
      /\ StoredBytes(c) \in Nat /\ StoredBytes(d) \in Nat
      /\ StoredBytes(d) = StoredBytes(c) + objectlen(d, i)
  <2>1. \A j \in c.live : c.item[j].object = d.item[j].object
    BY DEF Grown, SameItem, Cache
  <2>2. IsFiniteSet(Stored(c))
    BY DEF Room
  <2> QED
    BY <1>1, <2>1, <2>2, StoredSplit
<1>3. objectlen(d, i) = Len(o) /\ objectlen(d, i) \in Nat /\ c.remainlen \in Nat
  BY <1>1, BytesCount DEF Grown, objectlen, Cache
<1>4. d.remainlen + StoredBytes(d) = c.remainlen + StoredBytes(c)
  BY <1>2, <1>3 DEF Grown
<1>5. \A j \in Items \ d.live : d.item[j].object = <<>>
  BY <1>1 DEF Grown, SameItem, Room
<1> QED
  BY <1>2, <1>4, <1>5 DEF Room

-----------------------------------------------------------------------------
-----------------------------------------------------------------------------
(* Type correctness.                                                       *)

LEMMA InitType == Init => TypeOK
<1> SUFFICES ASSUME Init PROVE TypeOK
  OBVIOUS
<1>1. <<>> \in Seq(Byte) /\ <<>> \in Seq(Nat)
  OBVIOUS
<1>2. Raw \in CacheItem
  BY <1>1 DEF Raw, CacheItem, Pointer
<1>3. cache_init \in Cache
  BY <1>2, ListAssumption DEF cache_init, Cache, Pointer
<1> QED
  BY <1>1, <1>3, ProxyAssumption DEF Init, TypeOK, Control, Faults, Pointer

\* What Receive moves from the response to the object buffer and the client.
LEMMA ChunkType ==
  ASSUME NEW t \in Threads, TypeOK, rest[t] # <<>>
  PROVE  /\ Chunk(t) \in Seq(Nat) /\ Chunk(t) \in Seq(Byte)
         /\ SubSeq(rest[t], Len(Chunk(t)) + 1, Len(rest[t])) \in Seq(Nat)
         /\ Chunk(t) \o SubSeq(rest[t], Len(Chunk(t)) + 1, Len(rest[t])) = rest[t]
         /\ Len(Chunk(t)) <= Len(rest[t])
<1>1. rest[t] \in Seq(Nat) /\ Len(rest[t]) \in Nat /\ MAXBUF \in Nat \ {0}
  BY ProxyAssumption DEF TypeOK
<1>2. PICK n : n = Min({MAXBUF, Len(rest[t])})
  OBVIOUS
<1>3. n \in 0..Len(rest[t])
  <2>1. n \in {MAXBUF, Len(rest[t])} /\ \A y \in {MAXBUF, Len(rest[t])} : n <= y
    BY <1>1, <1>2 DEF Min
  <2> QED
    BY <1>1, <2>1
<1>4. Chunk(t) = SubSeq(rest[t], 1, n)
  BY <1>2 DEF Chunk
<1>5. /\ Chunk(t) \in Seq(Nat)
      /\ Len(Chunk(t)) = n
      /\ \A k \in 1..n : Chunk(t)[k] = rest[t][k]
  BY <1>1, <1>3, <1>4
<1>6. Chunk(t) \in Seq(Byte)
  BY <1>5 DEF Byte
<1>7. SubSeq(rest[t], n + 1, Len(rest[t])) \in Seq(Nat)
  BY <1>1, <1>3
<1>8. Chunk(t) \o SubSeq(rest[t], n + 1, Len(rest[t])) = rest[t]
  BY <1>1, <1>3, <1>4, SplitSeq, Zenon
<1> HIDE DEF Chunk
<1>9. Len(Chunk(t)) = n /\ Len(Chunk(t)) <= Len(rest[t])
  BY <1>1, <1>3, <1>5
<1> QED
  BY <1>5, <1>6, <1>7, <1>8, <1>9, Zenon

LEMMA TypeStep ==
  ASSUME TypeOK, LocalInv, Next PROVE TypeOK'
<1> USE DEF TypeOK, Goto, Die
<1>0. \A t \in Threads : pc[t] \in Control
  OBVIOUS
<1>1. ASSUME NEW t \in Threads, Accept(t) PROVE TypeOK'
  BY <1>1, ProxyAssumption DEF Accept, Control
<1>2. ASSUME NEW t \in Threads, ThreadStep(t) PROVE TypeOK'
  <2>1. CASE BadRequest(t)
    BY <2>1 DEF BadRequest, Control
  <2>2. CASE Reject(t)
    BY <2>2 DEF Reject, Control
  <2>3. CASE Forward(t)
    <3>1. PICK b \in Responses[url[t]] : rest' = [rest EXCEPT ![t] = b]
      BY <2>3 DEF Forward
    <3>2. url[t] \in Urls
      BY <2>3 DEF Forward, LocalInv
    <3>3. b \in Seq(Nat)
      BY <3>1, <3>2, ProxyAssumption
    <3>4. <<>> \in Seq(Byte)
      OBVIOUS
    <3> QED
      BY <2>3, <3>1, <3>3, <3>4 DEF Forward, Control
  <2>4. CASE Receive(t)
    <3>1. rest[t] # <<>>
      BY <2>4 DEF Receive
    <3>2. PICK r : r = Chunk(t)
      OBVIOUS
    <3>3. r \in Seq(Byte) /\ SubSeq(rest[t], Len(r) + 1, Len(rest[t])) \in Seq(Nat)
      BY <3>1, <3>2, ChunkType
    <3>4. reply[t] \o r \in Seq(Byte) /\ object[t] \o r \in Seq(Byte)
      BY <3>3
    <3>5. /\ reply' = [reply EXCEPT ![t] = reply[t] \o r]
          /\ rest' = [rest EXCEPT ![t] = SubSeq(rest[t], Len(r) + 1, Len(rest[t]))]
          /\ object' = [object EXCEPT ![t] = IF Fits(t, Len(r)) THEN object[t] \o r ELSE object[t]]
      BY <2>4, <3>2 DEF Receive
    <3>6. /\ reply' \in [Threads -> Seq(Byte)]
          /\ rest' \in [Threads -> Seq(Nat)]
          /\ object' \in [Threads -> Seq(Byte)]
      BY <3>3, <3>4, <3>5
    <3> QED
      BY <2>4, <3>6 DEF Receive, Control
  <2>5. CASE ReceiveError(t)
    <3>1. <<>> \in Seq(Nat)
      OBVIOUS
    <3> QED
      BY <2>5, <3>1 DEF ReceiveError, Control
  <2>6. CASE ReceiveErrorWraps(t)
    BY <2>6 DEF ReceiveErrorWraps, Faults
  <2>7. CASE ReceiveEnd(t)
    BY <2>7 DEF ReceiveEnd, Control
  <2>8. CASE EndThread(t)
    <3>1. <<>> \in Seq(Byte) /\ <<>> \in Seq(Nat)
      OBVIOUS
    <3> QED
      BY <2>8, <3>1 DEF EndThread, Control, Pointer
  <2>9. ASSUME NEW u \in Urls, ReadRequest(t, u) PROVE TypeOK'
    BY <2>9 DEF ReadRequest, Control
  <2> QED
    BY <1>2, <2>1, <2>2, <2>3, <2>4, <2>5, <2>6, <2>7, <2>8, <2>9 DEF ThreadStep
<1>3. ASSUME NEW t \in Threads, CacheStep(t) PROVE TypeOK'
  <2>1. CASE LookupRdlock(t)
    BY <2>1 DEF LookupRdlock, Control, Cache
  <2>2. CASE LookupNext(t)
    <3>1. cache.item[cursor[t]].next \in Pointer
      BY <2>2 DEF LookupNext, Cache, CacheItem, Pointer
    <3> QED
      BY <2>2, <3>1 DEF LookupNext, Control
  <2>3. CASE LookupFreed(t)
    BY <2>3 DEF LookupFreed, Faults
  <2>4. CASE LookupMiss(t)
    BY <2>4 DEF LookupMiss, Control
  <2>5. CASE LookupMatch(t)
    BY <2>5 DEF LookupMatch, Control
  <2>6. CASE LookupCopy(t)
    <3>1. cursor[t] \in Items
      BY <2>6 DEF LookupCopy, LocalInv
    <3>2. cache.item[cursor[t]].object \in Seq(Byte)
      BY <3>1 DEF Cache, CacheItem
    <3> QED
      BY <2>6, <3>2 DEF LookupCopy, Control
  <2>7. CASE LookupTouch(t)
    <3>1. cursor[t] \in Items
      BY <2>7 DEF LookupTouch, LocalInv
    <3>2. move_to_head(cache, cursor[t]) \in Cache
      BY <3>1, MoveRelinks DEF Relinked
    <3>3. reply[t] \o object[t] \in Seq(Byte)
      OBVIOUS
    <3> QED
      BY <2>7, <3>2, <3>3 DEF LookupTouch, Control
  <2>8. CASE AddWrlock(t)
    BY <2>8 DEF AddWrlock, Control
  <2>9. CASE AddEvict(t)
    <3>1. cache_evict(cache) \in Cache
      BY <2>9, EvictShrinks DEF AddEvict, Shrunk
    <3> QED
      BY <2>9, <3>1 DEF AddEvict, Control
  <2>10. CASE AddEvictNull(t)
    BY <2>10 DEF AddEvictNull, Faults
  <2>11. CASE AddOverrun(t)
    BY <2>11 DEF AddOverrun, Faults
  <2>12. ASSUME NEW i \in Items, AddInsert(t, i) PROVE TypeOK'
    <3>1. url[t] \in Urls
      BY <2>12 DEF AddInsert, LocalInv
    <3>2. object[t] \in Seq(Byte) /\ Len(object[t]) <= cache.remainlen
      BY <2>12 DEF AddInsert, NeedsRoom, Cache
    <3>3. Inserted(cache, i, url[t], object[t]) \in Cache
      BY <3>1, <3>2, InsertGrows DEF Grown
    <3> QED
      BY <2>12, <3>3 DEF AddInsert, Control
  <2> QED
    BY <1>3, <2>1, <2>2, <2>3, <2>4, <2>5, <2>6, <2>7, <2>8, <2>9, <2>10, <2>11, <2>12
    DEF CacheStep
<1>4. CASE Stopped
  BY <1>4 DEF Stopped, vars
<1> QED
  BY <1>1, <1>2, <1>3, <1>4 DEF Next

-----------------------------------------------------------------------------
(* The lock.                                                               *)

LEMMA LockStep ==
  ASSUME TypeOK, LockInv, Next PROVE LockInv'
<1> USE DEF LockInv, Goto, Die
<1>0. /\ pc \in [Threads -> Control] /\ readers \subseteq Threads /\ NULL \notin Threads
      /\ writer \in Threads \cup {NULL}
  BY ProxyAssumption DEF TypeOK
<1>1. ASSUME NEW t \in Threads, Accept(t) PROVE LockInv'
  BY <1>0, <1>1 DEF Accept
<1>2. ASSUME NEW t \in Threads, ThreadStep(t) PROVE LockInv'
  <2>1. CASE BadRequest(t)
    BY <1>0, <2>1 DEF BadRequest
  <2>2. CASE Reject(t)
    BY <1>0, <2>2 DEF Reject
  <2>3. CASE Forward(t)
    BY <1>0, <2>3 DEF Forward
  <2>4. CASE Receive(t)
    BY <1>0, <2>4 DEF Receive
  <2>5. CASE ReceiveError(t)
    BY <1>0, <2>5 DEF ReceiveError
  <2>6. CASE ReceiveErrorWraps(t)
    BY <1>0, <2>6 DEF ReceiveErrorWraps
  <2>7. CASE ReceiveEnd(t)
    BY <1>0, <2>7 DEF ReceiveEnd
  <2>8. CASE EndThread(t)
    BY <1>0, <2>8 DEF EndThread
  <2>9. ASSUME NEW u \in Urls, ReadRequest(t, u) PROVE LockInv'
    BY <1>0, <2>9 DEF ReadRequest
  <2> QED
    BY <1>2, <2>1, <2>2, <2>3, <2>4, <2>5, <2>6, <2>7, <2>8, <2>9 DEF ThreadStep
<1>3. ASSUME NEW t \in Threads, CacheStep(t) PROVE LockInv'
  <2>1. CASE LookupRdlock(t)
    BY <1>0, <2>1 DEF LookupRdlock, CanRead
  <2>2. CASE LookupNext(t)
    BY <1>0, <2>2 DEF LookupNext
  <2>3. CASE LookupFreed(t)
    BY <1>0, <2>3 DEF LookupFreed
  <2>4. CASE LookupMiss(t)
    BY <1>0, <2>4 DEF LookupMiss
  <2>5. CASE LookupMatch(t)
    BY <1>0, <2>5 DEF LookupMatch
  <2>6. CASE LookupCopy(t)
    BY <1>0, <2>6 DEF LookupCopy
  <2>7. CASE LookupTouch(t)
    BY <1>0, <2>7 DEF LookupTouch
  <2>8. CASE AddWrlock(t)
    BY <1>0, <2>8 DEF AddWrlock, CanWrite
  <2>9. CASE AddEvict(t)
    BY <1>0, <2>9 DEF AddEvict
  <2>10. CASE AddEvictNull(t)
    BY <1>0, <2>10 DEF AddEvictNull
  <2>11. CASE AddOverrun(t)
    BY <1>0, <2>11 DEF AddOverrun
  <2>12. ASSUME NEW i \in Items, AddInsert(t, i) PROVE LockInv'
    BY <1>0, <2>12 DEF AddInsert
  <2> QED
    BY <1>3, <2>1, <2>2, <2>3, <2>4, <2>5, <2>6, <2>7, <2>8, <2>9, <2>10, <2>11, <2>12
    DEF CacheStep
<1>4. CASE Stopped
  BY <1>4 DEF Stopped, vars
<1> QED
  BY <1>1, <1>2, <1>3, <1>4 DEF Next

\* The three writers of the list are the only ones, and run without readers.
LEMMA Frozen ==
  ASSUME LockInv, Next, readers # {} PROVE cache' = cache
<1> USE DEF Goto, Die
<1>1. ASSUME NEW t \in Threads, Accept(t) PROVE cache' = cache
  BY <1>1 DEF Accept
<1>2. ASSUME NEW t \in Threads, ThreadStep(t) PROVE cache' = cache
  BY <1>2 DEF ThreadStep, BadRequest, Reject, Forward, Receive, ReceiveError,
     ReceiveErrorWraps, ReceiveEnd, EndThread, ReadRequest
<1>3. ASSUME NEW t \in Threads, CacheStep(t) PROVE cache' = cache
  <2>1. ~LookupTouch(t)
    BY DEF LookupTouch, CanWrite
  <2>2. pc[t] # "evict"
    BY ProxyAssumption DEF LockInv
  <2>3. ~AddEvict(t) /\ \A i \in Items : ~AddInsert(t, i)
    BY <2>2 DEF AddEvict, AddInsert
  <2> QED
    BY <1>3, <2>1, <2>3 DEF CacheStep, LookupRdlock, LookupNext, LookupFreed, LookupMiss,
       LookupMatch, LookupCopy, AddWrlock, AddEvictNull, AddOverrun
<1>4. CASE Stopped
  BY <1>4 DEF Stopped, vars
<1> QED
  BY <1>1, <1>2, <1>3, <1>4 DEF Next

-----------------------------------------------------------------------------
(* The item of a hit.                                                      *)

LEMMA LocalStep ==
  ASSUME TypeOK, LocalInv, Next PROVE LocalInv'
<1> USE DEF LocalInv, Goto, Die
<1>0. /\ pc \in [Threads -> Control] /\ cursor \in [Threads -> Pointer]
      /\ url \in [Threads -> Urls \cup {NULL}] /\ cache.live \subseteq Items
  BY DEF TypeOK, Cache
<1>1. ASSUME NEW t \in Threads, Accept(t) PROVE LocalInv'
  BY <1>0, <1>1 DEF Accept
<1>2. ASSUME NEW t \in Threads, ThreadStep(t) PROVE LocalInv'
  <2>1. CASE BadRequest(t)
    BY <1>0, <2>1 DEF BadRequest
  <2>2. CASE Reject(t)
    BY <1>0, <2>2 DEF Reject
  <2>3. CASE Forward(t)
    BY <1>0, <2>3 DEF Forward
  <2>4. CASE Receive(t)
    BY <1>0, <2>4 DEF Receive
  <2>5. CASE ReceiveError(t)
    BY <1>0, <2>5 DEF ReceiveError
  <2>6. CASE ReceiveErrorWraps(t)
    BY <1>0, <2>6 DEF ReceiveErrorWraps
  <2>7. CASE ReceiveEnd(t)
    BY <1>0, <2>7 DEF ReceiveEnd
  <2>8. CASE EndThread(t)
    BY <1>0, <2>8 DEF EndThread
  <2>9. ASSUME NEW u \in Urls, ReadRequest(t, u) PROVE LocalInv'
    BY <1>0, <2>9 DEF ReadRequest
  <2> QED
    BY <1>2, <2>1, <2>2, <2>3, <2>4, <2>5, <2>6, <2>7, <2>8, <2>9 DEF ThreadStep
<1>3. ASSUME NEW t \in Threads, CacheStep(t) PROVE LocalInv'
  <2>1. CASE LookupRdlock(t)
    BY <1>0, <2>1 DEF LookupRdlock
  <2>2. CASE LookupNext(t)
    BY <1>0, <2>2 DEF LookupNext
  <2>3. CASE LookupFreed(t)
    BY <1>0, <2>3 DEF LookupFreed
  <2>4. CASE LookupMiss(t)
    BY <1>0, <2>4 DEF LookupMiss
  <2>5. CASE LookupMatch(t)
    BY <1>0, <2>5 DEF LookupMatch, Matches
  <2>6. CASE LookupCopy(t)
    BY <1>0, <2>6 DEF LookupCopy
  <2>7. CASE LookupTouch(t)
    BY <1>0, <2>7 DEF LookupTouch
  <2>8. CASE AddWrlock(t)
    BY <1>0, <2>8 DEF AddWrlock
  <2>9. CASE AddEvict(t)
    BY <1>0, <2>9 DEF AddEvict
  <2>10. CASE AddEvictNull(t)
    BY <1>0, <2>10 DEF AddEvictNull
  <2>11. CASE AddOverrun(t)
    BY <1>0, <2>11 DEF AddOverrun
  <2>12. ASSUME NEW i \in Items, AddInsert(t, i) PROVE LocalInv'
    BY <1>0, <2>12 DEF AddInsert
  <2> QED
    BY <1>3, <2>1, <2>2, <2>3, <2>4, <2>5, <2>6, <2>7, <2>8, <2>9, <2>10, <2>11, <2>12
    DEF CacheStep
<1>4. CASE Stopped
  BY <1>4 DEF Stopped, vars
<1> QED
  BY <1>1, <1>2, <1>3, <1>4 DEF Next

\* A thread at "copy" after a step has just matched, or was there before.
LEMMA AtCopy ==
  ASSUME TypeOK, Next, NEW s \in Threads, pc'[s] = "copy"
  PROVE  \/ pc[s] = "copy" /\ cursor'[s] = cursor[s] /\ url'[s] = url[s]
         \/ LookupMatch(s)
<1> USE DEF Goto, Die
<1>0. /\ pc \in [Threads -> Control] /\ cursor \in [Threads -> Pointer]
      /\ url \in [Threads -> Urls \cup {NULL}]
  BY DEF TypeOK
<1> DEFINE Same == pc[s] = "copy" /\ cursor'[s] = cursor[s] /\ url'[s] = url[s]
<1>1. ASSUME NEW t \in Threads, Accept(t) PROVE Same
  BY <1>0, <1>1 DEF Accept
<1>2. ASSUME NEW t \in Threads, ThreadStep(t) PROVE Same
  <2>1. CASE BadRequest(t) \/ Reject(t) \/ Forward(t) \/ EndThread(t)
    BY <1>0, <2>1 DEF BadRequest, Reject, Forward, EndThread
  <2>2. CASE Receive(t) \/ ReceiveError(t) \/ ReceiveErrorWraps(t) \/ ReceiveEnd(t)
    BY <1>0, <2>2 DEF Receive, ReceiveError, ReceiveErrorWraps, ReceiveEnd
  <2>3. ASSUME NEW u \in Urls, ReadRequest(t, u) PROVE Same
    BY <1>0, <2>3 DEF ReadRequest
  <2> QED
    BY <1>2, <2>1, <2>2, <2>3 DEF ThreadStep
<1>3. ASSUME NEW t \in Threads, CacheStep(t) PROVE Same \/ LookupMatch(s)
  <2>1. CASE LookupRdlock(t) \/ LookupNext(t) \/ LookupFreed(t) \/ LookupMiss(t)
    BY <1>0, <2>1 DEF LookupRdlock, LookupNext, LookupFreed, LookupMiss
  <2>2. CASE LookupMatch(t)
    BY <1>0, <2>2 DEF LookupMatch
  <2>3. CASE LookupCopy(t) \/ LookupTouch(t) \/ AddWrlock(t)
    BY <1>0, <2>3 DEF LookupCopy, LookupTouch, AddWrlock
  <2>4. CASE AddEvict(t) \/ AddEvictNull(t) \/ AddOverrun(t)
    BY <1>0, <2>4 DEF AddEvict, AddEvictNull, AddOverrun
  <2>5. ASSUME NEW i \in Items, AddInsert(t, i) PROVE Same
    BY <1>0, <2>5 DEF AddInsert
  <2> QED
    BY <1>3, <2>1, <2>2, <2>3, <2>4, <2>5 DEF CacheStep
<1>4. CASE Stopped
  BY <1>0, <1>4 DEF Stopped, vars
<1> QED
  BY <1>1, <1>2, <1>3, <1>4 DEF Next

LEMMA HitStep ==
  ASSUME TypeOK, LockInv, HitIsOfUrl, Next PROVE HitIsOfUrl'
<1> SUFFICES ASSUME NEW s \in Threads, pc'[s] = "copy"
             PROVE  Matches(s)'
  BY DEF HitIsOfUrl
<1>1. CASE pc[s] = "copy" /\ cursor'[s] = cursor[s] /\ url'[s] = url[s]
  <2>1. Matches(s)
    BY <1>1 DEF HitIsOfUrl
  <2>2. readers # {}
    BY <1>1 DEF LockInv
  <2>3. cache' = cache
    BY <2>2, Frozen
  <2> QED
    BY <1>1, <2>1, <2>3 DEF Matches
<1>2. CASE LookupMatch(s)
  BY <1>2 DEF LookupMatch, Matches
<1> QED
  BY <1>1, <1>2, AtCopy

\* CacheInv is inductive.
THEOREM CacheInvariance == Spec => []CacheInv
<1>1. Init => CacheInv
  <2>1. Init => LockInv /\ LocalInv /\ HitIsOfUrl
    BY ProxyAssumption DEF Init, LockInv, LocalInv, HitIsOfUrl
  <2> QED
    BY <2>1, InitType DEF CacheInv
<1>2. CacheInv /\ [Next]_vars => CacheInv'
  <2> SUFFICES ASSUME CacheInv, [Next]_vars PROVE CacheInv'
    OBVIOUS
  <2>1. CASE Next
    BY <2>1, TypeStep, LockStep, LocalStep, HitStep DEF CacheInv
  <2>2. CASE UNCHANGED vars
    BY <2>2 DEF CacheInv, TypeOK, LockInv, LocalInv, HitIsOfUrl, Matches, vars
  <2> QED
    BY <2>1, <2>2
<1> QED
  BY <1>1, <1>2, PTL DEF Spec

\* The variables keep their types (remainlen, a size_t, does not go below 0).
THEOREM ProxyTypeCorrect == Spec => []TypeOK
BY CacheInvariance, PTL DEF CacheInv

\* cache_lookup copies from an allocated item of the URL it was asked for.
THEOREM HitsAreOfUrl == Spec => []HitIsOfUrl
BY CacheInvariance, PTL DEF CacheInv

\* No thread changes the list while another one walks it in cache_lookup.
THEOREM ReadersFreeze == Spec => ReadersFreezeCache
<1>1. CacheInv /\ [Next]_vars => [readers # {} => cache' = cache]_vars
  BY Frozen DEF CacheInv
<1> QED
  BY <1>1, CacheInvariance, PTL DEF Spec, ReadersFreezeCache

-----------------------------------------------------------------------------
(* The room of the cache.                                                  *)

\* What a step can do to the cache: a hit moves an item, an addition evicts
\* the tail or inserts an item at an address that was free.
LEMMA CacheChanges ==
  ASSUME CacheInv, Next
  PROVE  \/ Relinked(cache, cache')
         \/ cache.tail # NULL /\ Shrunk(cache, cache')
         \/ \E t \in Threads, i \in Items \ cache.live :
               /\ AddInsert(t, i) /\ url[t] \in Urls /\ object[t] \in Seq(Byte)
               /\ Grown(cache, cache', i, url[t], Strcpy(object[t]))
<1> USE DEF CacheInv
<1>0. cache \in Cache
  BY DEF TypeOK
<1>1. CASE cache' = cache
  BY <1>0, <1>1 DEF Relinked, SameItem
<1>2. ASSUME NEW t \in Threads, LookupTouch(t) PROVE Relinked(cache, cache')
  <2>1. cursor[t] \in Items
    BY <1>2 DEF LookupTouch, Goto, LocalInv
  <2> QED
    BY <1>0, <1>2, <2>1, MoveRelinks DEF LookupTouch
<1>3. ASSUME NEW t \in Threads, AddEvict(t) PROVE cache.tail # NULL /\ Shrunk(cache, cache')
  BY <1>0, <1>3, EvictShrinks DEF AddEvict
<1>4. ASSUME NEW t \in Threads, NEW i \in Items, AddInsert(t, i)
      PROVE  /\ i \in Items \ cache.live /\ url[t] \in Urls /\ object[t] \in Seq(Byte)
             /\ Grown(cache, cache', i, url[t], Strcpy(object[t]))
  <2>1. url[t] \in Urls /\ object[t] \in Seq(Byte) /\ i \notin cache.live
    BY <1>4 DEF AddInsert, Goto, LocalInv, TypeOK
  <2>2. Len(object[t]) <= cache.remainlen
    BY <1>0, <1>4, <2>1 DEF AddInsert, NeedsRoom, Cache
  <2> QED
    BY <1>0, <1>4, <2>1, <2>2, InsertGrows DEF AddInsert
<1>5. ASSUME NEW t \in Threads, CacheStep(t)
      PROVE  \/ LookupTouch(t) \/ AddEvict(t) \/ \E i \in Items : AddInsert(t, i)
             \/ cache' = cache
  BY <1>5 DEF CacheStep, LookupRdlock, LookupNext, LookupFreed, LookupMiss, LookupMatch,
     LookupCopy, AddWrlock, AddEvictNull, AddOverrun, Die
<1>6. ASSUME NEW t \in Threads, ThreadStep(t) PROVE cache' = cache
  BY <1>6 DEF ThreadStep, BadRequest, Reject, Forward, Receive, ReceiveError,
     ReceiveErrorWraps, ReceiveEnd, EndThread, ReadRequest, Die
<1>7. ASSUME NEW t \in Threads, Accept(t) PROVE cache' = cache
  BY <1>7 DEF Accept
<1>8. CASE Stopped
  BY <1>1, <1>8 DEF Stopped, vars
<1> QED
  BY <1>1, <1>2, <1>3, <1>4, <1>5, <1>6, <1>7, <1>8 DEF Next

\* The inductive invariant of the room.
RoomInv == CacheInv /\ Room(cache)

\* cache_add and cache_evict keep the books: the bytes on the heap and
\* remainlen add up to MAX_CACHE_SIZE after every step of every thread, also
\* when the tail that is evicted was freed before.
THEOREM RoomIsExact == Spec => []RoomExact
<1>1. Init /\ CacheInv => RoomInv
  BY RoomInit DEF Init, RoomInv
<1>2. RoomInv /\ CacheInv' /\ [Next]_vars => RoomInv'
  <2> SUFFICES ASSUME CacheInv, Room(cache), [Next]_vars PROVE Room(cache')
    BY DEF RoomInv
  <2>0. cache \in Cache
    BY DEF CacheInv, TypeOK
  <2>1. CASE UNCHANGED vars
    BY <2>1 DEF vars
  <2>2. CASE Relinked(cache, cache')
    BY <2>0, <2>2, RoomMove
  <2>3. CASE cache.tail # NULL /\ Shrunk(cache, cache')
    BY <2>0, <2>3, RoomEvict
  <2>4. ASSUME NEW t \in Threads, NEW i \in Items \ cache.live, object[t] \in Seq(Byte),
               Grown(cache, cache', i, url[t], Strcpy(object[t]))
        PROVE  Room(cache')
    <3>1. Strcpy(object[t]) \in Seq(Byte)
      BY <2>4, StrcpyCopies
    <3> QED
      BY <2>0, <2>4, <3>1, RoomInsert
  <2> QED
    BY <2>1, <2>2, <2>3, <2>4, CacheChanges
<1>3. RoomInv => RoomExact
  BY DEF RoomInv, CacheInv, TypeOK, Cache, Room, RoomExact
<1> QED
  BY <1>1, <1>2, <1>3, CacheInvariance, PTL DEF Spec

-----------------------------------------------------------------------------
(* The data.                                                               *)

\* size_t arithmetic: a sum below the modulus, and -1 added to a number.
LEMMA SizeArithmetic ==
  ASSUME NEW n \in Nat, NEW m \in Nat \ {0}, n < m
  PROVE  /\ n % m = n
         /\ n > 0 => (n + (m - 1)) % m = n - 1
<1>1. ASSUME NEW r \in Nat, r < m PROVE r % m = r
  <2>1. r = m * (r \div m) + (r % m) /\ r % m \in 0..(m - 1) /\ r \div m \in Int
    OBVIOUS
  <2> QED
    BY <1>1, <2>1
<1>2. ASSUME n > 0 PROVE (n + (m - 1)) % m = n - 1
  <2>1. (n + (m - 1)) % m = ((n - 1) + m) % m
    OBVIOUS
  <2>2. PICK r \in Nat : r = n - 1
    BY <1>2
  <2>3. (r + m) % m = r
    <3>1. PICK q \in Int, s \in 0..(m - 1) : r + m = m * q + s /\ s = (r + m) % m
      OBVIOUS
    <3> QED
      BY <3>1, <2>2
  <2> QED
    BY <2>1, <2>2, <2>3
<1> QED
  BY <1>1, <1>2

LEMMA BytesAssociate ==
  ASSUME NEW a \in Seq(Byte), NEW b \in Seq(Byte), NEW c \in Seq(Byte)
  PROVE  (a \o b) \o c = a \o (b \o c)
BY ConcatAssociative

\* What a server sends is a sequence of bytes.
LEMMA SentAreBytes ==
  ASSUME NEW s \in Seq(Nat) PROVE s \in Seq(Byte)
BY DEF Byte

\* A response is a sequence of bytes.
LEMMA ResponsesAreBytes ==
  ASSUME NEW u \in Urls, NEW b \in Responses[u]
  PROVE  b \in Seq(Nat) /\ b \in Seq(Byte)
<1>1. b \in Seq(Nat)
  BY ProxyAssumption
<1> QED
  BY <1>1, SentAreBytes

\* A step of a thread leaves the variables of the others alone.
LEMMA OthersKeep ==
  ASSUME TypeOK, NEW t \in Threads, Accept(t) \/ ThreadStep(t) \/ CacheStep(t),
         NEW s \in Threads \ {t}
  PROVE  /\ pc'[s] = pc[s] /\ url'[s] = url[s] /\ object'[s] = object[s]
         /\ rest'[s] = rest[s] /\ reply'[s] = reply[s]
<1> USE DEF Goto, Die, TypeOK
<1> DEFINE Kept == /\ pc'[s] = pc[s] /\ url'[s] = url[s] /\ object'[s] = object[s]
                   /\ rest'[s] = rest[s] /\ reply'[s] = reply[s]
<1>1. CASE Accept(t)
  BY <1>1 DEF Accept
<1>2. CASE ThreadStep(t)
  <2>1. CASE BadRequest(t) \/ Reject(t) \/ Forward(t) \/ EndThread(t)
    BY <2>1 DEF BadRequest, Reject, Forward, EndThread
  <2>2. CASE Receive(t)
    BY <2>2 DEF Receive
  <2>3. CASE ReceiveError(t) \/ ReceiveErrorWraps(t) \/ ReceiveEnd(t)
    BY <2>3 DEF ReceiveError, ReceiveErrorWraps, ReceiveEnd
  <2>4. ASSUME NEW u \in Urls, ReadRequest(t, u) PROVE Kept
    BY <2>4 DEF ReadRequest
  <2> QED
    BY <1>2, <2>1, <2>2, <2>3, <2>4 DEF ThreadStep
<1>3. CASE CacheStep(t)
  <2>1. CASE LookupRdlock(t) \/ LookupNext(t) \/ LookupFreed(t) \/ LookupMiss(t)
    BY <2>1 DEF LookupRdlock, LookupNext, LookupFreed, LookupMiss
  <2>2. CASE LookupMatch(t) \/ LookupCopy(t) \/ LookupTouch(t) \/ AddWrlock(t)
    BY <2>2 DEF LookupMatch, LookupCopy, LookupTouch, AddWrlock
  <2>3. CASE AddEvict(t) \/ AddEvictNull(t) \/ AddOverrun(t)
    BY <2>3 DEF AddEvict, AddEvictNull, AddOverrun
  <2>4. ASSUME NEW i \in Items, AddInsert(t, i) PROVE Kept
    BY <2>4 DEF AddInsert
  <2> QED
    BY <1>3, <2>1, <2>2, <2>3, <2>4 DEF CacheStep
<1> QED
  BY <1>1, <1>2, <1>3

\* The chunk that Receive reads goes to the client and into the object.
LEMMA ReceiveData ==
  ASSUME ReplyInv, NEW t \in Threads, Receive(t)
  PROVE  ThreadData(t)'
<1> USE DEF ReplyInv, CacheInv
<1>0. pc'[t] = "receive" /\ url' = url
  BY DEF Receive, Goto, TypeOK
<1> SUFFICES ASSUME Plain(url[t]) PROVE ThreadData(t)'
  BY <1>0 DEF ThreadData, Plain
<1>1. /\ url[t] \in Urls /\ rest[t] # <<>> /\ object[t] = reply[t]
      /\ reply[t] \o rest[t] \in Responses[url[t]]
      /\ pc'[t] = "receive" /\ url' = url
  BY DEF Receive, Goto, ThreadData, LocalInv, TypeOK
<1>2. PICK r : r = Chunk(t)
  OBVIOUS
<1>3. PICK z : z = SubSeq(rest[t], Len(r) + 1, Len(rest[t]))
  OBVIOUS
<1>4. /\ r \in Seq(Byte) /\ z \in Seq(Nat) /\ r \o z = rest[t]
      /\ Len(r) <= Len(rest[t])
  BY <1>1, <1>2, <1>3, ChunkType
<1>5. z \in Seq(Byte) /\ reply[t] \in Seq(Byte) /\ rest[t] \in Seq(Byte)
  <2>1. reply[t] \in Seq(Byte) /\ rest[t] \in Seq(Nat)
    BY DEF TypeOK
  <2> QED
    BY <1>4, <2>1, SentAreBytes
<1>6. (reply[t] \o r) \o z = reply[t] \o rest[t]
  <2>1. PICK a \in Seq(Byte) : a = reply[t]
    BY <1>5
  <2>2. r \in Seq(Byte) /\ z \in Seq(Byte)
    BY <1>4, <1>5
  <2>3. (a \o r) \o z = a \o (r \o z)
    BY <2>2, BytesAssociate
  <2> QED
    BY <1>4, <2>1, <2>3
<1>7. Len(reply[t] \o rest[t]) < MAX_OBJECT_SIZE
  BY <1>1 DEF Plain
<1>8. Len(object[t]) + Len(r) \in Nat /\ Len(object[t]) + Len(r) < MAX_OBJECT_SIZE
  <2>1. Len(reply[t] \o rest[t]) = Len(reply[t]) + Len(rest[t])
    BY <1>5, ConcatProperties, Zenon
  <2>2. Len(reply[t]) \in Nat /\ Len(r) \in Nat /\ Len(rest[t]) \in Nat
    BY <1>4, <1>5
  <2>3. PICK a \in Nat, b \in Nat, c \in Nat :
              a = Len(reply[t]) /\ b = Len(r) /\ c = Len(rest[t])
    BY <2>2
  <2>4. b <= c /\ a + c < MAX_OBJECT_SIZE
    BY <1>4, <1>7, <2>1, <2>3
  <2>5. a + b \in Nat /\ a + b < MAX_OBJECT_SIZE
    BY <2>4, ListAssumption
  <2> QED
    BY <1>1, <2>3, <2>5
<1>9. Fits(t, Len(r))
  <2>1. PICK n \in Nat : n = Len(object[t]) + Len(r)
    BY <1>8
  <2>2. n < SIZE_T /\ SIZE_T \in Nat \ {0} /\ n <= MAX_OBJECT_SIZE
    BY <1>8, <2>1, ListAssumption, ProxyAssumption
  <2>3. n % SIZE_T = n
    BY <2>2, SizeArithmetic
  <2> QED
    BY <2>1, <2>2, <2>3 DEF Fits
<1>10. /\ reply'[t] = reply[t] \o r
       /\ rest'[t] = z
       /\ object'[t] = object[t] \o r
  <2>1. /\ reply' = [reply EXCEPT ![t] = reply[t] \o r]
        /\ rest' = [rest EXCEPT ![t] = z]
        /\ object' = [object EXCEPT ![t] = IF Fits(t, Len(r)) THEN object[t] \o r ELSE object[t]]
    BY <1>2, <1>3 DEF Receive
  <2> QED
    BY <1>9, <2>1 DEF TypeOK
<1> QED
  BY <1>1, <1>6, <1>10 DEF ThreadData

\* Only a connection that breaks before its first byte is survived.
LEMMA ReceiveErrorData ==
  ASSUME ReplyInv, NEW t \in Threads, ReceiveError(t)
  PROVE  ThreadData(t)'
<1> USE DEF ReplyInv, CacheInv
<1>0. pc'[t] = "receive" /\ url' = url
  BY DEF ReceiveError, Goto, TypeOK
<1> SUFFICES ASSUME Plain(url[t]) PROVE ThreadData(t)'
  BY <1>0 DEF ThreadData, Plain
<1>1. /\ url[t] \in Urls /\ object[t] = reply[t]
      /\ reply[t] \o rest[t] \in Responses[url[t]] \/ reply[t] = <<>>
      /\ pc'[t] = "receive" /\ rest'[t] = <<>>
      /\ reply' = reply /\ object' = object /\ url' = url
  BY DEF ReceiveError, Goto, ThreadData, LocalInv, TypeOK
<1>2. reply[t] \in Seq(Byte) /\ rest[t] \in Seq(Byte)
  <2>1. reply[t] \in Seq(Byte) /\ rest[t] \in Seq(Nat)
    BY DEF TypeOK
  <2> QED
    BY <2>1, SentAreBytes
<1>3. Len(reply[t]) \in Nat /\ Len(rest[t]) \in Nat
  BY <1>2
<1>4. reply[t] = <<>>
  <2> SUFFICES ASSUME reply[t] # <<>> PROVE FALSE
    OBVIOUS
  <2>1. Len(reply[t]) > 0
    BY <1>2
  <2>2. Len(reply[t] \o rest[t]) < MAX_OBJECT_SIZE
    BY <1>1 DEF Plain
  <2>3. Len(reply[t] \o rest[t]) = Len(reply[t]) + Len(rest[t])
    BY <1>2, ConcatProperties, Zenon
  <2>4. PICK n \in Nat, m \in Nat : n = Len(reply[t]) /\ m = Len(rest[t])
    BY <1>3
  <2>5. n + m < MAX_OBJECT_SIZE /\ n > 0
    BY <2>1, <2>2, <2>3, <2>4
  <2>6. n < MAX_OBJECT_SIZE /\ n < SIZE_T /\ SIZE_T \in Nat \ {0}
    BY <2>5, ListAssumption, ProxyAssumption
  <2>7. (n + (SIZE_T - 1)) % SIZE_T = n - 1
    BY <2>5, <2>6, SizeArithmetic
  <2>8. n - 1 <= MAX_OBJECT_SIZE
    BY <2>6, ListAssumption
  <2>9. Fits(t, SIZE_T - 1)
    BY <1>1, <2>4, <2>7, <2>8 DEF Fits
  <2> QED
    BY <2>9 DEF ReceiveError
<1> QED
  BY <1>1, <1>4 DEF ThreadData

\* The other steps of a thread, its lookups and its end.
LEMMA DataStep ==
  ASSUME ReplyInv, NEW t \in Threads,
         Accept(t) \/ ThreadStep(t) \/ CacheStep(t)
  PROVE  ThreadData(t)'
<1> USE DEF Goto, Die
<1>0. /\ pc \in [Threads -> Control] /\ url \in [Threads -> Urls \cup {NULL}]
      /\ object \in [Threads -> Seq(Byte)] /\ rest \in [Threads -> Seq(Nat)]
      /\ reply \in [Threads -> Seq(Byte)]
      /\ ThreadData(t)
  BY DEF ReplyInv, CacheInv, TypeOK
<1>1. CASE Accept(t)
  BY <1>0, <1>1 DEF Accept, ThreadData
<1>2. CASE ThreadStep(t)
  <2>1. CASE BadRequest(t)
    BY <1>0, <2>1 DEF BadRequest, ThreadData, Whole
  <2>2. CASE Reject(t)
    BY <1>0, <2>2 DEF Reject, ThreadData, Whole
  <2>3. CASE Forward(t)
    <3>1. PICK b \in Responses[url[t]] : rest' = [rest EXCEPT ![t] = b]
      BY <2>3 DEF Forward
    <3>2. url[t] \in Urls
      BY <2>3 DEF Forward, ReplyInv, CacheInv, LocalInv
    <3>3. b \in Seq(Byte)
      BY <3>1, <3>2, ResponsesAreBytes
    <3>4. <<>> \o b = b
      BY <3>3
    <3>5. /\ pc'[t] = "receive" /\ url' = url /\ reply'[t] = <<>> /\ object'[t] = <<>>
          /\ rest'[t] = b
      BY <1>0, <2>3, <3>1 DEF Forward, ThreadData
    <3> QED
      BY <3>1, <3>4, <3>5 DEF ThreadData
  <2>4. CASE Receive(t)
    BY <2>4, ReceiveData
  <2>5. CASE ReceiveError(t)
    BY <2>5, ReceiveErrorData
  <2>6. CASE ReceiveErrorWraps(t)
    BY <1>0, <2>6 DEF ReceiveErrorWraps, ThreadData, Whole
  <2>7. CASE ReceiveEnd(t)
    <3>1. reply[t] \o <<>> = reply[t]
      BY <1>0
    <3>2. Whole(reply[t], url[t]) /\ (Plain(url[t]) => object[t] = reply[t])
      BY <1>0, <2>7, <3>1 DEF ReceiveEnd, ThreadData, Whole
    <3> QED
      BY <1>0, <2>7, <3>2 DEF ReceiveEnd, ThreadData, Whole
  <2>8. CASE EndThread(t)
    BY <1>0, <2>8 DEF EndThread, ThreadData
  <2>9. ASSUME NEW u \in Urls, ReadRequest(t, u) PROVE ThreadData(t)'
    BY <1>0, <2>9 DEF ReadRequest, ThreadData
  <2> QED
    BY <1>2, <2>1, <2>2, <2>3, <2>4, <2>5, <2>6, <2>7, <2>8, <2>9 DEF ThreadStep
<1>3. CASE CacheStep(t)
  <2>1. CASE LookupRdlock(t)
    BY <1>0, <2>1 DEF LookupRdlock, ThreadData
  <2>2. CASE LookupNext(t)
    BY <1>0, <2>2 DEF LookupNext, ThreadData
  <2>3. CASE LookupFreed(t)
    BY <1>0, <2>3 DEF LookupFreed, ThreadData, Whole
  <2>4. CASE LookupMiss(t)
    BY <1>0, <2>4 DEF LookupMiss, ThreadData
  <2>5. CASE LookupMatch(t)
    BY <1>0, <2>5 DEF LookupMatch, ThreadData
  <2>6. CASE LookupCopy(t)
    <3>1. Matches(t)
      BY <2>6 DEF LookupCopy, ReplyInv, CacheInv, HitIsOfUrl
    <3>2. Whole(cache.item[cursor[t]].object, url[t])
      BY <3>1 DEF Matches, ReplyInv, StoredInv
    <3>3. object'[t] = cache.item[cursor[t]].object /\ url' = url /\ pc'[t] = "touch"
          /\ reply'[t] = <<>>
      BY <1>0, <2>6 DEF LookupCopy, ThreadData
    <3> QED
      BY <3>2, <3>3 DEF ThreadData, Whole
  <2>7. CASE LookupTouch(t)
    <3>1. reply[t] = <<>> /\ Whole(object[t], url[t])
      BY <1>0, <2>7 DEF LookupTouch, ThreadData
    <3>2. <<>> \o object[t] = object[t]
      BY <1>0
    <3>3. reply'[t] = object[t] /\ url' = url
          /\ pc'[t] = IF object[t] = <<>> THEN "miss" ELSE "end"
      BY <1>0, <2>7, <3>1, <3>2 DEF LookupTouch
    <3> QED
      BY <3>1, <3>3 DEF ThreadData, Whole
  <2>8. CASE AddWrlock(t)
    BY <1>0, <2>8 DEF AddWrlock, ThreadData, Whole
  <2>9. CASE AddEvict(t)
    BY <1>0, <2>9 DEF AddEvict, ThreadData, Whole
  <2>10. CASE AddEvictNull(t)
    BY <1>0, <2>10 DEF AddEvictNull, ThreadData, Whole
  <2>11. CASE AddOverrun(t)
    BY <1>0, <2>11 DEF AddOverrun, ThreadData, Whole
  <2>12. ASSUME NEW i \in Items, AddInsert(t, i) PROVE ThreadData(t)'
    BY <1>0, <2>12 DEF AddInsert, ThreadData, Whole
  <2> QED
    BY <1>3, <2>1, <2>2, <2>3, <2>4, <2>5, <2>6, <2>7, <2>8, <2>9, <2>10, <2>11, <2>12
    DEF CacheStep
<1> QED
  BY <1>1, <1>2, <1>3

\* Objects stay whole: moves and evictions do not touch the others, and an
\* addition copies a whole object.
LEMMA StoredStep ==
  ASSUME ReplyInv, Next PROVE StoredInv'
<1> USE DEF ReplyInv
<1>0. cache \in Cache /\ cache.live \subseteq Items
  BY DEF CacheInv, TypeOK, Cache
<1>1. CASE Relinked(cache, cache')
  BY <1>0, <1>1 DEF Relinked, SameItem, StoredInv, Whole
<1>2. CASE Shrunk(cache, cache')
  BY <1>0, <1>2 DEF Shrunk, SameItem, StoredInv, Whole
<1>3. ASSUME NEW t \in Threads, NEW i \in Items \ cache.live,
             AddInsert(t, i), url[t] \in Urls, object[t] \in Seq(Byte),
             Grown(cache, cache', i, url[t], Strcpy(object[t]))
      PROVE  StoredInv'
  <2>1. Whole(object[t], url[t])
    BY <1>3 DEF AddInsert, Goto, ThreadData, Whole
  <2>2. Plain(url[t]) => Strcpy(object[t]) = object[t]
    <3> SUFFICES ASSUME Plain(url[t]) PROVE Strcpy(object[t]) = object[t]
      OBVIOUS
    <3>1. \A k \in DOMAIN object[t] : object[t][k] # 0
      BY <2>1 DEF Whole, Plain
    <3> QED
      BY <1>3, <3>1, StrcpyCopies
  <2>3. Whole(Strcpy(object[t]), url[t])
    BY <2>1, <2>2 DEF Whole
  <2> QED
    BY <1>0, <1>3, <2>3 DEF Grown, SameItem, StoredInv, Whole
<1> QED
  BY <1>1, <1>2, <1>3, CacheChanges

\* ReplyInv is inductive: what threads hold and the cache stores of plain
\* URLs is whole.
THEOREM ReplyInvariance == Spec => []ReplyInv
<1>1. Init /\ CacheInv => ReplyInv
  BY DEF Init, ReplyInv, StoredInv, ThreadData, cache_init
<1>2. ReplyInv /\ CacheInv' /\ [Next]_vars => ReplyInv'
  <2> SUFFICES ASSUME ReplyInv, CacheInv', [Next]_vars PROVE ReplyInv'
    OBVIOUS
  <2>1. CASE Next
    <3>1. StoredInv'
      BY <2>1, StoredStep
    <3>2. ASSUME NEW s \in Threads PROVE ThreadData(s)'
      <4>1. CASE Stopped
        BY <4>1 DEF Stopped, vars, ReplyInv, ThreadData, Whole
      <4>2. ASSUME NEW t \in Threads, Accept(t) \/ ThreadStep(t) \/ CacheStep(t)
            PROVE  ThreadData(s)'
        <5>1. CASE s = t
          BY <4>2, <5>1, DataStep
        <5>2. CASE s # t
          <6>1. /\ pc'[s] = pc[s] /\ url'[s] = url[s] /\ object'[s] = object[s]
                /\ rest'[s] = rest[s] /\ reply'[s] = reply[s]
            BY <4>2, <5>2, OthersKeep DEF ReplyInv, CacheInv
          <6> QED
            BY <6>1 DEF ReplyInv, ThreadData, Whole
        <5> QED
          BY <5>1, <5>2
      <4> QED
        BY <2>1, <4>1, <4>2 DEF Next
    <3> QED
      BY <3>1, <3>2 DEF ReplyInv
  <2>2. CASE UNCHANGED vars
    BY <2>2 DEF ReplyInv, StoredInv, ThreadData, Whole, vars
  <2> QED
    BY <2>1, <2>2
<1> QED
  BY <1>1, <1>2, CacheInvariance, PTL DEF Spec

\* What a client has been sent when its connection is closed is nothing, or
\* all of a response of the server it asked for, from the server or from the
\* cache, if the responses of that server are short and without NUL.
THEOREM RepliesWhole == Spec => []RepliesAreResponses
<1>1. ReplyInv => RepliesAreResponses
  BY DEF ReplyInv, ThreadData, Whole, RepliesAreResponses
<1> QED
  BY <1>1, ReplyInvariance, PTL

=============================================================================
