------------------------------ MODULE CacheList ------------------------------
(***************************************************************************)
(* The data structure of the proxy's cache, proxylab-handout/cache.c: the  *)
(* list of cached objects on a small heap.  A cache is a record of the     *)
(* three fields of CacheList, of the set of items that are allocated and   *)
(* of the contents of every item.  The operators return the new cache.     *)
(*                                                                         *)
(* A byte is a number, 0 is NUL, and Junk is a byte that nobody wrote.     *)
(* The length of an item's object stands for its objectlen.                *)
(***************************************************************************)
EXTENDS Integers, Sequences, FiniteSets, FiniteSetsExt

CONSTANTS
    Items,            \* the addresses Malloc may give to a CacheItem
    NULL,             \* the null pointer
    Urls,             \* the URLs clients ask for
    MAX_CACHE_SIZE,
    MAX_OBJECT_SIZE

ASSUME ListAssumption ==
    /\ NULL \notin Items
    /\ MAX_CACHE_SIZE \in Nat
    /\ MAX_OBJECT_SIZE \in Nat \ {0}

Junk == -1

Byte == Nat \cup {Junk}

Pointer == Items \cup {NULL}

CacheItem == [tag : Urls \cup {NULL}, object : Seq(Byte), prev : Pointer, next : Pointer]

Cache == [head : Pointer, tail : Pointer, remainlen : Nat,
          live : SUBSET Items, item : [Items -> CacheItem]]

\* An item that was never allocated.
Raw == [tag |-> NULL, object |-> <<>>, prev |-> NULL, next |-> NULL]

objectlen(c, i) == Len(c.item[i].object)

cache_init ==
    [head |-> NULL, tail |-> NULL, remainlen |-> MAX_CACHE_SIZE,
     live |-> {}, item |-> [i \in Items |-> Raw]]

(***************************************************************************)
(* move_to_head.  The three assignments that unlink the item come first,   *)
(* on the fields as they are; the item may be one that was freed since the *)
(* caller found it, and is then written to all the same.                   *)
(***************************************************************************)
Unlinked(c, i) ==
    LET p == c.item[i].prev
        n == c.item[i].next
        bypassed == IF p = NULL THEN c.item
                    ELSE [c.item EXCEPT ![p].next = n]
    IN  [c EXCEPT !.tail = IF c.tail = i THEN p ELSE @,
                  !.item = IF n = NULL THEN bypassed
                           ELSE [bypassed EXCEPT ![n].prev = p]]

move_to_head(c, i) ==
    CASE c.head = i -> c
      [] c.head = NULL -> [c EXCEPT !.head = i, !.tail = i]
      [] OTHER -> [Unlinked(c, i) EXCEPT
                      !.item[i] = [@ EXCEPT !.prev = NULL, !.next = c.head],
                      !.head = i]

\* cache_evict that does not give the room back.
cache_evict_NoRoom(c) ==
    LET temp == c.tail
    IN  [c EXCEPT !.tail = c.item[temp].prev,
                  !.live = @ \ {temp},
                  !.item[temp] = [@ EXCEPT !.tag = NULL, !.object = <<>>]]

(***************************************************************************)
(* cache_evict, for a tail that is not NULL.  A freed item keeps its two   *)
(* links; its tag and its object are gone.                                 *)
(***************************************************************************)
cache_evict(c) ==
    LET temp == c.tail
    IN  [c EXCEPT !.tail = c.item[temp].prev,
                  !.remainlen = @ + objectlen(c, temp),
                  !.live = @ \ {temp},
                  !.item[temp] = [@ EXCEPT !.tag = NULL, !.object = <<>>]]

\* A copy of one byte less.
Strcpy_Short(o) == [k \in DOMAIN o |-> IF k = Len(o) THEN Junk ELSE o[k]]

\* strcpy into a fresh buffer: what follows the first NUL is not copied.
Strcpy(o) == [k \in DOMAIN o |-> IF \E j \in 1..(k - 1) : o[j] = 0 THEN Junk ELSE o[k]]

(***************************************************************************)
(* cache_add after its evictions: i is the address that Malloc returns.    *)
(***************************************************************************)
Inserted(c, i, url, object) ==
    move_to_head(
        [c EXCEPT !.live = @ \cup {i},
                  !.item[i] = [tag |-> url, object |-> Strcpy(object),
                               prev |-> NULL, next |-> NULL],
                  !.remainlen = @ - Len(object)],
        i)

\* The bytes of the objects that are allocated: each one by its item and its
\* place in the object; and their number.
Stored(c) == UNION {{i} \X DOMAIN c.item[i].object : i \in c.live}
StoredBytes(c) == Cardinality(Stored(c))

=============================================================================
