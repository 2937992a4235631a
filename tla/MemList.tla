------------------------------ MODULE MemList ------------------------------
(***************************************************************************)
(* utils/memlist.c: the list in which the memory tracer keeps the blocks   *)
(* it has seen, ordered by address, with a count that is 0 for a block     *)
(* that was freed.  The sequence leaves out the dummy first element.       *)
(***************************************************************************)
EXTENDS Integers, SequencesExt

new_list == <<>>

\* Where the walk for ptr stops: behind the items with smaller addresses.
Behind(list, ptr) ==
    CHOOSE n \in 0 .. Len(list) :
        /\ \A k \in 1 .. n : list[k].ptr < ptr
        /\ n < Len(list) => list[n + 1].ptr >= ptr

alloc_Appends(list, ptr, size) ==
    Append(list, [ptr |-> ptr, size |-> size, cnt |-> 1])

\* The item of a block that was freed is used again.  That there may be no
\* list, or no memory for the item, is left to the caller (Enter of MemTrace).
alloc(list, ptr, size) ==
    LET n == Behind(list, ptr)
    IN  IF n < Len(list) /\ list[n + 1].ptr = ptr
        THEN [list EXCEPT ![n + 1].size = size, ![n + 1].cnt = @ + 1]
        ELSE InsertAt(list, n + 1, [ptr |-> ptr, size |-> size, cnt |-> 1])

dealloc_Removes(list, ptr) == SelectSeq(list, LAMBDA i : i.ptr # ptr)

\* The first item with that address.
dealloc(list, ptr) ==
    LET here == {k \in DOMAIN list : list[k].ptr = ptr}
    IN  IF here = {} THEN list
        ELSE [list EXCEPT ![CHOOSE k \in here : \A j \in here : k <= j].cnt = @ - 1]

\* The set of the item found: empty where find returns NULL.
find(list, ptr) ==
    LET n == Behind(list, ptr)
    IN  {list[k] : k \in {j \in {n + 1} \cap DOMAIN list : list[j].ptr = ptr}}
=============================================================================
