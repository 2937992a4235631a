------------------------------ MODULE Allocator ------------------------------
(***************************************************************************)
(* What a malloc package promises to the program that calls it: the blocks *)
(* that the program holds are aligned, lie inside the heap and do not      *)
(* overlap, and what is in a block changes only when the program writes to *)
(* it.  A realloc may move a block and keeps as much of its contents as    *)
(* fits.  Where a block goes is up to the package.                         *)
(***************************************************************************)
EXTENDS Integers, Sequences

CONSTANTS
    Lo, Hi,     \* the first byte of the heap, and the byte behind it
    WordSize

VARIABLES
    held,   \* the blocks the program holds, by their index: where they start,
            \* and the words in them
    fresh   \* the blocks the package has just returned, which the program
            \* is about to fill

Bytes(b) == b.lo .. b.lo + WordSize * Len(b.data) - 1

Placed(blocks, i) ==
    /\ blocks[i].lo % (2 * WordSize) = 0
    /\ Len(blocks[i].data) > 0
    /\ Bytes(blocks[i]) \subseteq Lo .. Hi - 1
    /\ \A j \in DOMAIN blocks \ {i} : Bytes(blocks[i]) \cap Bytes(blocks[j]) = {}

\* The blocks of the others stay where they are and as they are.
OthersKept(i) ==
    \A j \in DOMAIN held \ {i} : j \in DOMAIN held' /\ held'[j] = held[j]

SmallerOf(a, b) == IF a < b THEN a ELSE b

Init == DOMAIN held = {} /\ fresh = {}

Malloc(i) ==
    /\ fresh = {} /\ fresh' = {i}
    /\ i \notin DOMAIN held
    /\ DOMAIN held' = DOMAIN held \cup {i}
    /\ Placed(held', i)
    /\ OthersKept(i)

Realloc(i) ==
    /\ fresh = {} /\ fresh' = {i}
    /\ i \in DOMAIN held
    /\ DOMAIN held' = DOMAIN held
    /\ Placed(held', i)
    /\ \A k \in 1 .. SmallerOf(Len(held[i].data), Len(held'[i].data)) :
           held'[i].data[k] = held[i].data[k]
    /\ OthersKept(i)

Write(i) ==
    /\ fresh = {i} /\ fresh' = {}
    /\ i \in DOMAIN held
    /\ DOMAIN held' = DOMAIN held
    /\ held'[i].lo = held[i].lo
    /\ Len(held'[i].data) = Len(held[i].data)
    /\ OthersKept(i)

Free(i) ==
    /\ fresh = {} /\ fresh' = {}
    /\ i \in DOMAIN held
    /\ DOMAIN held' = DOMAIN held \ {i}
    /\ OthersKept(i)

\* The program is through with its blocks and starts over.
StartOver == DOMAIN held' = {} /\ fresh' = {}

Next ==
    \/ \E i \in DOMAIN held' \cup DOMAIN held :
           Malloc(i) \/ Realloc(i) \/ Write(i) \/ Free(i)
    \/ StartOver

Spec == Init /\ [][Next]_<<held, fresh>>
=============================================================================
