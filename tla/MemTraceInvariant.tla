-------------------------- MODULE MemTraceInvariant --------------------------
(***************************************************************************)
(* The inductive invariant of the memory tracer, from which module         *)
(* MemTraceProofs derives its safety.                                      *)
(***************************************************************************)
EXTENDS MemTrace

TraceType ==
    /\ part \in {1, 2, 3}
    /\ DOMAIN live \subseteq Ptrs
    /\ live \in [DOMAIN live -> Nat]
    /\ {n_allocb, n_freeb, unlisted} \subseteq Int

Item == [ptr : Ptrs, size : Nat, cnt : Int]

Ordered(l) == \A j, k \in DOMAIN l : j < k => l[j].ptr < l[k].ptr

\* The item tells whether its block is in use, and bounds its size.
Right(i, lv) ==
    /\ i.cnt \in {0, 1}
    /\ i.cnt = 1 <=> i.ptr \in DOMAIN lv
    /\ i.cnt = 1 => lv[i.ptr] <= i.size

\* What the program was given is listed, and the items are right, for all
\* addresses but those of S.
ListGood(l, lv, given, S) ==
    /\ l \in Seq(Item) /\ Ordered(l)
    /\ \A i \in Range(l) : i.ptr \in given
    /\ \A i \in Range(l) : i.ptr \notin S => Right(i, lv)
    /\ \A p \in (given \cup DOMAIN lv) \ S : \E i \in Range(l) : i.ptr = p

\* No item counts a block as allocated that is not, for all addresses but
\* those of M: there a block in use may count as freed.
NoneDangles(l, lv, M) ==
    \A i \in Range(l) : i.ptr \notin M =>
        i.cnt \in {0, 1} /\ (i.cnt = 1 => i.ptr \in DOMAIN lv)

BalanceInv ==
    Adrift = {} =>
        IsFiniteSet(Listed) /\ n_allocb - n_freeb = unlisted + Cardinality(Listed)

\* The inductive invariant.
TraceInv ==
    /\ TraceType
    /\ LibraryShielded
    /\ status = "loading" => list = <<>>
    /\ status \in {"loading", "running"} /\ part > 1 =>
         /\ ListGood(list, live, seen, Strayed)
         /\ NoneDangles(list, live, Adrift)
         /\ BalanceInv
=============================================================================
