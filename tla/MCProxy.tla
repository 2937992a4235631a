------------------------------- MODULE MCProxy -------------------------------
(***************************************************************************)
(* Instances of Proxy for TLC.  A response is a sequence of bytes, its     *)
(* first byte tells the URL.                                               *)
(***************************************************************************)
EXTENDS ProxyInvariant, TLC

CONSTANTS u1, u2, u3

Symmetric == Permutations(Threads) \cup Permutations(Items)

\* The responses of u1 are plain, one of them is empty.  Of those of u2 one
\* has a NUL in the middle, and one has 5 bytes: with buffers of 2 bytes its
\* second chunk does not fit into an object of 3, its third does.
MixedResponses == u1 :> {<<1, 1>>, <<>>} @@ u2 :> {<<2, 0, 2>>, <<2, 3, 4, 5, 6>>}

\* One byte for every URL.
ByteResponses == [u \in Urls |-> {<<1>>, <<>>}]

=============================================================================
