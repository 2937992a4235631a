---------------------------- MODULE CsappInvariant ----------------------------
(***************************************************************************)
(* The inductive invariants of the sockets and of the robust I/O package,  *)
(* from which module CsappProofs derives their safety.                     *)
(***************************************************************************)
EXTENDS Csapp

OpenPcs == {"getaddrinfo", "socket", "connect", "close", "cleanup", "listen", "returned"}

OpenType ==
    /\ open \in [Sides -> [pc : OpenPcs, p : 1..(NAddrs + 1), ret : -2..NAddrs,
                           kept : BOOLEAN]]
    /\ fds \subseteq Sides \X (1..NAddrs)
    /\ lists \subseteq Sides

\* The descriptors of a side.
FdsOf(s) == {f \in fds : f[1] = s}

\* While a call works on an address its one descriptor is for that address;
\* between two addresses it has none.
SideInv(s) ==
    /\ open[s].pc \in {"getaddrinfo", "socket"} => FdsOf(s) = {}
    /\ open[s].pc \in {"connect", "close", "cleanup", "listen"} =>
           open[s].p <= NAddrs /\ FdsOf(s) = {Fd(s)}
    /\ open[s].pc \in {"getaddrinfo", "listen"} => s \notin lists

\* The inductive invariant of the two calls.
OpenInv == OpenType /\ OpensTidy /\ \A s \in Sides : SideInv(s)

-----------------------------------------------------------------------------
Bytes == Range(Data)

RioType ==
    /\ unsent \in Seq(Bytes) /\ chan \in Seq(Bytes) /\ handed \in Seq(Bytes)
    /\ snd \in [pc : {"idle", "write", "closed", "failed"}, left : Seq(Bytes)]
    /\ rio \in [rio_cnt : Int, buf : Seq(Bytes)]
    /\ rcv \in [pc : {"idle", "unbuffered", "read", "returned", "closed"},
                call : {"none", "line", "nb", "readn"}, n : Nat, out : Seq(Bytes), ret : Int]

\* Nothing is under way between two calls, and a reader that works without
\* the buffer never filled it.
IdleInv ==
    /\ snd.pc \in {"idle", "closed"} => snd.left = <<>>
    /\ rcv.pc \in {"idle", "unbuffered", "closed"} => rcv.out = <<>>
    /\ rcv.pc = "unbuffered" \/ rcv.call = "readn" => rio.rio_cnt <= 0

\* A call that goes on has room left, and its line has not ended.
CallInv ==
    /\ rcv.call = "line" => rcv.n >= 2
    /\ rcv.pc = "read" =>
         /\ rcv.call # "none"
         /\ rcv.call = "line" => /\ Len(rcv.out) < rcv.n - 1
                                 /\ \A i \in 1..Len(rcv.out) : rcv.out[i] # NL
         /\ rcv.call # "line" => Len(rcv.out) < rcv.n

\* The inductive invariant of the transfer.
RioInv == RioType /\ RioTypeOK /\ IdleInv /\ CallInv /\ StreamIntact /\ CallsFilled
=============================================================================
