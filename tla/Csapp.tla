-------------------------------- MODULE Csapp -------------------------------
(***************************************************************************)
(* A connection from end to end: both sides open their sockets, and when   *)
(* both have got one the data goes through it.                             *)
(***************************************************************************)
EXTENDS Sockets, Rio

vars == <<socketvars, riovars>>

Init == SocketsInit /\ RioInit

Open ==
    /\ \E s \in Sides : OpenStep(s)
    /\ UNCHANGED riovars

Transfer ==
    /\ Connected
    /\ RioNext
    /\ UNCHANGED socketvars

Next == Open \/ Transfer

\* Each side runs; signals and errors need not come.
Fairness ==
    /\ WF_vars(Connected /\ Writer /\ UNCHANGED socketvars)
    /\ WF_vars(Connected /\ Reader /\ UNCHANGED socketvars)

Spec == Init /\ [][Next]_vars /\ Fairness

-----------------------------------------------------------------------------
(***************************************************************************)
(* The buffers stay within their sizes, and a line leaves room for its     *)
(* terminating zero.                                                       *)
(***************************************************************************)
TypeOK ==
    /\ RioTypeOK
    /\ \A s \in Sides : open[s].p \in 1..(NAddrs + 1) /\ open[s].ret \in -2..NAddrs

(***************************************************************************)
(* csapp.c: once connected, writer and reader come to an end: a reader     *)
(* that gets an error closes, and the writer then fails instead of waiting *)
(* for room for ever.                                                      *)
(***************************************************************************)
TransferEnds == Connected ~> (rcv.pc = "closed" /\ WriterEnded)
=============================================================================
