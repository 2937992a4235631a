----------------------------- MODULE MCKernelLab ----------------------------
(* A branch of two processes; packets for one of two processes, for a
   kernel thread and for none. *)
EXTENDS KernelLab, TLC

MCParent == (0 :> 0) @@ (1 :> 0) @@ (11 :> 1)

\* A name, a pid and a newline.
MCLine == (0 :> <<12, 0, 11>>) @@ (1 :> <<12, 1, 11>>) @@ (11 :> <<13, 1, 1, 11>>)

\* "11\n", "1\n", "1" with nothing behind it, and too long a text.
MCTexts == {<<1, 1, 11>>, <<1, 11>>, <<1>>, <<1, 11, 11, 11, 11, 11>>}

MCPackets == {[pid |-> 1, vaddr |-> 37], [pid |-> 3, vaddr |-> 37], [pid |-> 9, vaddr |-> 37]}
=============================================================================
