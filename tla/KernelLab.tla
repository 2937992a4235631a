------------------------------ MODULE KernelLab -----------------------------
(***************************************************************************)
(* The two debugfs modules, one of which is loaded, used and removed.      *)
(***************************************************************************)
EXTENDS Ptree, Paddr

CONSTANT CreateFails    \* the names that debugfs may fail to create

VARIABLES
    module,     \* the module at hand: "ptree" or "paddr"
    loaded,
    dir         \* what there is in debugfs

vars == <<ptreevars, paddrvars, module, loaded, dir>>

\* What dbfs_module_init creates, in this order.
Names == [ptree |-> <<"dir", "input", "ptree">>, paddr |-> <<"dir", "output">>]

Init ==
    /\ PtreeInit /\ PaddrInit
    /\ module \in DOMAIN Names
    /\ loaded = FALSE /\ dir = <<>>

\* The first name that cannot be created ends it with -1, and the kernel
\* discards the module; the names before stay.
dbfs_module_init ==
    /\ ~loaded /\ dir = <<>>
    /\ \E n \in 0..Len(Names[module]) :
          /\ n < Len(Names[module]) => Names[module][n + 1] \in CreateFails
          /\ dir' = SubSeq(Names[module], 1, n)
          /\ loaded' = (n = Len(Names[module]))
    /\ UNCHANGED <<ptreevars, paddrvars, module>>

\* debugfs waits for the calls under way, and reads of a file that is still open
\* fail from now on.  The static variables go with the module: they are zero
\* when it is loaded again.
dbfs_module_exit ==
    /\ loaded /\ PtreeQuiet /\ PaddrQuiet
    /\ dir' = <<>> /\ loaded' = FALSE
    /\ buf' = Zeros /\ curr' = None /\ task' = NoTask
    /\ branch' = <<>> /\ rd' = [r \in Readers |-> Closed]
    /\ UNCHANGED <<wr, writes, alone, ca, tables, calls, remaps, single, seen, behind, module>>

UsePtree ==
    /\ module = "ptree" /\ "ptree" \in {dir[i] : i \in DOMAIN dir}
    /\ PtreeNext
    /\ UNCHANGED <<paddrvars, module, loaded, dir>>

UsePaddr ==
    /\ module = "paddr" /\ "output" \in {dir[i] : i \in DOMAIN dir}
    /\ PaddrNext
    /\ UNCHANGED <<ptreevars, module, loaded, dir>>

Next == dbfs_module_init \/ dbfs_module_exit \/ UsePtree \/ UsePaddr

\* The kernel schedules a process in a system call until it returns.
Fairness ==
    \A w \in Writers : WF_vars(WriterStep(w) /\ UNCHANGED <<paddrvars, module, loaded, dir>>)

Spec == Init /\ [][Next]_vars /\ Fairness

-----------------------------------------------------------------------------
(***************************************************************************)
(* The buffers, positions and levels of the modules are in their ranges.   *)
(***************************************************************************)
TypeOK ==
    /\ PtreeTypeOK /\ PaddrTypeOK
    /\ loaded \in BOOLEAN /\ Len(dir) <= Len(Names[module])

=============================================================================
