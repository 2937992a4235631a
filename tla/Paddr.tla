-------------------------------- MODULE Paddr -------------------------------
(***************************************************************************)
(* The kernel module dbfs_paddr: a process reads the file output with a    *)
(* packet of pid, virtual and physical address in its buffer, and the      *)
(* module walks the page tables of that pid and fills in the physical      *)
(* address.  task is static, and no lock is held during the walk.          *)
(* A packet is its bytes, with Base values to a byte (256 in the code).    *)
(***************************************************************************)
EXTENDS Integers, Sequences

CONSTANTS
    Base,
    PageSize,
    Callers,
    Tasks,          \* the pids of the processes
    KernelThreads,  \* those of them that have no memory of their own
    Packets,        \* the packets of callers: records of pid and vaddr
    VPages, Frames, \* the virtual pages, and the frames they may be mapped to
    MaxCalls, MaxRemaps

\* What the byte at i counts for: << (8 * i) in the code.
Weight[i \in 0..8] == IF i = 0 THEN 1 ELSE Base * Weight[i - 1]

ASSUME PaddrAssumption ==
    /\ {Base, PageSize, MaxCalls, MaxRemaps} \subseteq Nat /\ Base > 1 /\ PageSize > 0
    /\ PageSize <= Weight[5]
    /\ Tasks \subseteq Nat \ {0}
    /\ Frames \subseteq Nat /\ \A f \in Frames : (f + 1) * PageSize <= Weight[5]
    /\ Packets \subseteq [pid : 1..(Weight[4] - 1), vaddr : 0..(Weight[6] - 1)]
    /\ \A p \in Packets : p.vaddr \div PageSize \in VPages

VARIABLES
    task,
    ca,         \* the callers: pc, buf, mm, the level of the walk, the result
    tables,     \* of each process and virtual page: the level at which a walk
                \* ends, Present if it gets through, and the frame in the pte
    calls, remaps,
    single,     \* of each caller: no other call has overlapped its own
    seen,       \* of each caller: the translations there were during its call
    behind      \* of each caller: the lowest level at which its page was unmapped
                \* when the walk had passed it, Present if there is none

paddrvars == <<task, ca, tables, calls, remaps, single, seen, behind>>

NoTask == 0
EINVAL == -22

\* The reads of a walk: the entries of pgd, p4d, pud and pmd, and the pte for
\* pte_none, for pte_present and for its value.
Levels == 1..7
Present == 7

Unmapped == [ends |-> 1, frame |-> 0]

\* A pte of none is zero; one that is not present has what the kernel keeps there
\* of a page that is swapped out.
Entries == [ends : 1..5, frame : {0}] \cup [ends : {6, Present}, frame : Frames]

-----------------------------------------------------------------------------
(* The bytes of a packet, in little-endian order: pid at 0, vaddr at 8,    *)
(* paddr at 16.                                                            *)
Bytes(n, x) == [i \in 1..n |-> (x \div Weight[i - 1]) % Base]

Value(bytes) ==
    LET sum[n \in 0..Len(bytes)] ==
            IF n = 0 THEN 0 ELSE sum[n - 1] + bytes[n] * Weight[n - 1]
    IN  sum[Len(bytes)]

PacketOf(p) == Bytes(8, p.pid) \o Bytes(8, p.vaddr) \o Bytes(8, 0)

PidOf(buf) == Value(SubSeq(buf, 1, 4))
VaddrOf(buf) == Value(SubSeq(buf, 9, 14))
PaddrOf(buf) == Value(SubSeq(buf, 17, 24))

WithPaddr_Four(buf, paddr) ==
    [i \in DOMAIN buf |-> IF i \in 17..20 THEN Bytes(4, paddr)[i - 16] ELSE buf[i]]

WithPaddr(buf, paddr) ==
    [i \in DOMAIN buf |-> IF i \in 17..21 THEN Bytes(5, paddr)[i - 16] ELSE buf[i]]

Idler == [pc |-> "idle", buf |-> <<>>, mm |-> NoTask, level |-> 1, ret |-> 0]

PhysOf(frame, vaddr) == frame * PageSize + (vaddr % PageSize)

\* What a packet's address is translated to, EINVAL if it is not.
Translation(pid, vaddr) ==
    IF pid \in Tasks \ KernelThreads /\ tables[pid][vaddr \div PageSize].ends = Present
    THEN PhysOf(tables[pid][vaddr \div PageSize].frame, vaddr)
    ELSE EINVAL

-----------------------------------------------------------------------------
PaddrInit ==
    /\ task = NoTask
    /\ ca = [c \in Callers |-> Idler]
    /\ tables = [t \in Tasks \ KernelThreads |-> [v \in VPages |-> Unmapped]]
    /\ calls = 0 /\ remaps = 0
    /\ single = [c \in Callers |-> FALSE]
    /\ seen = [c \in Callers |-> {}]
    /\ behind = [c \in Callers |-> Present]

\* read_output up to the decoded packet.  A packet that cannot be copied
\* returns -EFAULT and changes nothing.
CallRead(c, p) ==
    /\ ca[c].pc = "idle" /\ calls < MaxCalls
    /\ calls' = calls + 1
    /\ ca' = [ca EXCEPT ![c] = [Idler EXCEPT !.pc = "find", !.buf = PacketOf(p)]]
    /\ single' = [x \in Callers |-> x = c /\ \A y \in Callers : ca[y].pc \in {"idle", "killed"}]
    /\ seen' = [seen EXCEPT ![c] = {Translation(p.pid, p.vaddr)}]
    /\ behind' = [behind EXCEPT ![c] = Present]
    /\ UNCHANGED <<task, tables, remaps>>

pid_task(c) ==
    /\ ca[c].pc = "find"
    /\ task' = IF PidOf(ca[c].buf) \in Tasks THEN PidOf(ca[c].buf) ELSE NoTask
    /\ ca' = [ca EXCEPT ![c].pc = "check"]
    /\ UNCHANGED <<tables, calls, remaps, single, seen, behind>>

Check(c) ==
    /\ ca[c].pc = "check"
    /\ ca' = IF task = NoTask THEN [ca EXCEPT ![c].pc = "back", ![c].ret = EINVAL]
                              ELSE [ca EXCEPT ![c].pc = "mm"]
    /\ UNCHANGED <<task, tables, calls, remaps, single, seen, behind>>

\* mm = task->mm: task may have become NULL, and kernel threads have no mm.
TakeMm(c) ==
    /\ ca[c].pc = "mm"
    /\ ca' = IF task \in {NoTask} \cup KernelThreads
             THEN [ca EXCEPT ![c].pc = "killed"]
             ELSE [ca EXCEPT ![c].pc = "walk", ![c].mm = task]
    /\ UNCHANGED <<task, tables, calls, remaps, single, seen, behind>>

PageOf(c) == tables[ca[c].mm][VaddrOf(ca[c].buf) \div PageSize]

\* The tables that the walk is in have been freed, and may hold anything.
Lost(c) == behind[c] < 5

\* A read of the walk that finds none, bad or not present ends it.
WalkStops(c) ==
    /\ ca[c].pc = "walk" /\ ca[c].level < Present
    /\ PageOf(c).ends <= ca[c].level \/ Lost(c)
    /\ ca' = [ca EXCEPT ![c].pc = "back", ![c].ret = EINVAL]
    /\ UNCHANGED <<task, tables, calls, remaps, single, seen, behind>>

WalkOn(c) ==
    /\ ca[c].pc = "walk" /\ ca[c].level < Present
    /\ PageOf(c).ends > ca[c].level \/ Lost(c)
    /\ ca' = [ca EXCEPT ![c].level = @ + 1]
    /\ UNCHANGED <<task, tables, calls, remaps, single, seen, behind>>

\* The walk follows what is no pointer any more.
WalkDies(c) ==
    /\ ca[c].pc = "walk" /\ ca[c].level < 6 /\ Lost(c)
    /\ ca' = [ca EXCEPT ![c].pc = "killed"]
    /\ UNCHANGED <<task, tables, calls, remaps, single, seen, behind>>

\* The last read of the pte makes the address, whatever the pte has become.
Fill(c) ==
    /\ ca[c].pc = "walk" /\ ca[c].level = Present
    /\ \E frame \in IF Lost(c) THEN Frames ELSE {PageOf(c).frame} :
          ca' = [ca EXCEPT ![c].pc = "back", ![c].ret = Len(ca[c].buf),
                           ![c].buf = WithPaddr(@, PhysOf(frame, VaddrOf(@)))]
    /\ UNCHANGED <<task, tables, calls, remaps, single, seen, behind>>

\* The caller looks at the result; app gives up if it is negative.
Done(c) ==
    /\ ca[c].pc = "back"
    /\ ca' = [ca EXCEPT ![c] = Idler]
    /\ UNCHANGED <<task, tables, calls, remaps, single, seen, behind>>

\* A call is about the page v of process t.
About(c, t, v) ==
    /\ ca[c].pc # "idle"
    /\ PidOf(ca[c].buf) = t /\ VaddrOf(ca[c].buf) \div PageSize = v

\* The walk of a call has passed the level at which e ends the page v of t.
Passed(c, t, v, e) ==
    /\ ca[c].pc = "walk" /\ ca[c].mm = t /\ e.ends < ca[c].level
    /\ VaddrOf(ca[c].buf) \div PageSize = v

\* A process maps or unmaps a page, or its tables are freed.
Remap(t, v, e) ==
    /\ remaps < MaxRemaps
    /\ remaps' = remaps + 1
    /\ tables' = [tables EXCEPT ![t][v] = e]
    /\ seen' = [c \in Callers |->
          IF About(c, t, v)
          THEN seen[c] \cup {IF e.ends = Present THEN PhysOf(e.frame, VaddrOf(ca[c].buf)) ELSE EINVAL}
          ELSE seen[c]]
    /\ behind' = [c \in Callers |->
          IF Passed(c, t, v, e) /\ e.ends < behind[c] THEN e.ends ELSE behind[c]]
    /\ UNCHANGED <<task, ca, calls, single>>

PaddrNext ==
    \/ \E c \in Callers : \/ \E p \in Packets : CallRead(c, p)
                          \/ pid_task(c) \/ Check(c) \/ TakeMm(c)
                          \/ WalkStops(c) \/ WalkOn(c) \/ WalkDies(c) \/ Fill(c) \/ Done(c)
    \/ \E t \in Tasks \ KernelThreads, v \in VPages, e \in Entries : Remap(t, v, e)

PaddrQuiet == \A c \in Callers : ca[c].pc \in {"idle", "back"}

-----------------------------------------------------------------------------
PaddrTypeOK ==
    /\ task \in Tasks \cup {NoTask}
    /\ \A c \in Callers :
         /\ ca[c].level \in Levels /\ ca[c].mm \in Tasks \cup {NoTask}
         /\ Len(ca[c].buf) \in {0, 24} /\ \A i \in DOMAIN ca[c].buf : ca[c].buf[i] \in 0..(Base - 1)

(***************************************************************************)
(* dbfs_paddr.c read_output: a call that runs alone returns an error only  *)
(* if there was a moment of the call when the virtual address of the given *)
(* process was not mapped, and otherwise, byte for byte, an address that   *)
(* it was mapped to at some moment of the call, unless it was unmapped     *)
(* where the walk had passed: no lock keeps the tables, and what the pte   *)
(* held between its test and its use is not looked at again.               *)
(***************************************************************************)
AddressOfPid ==
    \A c \in Callers : ca[c].pc = "back" /\ single[c] =>
        IF ca[c].ret < 0 THEN EINVAL \in seen[c]
        ELSE behind[c] < Present \/ PaddrOf(ca[c].buf) \in seen[c]
=============================================================================
