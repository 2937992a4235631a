--------------------------- MODULE KernelInvariant --------------------------
(***************************************************************************)
(* The inductive invariants behind the safety properties of KernelLab.     *)
(***************************************************************************)
EXTENDS KernelLab

\* A call that is neither over nor cut short by the kernel.
Under(pc) == pc \notin {"idle", "killed"}

-----------------------------------------------------------------------------
(* dbfs_ptree *)

Chars == Nat

Buffers == [1..MAXLEN -> Chars]

WriterType ==
    [pc : {"idle", "scan", "clear", "find", "while", "format", "gather", "store", "up", "killed"},
     asked : Seq(Chars), input_pid : Int, buf_add : Seq(Chars)]

ReaderType ==
    [pc : {"closed", "reading", "eof"}, pos : 0..MAXLEN, out : Seq(Chars), first : 0..MAXLEN,
     want : Seq(Chars)]

\* What the variables are: a writer stores a whole buffer.
PtreeType ==
    /\ buf \in Buffers /\ curr \in DOMAIN Parent \cup {None}
    /\ wr \in [Writers -> WriterType] /\ rd \in [Readers -> ReaderType]
    /\ writes \in Nat /\ alone \in [Writers -> BOOLEAN] /\ branch \in Seq(Chars)
    /\ \A w \in Writers : Len(wr[w].buf_add) <= MAXLEN
    /\ \A w \in Writers : wr[w].pc = "store" => wr[w].buf_add \in Buffers

\* With the lines of p and of those above it in front, s is the branch of q.
Completes(p, s, q) ==
    /\ p \in DOMAIN Parent /\ q \in DOMAIN Parent
    /\ Cut(Ancestry[p] \o s) = BranchOf(q)

\* How far a writer that runs alone has got with the pid p that it wrote.
Progress(x, p) ==
    /\ x.pc = "scan" => Numbers(buf) = {p}
    /\ x.pc \in {"clear", "find"} => x.input_pid = p
    /\ x.pc = "find" => buf = Zeros
    /\ x.pc = "while" => curr = None \/ Completes(curr, buf, p)
    /\ x.pc \in {"format", "gather"} => curr \notin {None, 0} /\ Completes(curr, buf, p)
    /\ x.pc = "gather" => x.buf_add = Line[curr]
    /\ x.pc = "store" => curr # None /\ Completes(Parent[curr], x.buf_add, p)
    /\ x.pc = "up" => curr # None /\ Completes(Parent[curr], buf, p)

\* What a reader that opened the file for a branch has of it: nothing, or the
\* start of it at first, and all of it if that was all.
HasBranch(x) ==
    /\ x.want = branch
    /\ \/ x.pc = "reading" /\ x.pos = 0 /\ x.out = <<>> /\ x.first = 0
       \/ /\ x.first \in 1..x.pos /\ x.out # <<>>
          /\ \A i \in 1..x.first : i <= Len(x.out) /\ x.out[i] = buf[i]
          /\ x.first = MAXLEN => x.out = buf

BranchInv ==
    /\ \A w \in Writers : alone[w] =>
          /\ \A p \in Numbers(wr[w].asked) : Progress(wr[w], p)
          /\ Under(wr[w].pc) => \A x \in Writers \ {w} : ~Under(wr[x].pc)
    /\ branch # <<>> => \A w \in Writers : ~Under(wr[w].pc)
    /\ \A p \in Numbers(branch) : buf = BranchOf(p)
    /\ \A r \in Readers : rd[r].want # <<>> => HasBranch(rd[r])

-----------------------------------------------------------------------------
(* dbfs_paddr *)

ByteStrings == [1..24 -> 0..(Base - 1)]

CallerType ==
    [pc : {"idle", "find", "check", "mm", "walk", "back", "killed"},
     buf : ByteStrings \cup {<<>>},
     mm : Tasks \cup {NoTask}, level : Levels, ret : Int]

PaddrType ==
    /\ task \in Tasks \cup {NoTask}
    /\ ca \in [Callers -> CallerType]
    /\ \A c \in Callers : ca[c].pc = "walk" => ca[c].mm \in Tasks \ KernelThreads
    /\ tables \in [Tasks \ KernelThreads -> [VPages -> Entries]]
    /\ single \in [Callers -> BOOLEAN] /\ DOMAIN seen = Callers
    /\ behind \in [Callers -> Levels]

\* A call x of caller c has the packet p, and what p is translated to is among
\* what has been seen.  The task is that of p, if the call is alone, and what was
\* unmapped behind the walk is a translation that failed.
Asks(x, c, p) ==
    /\ x.buf = PacketOf(p)
    /\ Translation(p.pid, p.vaddr) \in seen[c]
    /\ single[c] =>
         /\ x.pc \in {"check", "mm"} => task = IF p.pid \in Tasks THEN p.pid ELSE NoTask
         /\ x.pc = "walk" => x.mm = p.pid
         /\ behind[c] < Present => EINVAL \in seen[c]
    /\ x.pc = "walk" /\ ~(behind[c] < Present) =>
         x.level <= tables[x.mm][p.vaddr \div PageSize].ends

\* What is true of a call x of caller c, on its way and at its end.
CallOK(x, c) ==
    /\ x.pc \in {"find", "check", "mm", "walk"} => \E p \in Packets : Asks(x, c, p)
    /\ x.pc \in {"find", "check", "mm"} => x.level = 1
    /\ x.pc = "back" /\ single[c] =>
         IF x.ret < 0 THEN EINVAL \in seen[c]
         ELSE behind[c] < Present \/ PaddrOf(x.buf) \in seen[c]

WalkInv ==
    \A c \in Callers :
        /\ CallOK(ca[c], c)
        /\ single[c] /\ Under(ca[c].pc) => \A x \in Callers \ {c} : ~Under(ca[x].pc)

-----------------------------------------------------------------------------
LabType ==
    /\ module \in DOMAIN Names /\ loaded \in BOOLEAN
    /\ \E n \in 0..Len(Names[module]) : dir = SubSeq(Names[module], 1, n)
=============================================================================
