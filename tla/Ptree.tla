-------------------------------- MODULE Ptree -------------------------------
(***************************************************************************)
(* The kernel module dbfs_ptree: a process writes a pid into the file      *)
(* input, and the file ptree then holds the branch of the process tree     *)
(* that ends in it.  buf and curr are static: all callers share them, and  *)
(* no lock is taken.                                                       *)
(* A character is a number: the digits are themselves, then come NUL, the  *)
(* white space and all the others.                                         *)
(***************************************************************************)
EXTENDS Integers, Sequences, FiniteSets

CONSTANTS
    Parent,         \* the parent of each process; that of process 0 is 0
    Line,           \* the line of each process: its name and its pid
    Writers, Readers,
    Texts,          \* what writers write, a pid and a newline or not
    Chunks,         \* the lengths that readers read
    MAXLEN,
    MaxWrites       \* the most writes

\* The processes are a tree with the root 0, and a line fits into the buffer.
ASSUME PtreeAssumption ==
    /\ 0 \in DOMAIN Parent /\ Parent \in [DOMAIN Parent -> DOMAIN Parent]
    /\ DOMAIN Parent \subseteq Nat /\ IsFiniteSet(DOMAIN Parent)
    /\ \E depth \in [DOMAIN Parent -> 0..Cardinality(DOMAIN Parent)] :
          \A p \in DOMAIN Parent \ {0} : depth[Parent[p]] < depth[p]
    /\ Line \in [DOMAIN Parent -> Seq(Nat)] /\ \A p \in DOMAIN Parent : Len(Line[p]) < MAXLEN
    /\ Texts \subseteq Seq(Nat) /\ Chunks \subseteq Nat \ {0}
    /\ {MAXLEN, MaxWrites} \subseteq Nat \ {0}

VARIABLES
    buf, curr,
    wr,         \* the writers: pc, the text they asked with, input_pid, buf_add
    rd,         \* the readers: their file position, the text whose branch they
                \* should get and, if there is one, what they have got, and how
                \* much of it at first
    writes,
    alone,      \* of each writer: no other call of write has overlapped its own
    branch      \* the text whose branch buf has to hold, <<>> if there is none

ptreevars == <<buf, curr, wr, rd, writes, alone, branch>>

None == -1      \* no process: NULL for a task

Digits == 0..9
NUL == 10
Blank == 11

Zeros == [i \in 1..MAXLEN |-> NUL]

\* The first MAXLEN characters of a string, filled with zeros.
Cut(s) == [i \in 1..MAXLEN |-> IF i <= Len(s) THEN s[i] ELSE NUL]

Decimal(digits) ==
    LET value[n \in 0..Len(digits)] ==
            IF n = 0 THEN 0 ELSE 10 * value[n - 1] + digits[n]
    IN  value[Len(digits)]

\* What %u reads in s are the digits from i to j: there are only blanks before
\* them, and another character in s ends them.
NumberAt(s, i, j) ==
    /\ i <= j /\ j < Len(s)
    /\ \A k \in 1..(i - 1) : s[k] = Blank
    /\ \A k \in i..j : s[k] \in Digits
    /\ s[j + 1] \notin Digits

\* The number in a string, or none.
Numbers(s) ==
    {Decimal(SubSeq(s, at[1], at[2])) :
        at \in {n \in (1..Len(s)) \X (1..Len(s)) : NumberAt(s, n[1], n[2])}}

Idle == [pc |-> "idle", asked |-> <<>>, input_pid |-> None, buf_add |-> <<>>]
Closed == [pc |-> "closed", pos |-> 0, out |-> <<>>, first |-> 0, want |-> <<>>]

PtreeInit ==
    /\ buf = Zeros /\ curr = None
    /\ wr = [w \in Writers |-> Idle]
    /\ rd = [r \in Readers |-> Closed]
    /\ writes = 0
    /\ alone = [w \in Writers |-> FALSE]
    /\ branch = <<>>

-----------------------------------------------------------------------------
(* write_pid_to_input: one step for each access to buf or curr.            *)

\* The text over the first characters of buf: no NUL comes with it, and what was
\* behind them stays.
Over(text) == [i \in 1..MAXLEN |-> IF i <= Len(text) THEN text[i] ELSE buf[i]]

\* A write has changed buf: what it held is gone for those who read it.
Spoil ==
    /\ branch' = <<>>
    /\ rd' = [r \in Readers |-> [rd[r] EXCEPT !.want = <<>>, !.out = <<>>, !.first = 0]]

CopyFromUser(w, text) ==
    /\ wr[w].pc = "idle" /\ writes < MaxWrites /\ Len(text) <= MAXLEN
    /\ writes' = writes + 1
    /\ buf' = Over(text)
    /\ wr' = [wr EXCEPT ![w] = [Idle EXCEPT !.pc = "scan", !.asked = text]]
    /\ alone' = [x \in Writers |-> x = w /\ \A y \in Writers : wr[y].pc \in {"idle", "killed"}]
    /\ Spoil
    /\ UNCHANGED curr

\* A page of the user's buffer is not there: the kernel fills up with zeros what
\* it could not copy, and the call returns -EFAULT.
CopyFaults(w, text) ==
    /\ wr[w].pc = "idle" /\ writes < MaxWrites /\ Len(text) <= MAXLEN
    /\ writes' = writes + 1
    /\ \E n \in 0..(Len(text) - 1) :
          buf' = Over([i \in 1..Len(text) |-> IF i <= n THEN text[i] ELSE NUL])
    /\ alone' = [x \in Writers |-> FALSE]
    /\ Spoil
    /\ UNCHANGED <<curr, wr>>

\* The code does not look at length; the kernel knows the size of buf and
\* refuses to copy more into it.  The call returns -EFAULT.
CopyRefused(w, text) ==
    /\ wr[w].pc = "idle" /\ writes < MaxWrites /\ Len(text) > MAXLEN
    /\ writes' = writes + 1
    /\ UNCHANGED <<buf, curr, wr, rd, alone, branch>>

\* Without a number in buf sscanf leaves input_pid as it is on the stack, and
\* behind digits or blanks up to its end it reads on in what follows buf.
Scan(w) ==
    /\ wr[w].pc = "scan"
    /\ \E p \in IF Numbers(buf) # {} THEN Numbers(buf) ELSE DOMAIN Parent \cup {None} :
          wr' = [wr EXCEPT ![w].pc = "clear", ![w].input_pid = p]
    /\ UNCHANGED <<buf, curr, rd, writes, alone, branch>>

Clear(w) ==
    /\ wr[w].pc = "clear"
    /\ buf' = Zeros
    /\ wr' = [wr EXCEPT ![w].pc = "find"]
    /\ UNCHANGED <<curr, rd, writes, alone, branch>>

\* No pid of a user is 0, so process 0 is never found.
FindTask(w) ==
    /\ wr[w].pc = "find"
    /\ curr' = IF wr[w].input_pid \in DOMAIN Parent \ {0} THEN wr[w].input_pid ELSE None
    /\ wr' = [wr EXCEPT ![w].pc = "while", ![w].input_pid = None]
    /\ UNCHANGED <<buf, rd, writes, alone, branch>>

\* curr is NULL: the kernel kills the process that follows the pointer.
Oops(w) ==
    /\ wr[w].pc \in {"while", "format", "up"} /\ curr = None
    /\ wr' = [wr EXCEPT ![w] = [Idle EXCEPT !.pc = "killed"]]
    /\ UNCHANGED <<buf, curr, rd, writes, alone, branch>>

Return(w) ==
    /\ wr[w].pc = "while" /\ curr = 0
    /\ wr' = [wr EXCEPT ![w] = Idle]
    /\ branch' = IF alone[w] THEN wr[w].asked ELSE branch
    /\ UNCHANGED <<buf, curr, rd, writes, alone>>

Enter(w) ==
    /\ wr[w].pc = "while" /\ curr \notin {None, 0}
    /\ wr' = [wr EXCEPT ![w].pc = "format"]
    /\ UNCHANGED <<buf, curr, rd, writes, alone, branch>>

Format(w) ==
    /\ wr[w].pc = "format" /\ curr # None
    /\ wr' = [wr EXCEPT ![w].pc = "gather", ![w].buf_add = Line[curr]]
    /\ UNCHANGED <<buf, curr, rd, writes, alone, branch>>

Gather_NoCut(w) ==
    /\ wr[w].pc = "gather"
    /\ wr' = [wr EXCEPT ![w].pc = "store", ![w].buf_add = @ \o buf]
    /\ UNCHANGED <<buf, curr, rd, writes, alone, branch>>

Gather_Append(w) ==
    /\ wr[w].pc = "gather"
    /\ wr' = [wr EXCEPT ![w].pc = "store",
                        ![w].buf_add = Cut(SelectSeq(buf, LAMBDA c : c # NUL) \o @)]
    /\ UNCHANGED <<buf, curr, rd, writes, alone, branch>>

Gather(w) ==
    /\ wr[w].pc = "gather"
    /\ wr' = [wr EXCEPT ![w].pc = "store", ![w].buf_add = Cut(@ \o buf)]
    /\ UNCHANGED <<buf, curr, rd, writes, alone, branch>>

Store(w) ==
    /\ wr[w].pc = "store"
    /\ buf' = wr[w].buf_add
    /\ wr' = [wr EXCEPT ![w].pc = "up", ![w].buf_add = <<>>]
    /\ UNCHANGED <<curr, rd, writes, alone, branch>>

Up_Stays(w) ==
    /\ wr[w].pc = "up" /\ curr # None
    /\ wr' = [wr EXCEPT ![w].pc = "while"]
    /\ UNCHANGED <<buf, curr, rd, writes, alone, branch>>

Up(w) ==
    /\ wr[w].pc = "up" /\ curr # None
    /\ curr' = Parent[curr]
    /\ wr' = [wr EXCEPT ![w].pc = "while"]
    /\ UNCHANGED <<buf, rd, writes, alone, branch>>

WriterStep(w) ==
    \/ Scan(w) \/ Clear(w) \/ FindTask(w) \/ Oops(w) \/ Return(w) \/ Enter(w)
    \/ Format(w) \/ Gather(w) \/ Store(w) \/ Up(w)

-----------------------------------------------------------------------------
(* read_trace_from_output, by a process that reads until it gets nothing.  *)
(* Every read gets the start of buf, wherever the file position is.        *)

OpenOutput(r) ==
    /\ rd[r].pc = "closed"
    /\ rd' = [rd EXCEPT ![r] = [Closed EXCEPT !.pc = "reading", !.want = branch]]
    /\ UNCHANGED <<buf, curr, wr, writes, alone, branch>>

read_trace_from_output(r, length) ==
    LET left == MAXLEN - rd[r].pos
        len  == IF length < left THEN length ELSE left
    IN  /\ rd[r].pc = "reading"
        /\ rd' = [rd EXCEPT ![r].pos = @ + len,
                            ![r].out = IF rd[r].want = <<>> THEN @
                                       ELSE @ \o SubSeq(buf, 1, len),
                            ![r].first = IF rd[r].out = <<>> /\ rd[r].want # <<>> THEN len ELSE @,
                            ![r].pc = IF len = 0 THEN "eof" ELSE @]
        /\ UNCHANGED <<buf, curr, wr, writes, alone, branch>>

Close(r) ==
    /\ rd[r].pc = "eof"
    /\ rd' = [rd EXCEPT ![r] = Closed]
    /\ UNCHANGED <<buf, curr, wr, writes, alone, branch>>

PtreeNext ==
    \/ \E w \in Writers : \/ \E text \in Texts : \/ CopyFromUser(w, text)
                                                  \/ CopyFaults(w, text)
                                                  \/ CopyRefused(w, text)
                          \/ WriterStep(w)
    \/ \E r \in Readers : \/ OpenOutput(r) \/ Close(r)
                          \/ \E length \in Chunks : read_trace_from_output(r, length)

\* No call is under way: one that the kernel has killed is never over.
PtreeQuiet == \A w \in Writers : wr[w].pc = "idle"

-----------------------------------------------------------------------------
PtreeTypeOK ==
    /\ DOMAIN buf = 1..MAXLEN
    /\ curr \in DOMAIN Parent \cup {None}
    /\ \A w \in Writers : Len(wr[w].buf_add) <= MAXLEN
    /\ \A r \in Readers : rd[r].pos \in 0..MAXLEN

\* The lines of a process and of those above it, the oldest first.
Ancestry[p \in DOMAIN Parent] == IF p = 0 THEN <<>> ELSE Ancestry[Parent[p]] \o Line[p]

\* The branch of the tree that ends in p.
BranchOf(p) == Cut(Ancestry[p])

(***************************************************************************)
(* dbfs_ptree.c: whatever calls of write have run into each other or       *)
(* failed before, once a write of a pid and what ends it has run alone,    *)
(* the first read of a reader gets the start of the branch of the tree     *)
(* that ends in that process, oldest first and cut off at MAXLEN, and a    *)
(* reader that asks for all of it at once gets all of it and no more.      *)
(***************************************************************************)
TreeIsBranch ==
    \A r \in Readers : \A p \in Numbers(rd[r].want) :
        /\ \A i \in 1..rd[r].first : rd[r].out[i] = BranchOf(p)[i]
        /\ rd[r].first = MAXLEN => rd[r].out = BranchOf(p)
        /\ rd[r].pc = "eof" => rd[r].first > 0

(***************************************************************************)
(* dbfs_ptree.c write_pid_to_input: the walk ends, also when other calls   *)
(* move the shared curr under it (unless writers keep coming for ever).    *)
(***************************************************************************)
WalksEnd == \A w \in Writers : wr[w].pc # "idle" ~> wr[w].pc \in {"idle", "killed"}
=============================================================================
