----------------------------- MODULE TshProofs -----------------------------
(***************************************************************************)
(* Safety of the tiny shell, for every set of processes, every number of   *)
(* job slots and every set of keyboard signals: the inductive invariant    *)
(* IInv of module TshInvariant, and the properties of module Tsh that      *)
(* follow from it.                                                         *)
(***************************************************************************)
EXTENDS TshInvariant, DataLemmas

(* What the routines on the job list return, for every number of slots and *)
(* every contents of the list.                                             *)

\* The job lists whose job IDs do not exceed B.
JobLists(B) == [Slots -> [pid : Pids \cup {0}, jid : 0 .. B, state : JobStates]]

\* The loops of the helper routines find a matching slot when there is one.
LEMMA FirstSlotFinds ==
  ASSUME NEW S \in SUBSET Slots
  PROVE  /\ S = {} => FirstSlot(S) = NoJob
         /\ S # {} => FirstSlot(S) \in S
         /\ FirstSlot(S) = NoJob <=> S = {}
<1>1. S \in SUBSET Nat /\ NoJob \notin S
  BY MaxJobsAssumption DEF Slots, NoJob
<1>2. S # {} => FirstSlot(S) \in S
  BY <1>1, MinOfNat DEF FirstSlot
<1> QED
  BY <1>1, <1>2 DEF FirstSlot

\* getjobpid (tsh.c:583-592) returns a slot that holds q, or NULL when no
\* slot does.
LEMMA GetjobpidFinds ==
  ASSUME NEW js, NEW q \in Pids, NEW i, i = getjobpid(js, q)
  PROVE  \/ i = NoJob /\ \A k \in Slots : js[k].pid # q
         \/ i \in Slots /\ i # NoJob /\ js[i].pid = q
<1> DEFINE S == {k \in Slots : js[k].pid = q}
<1>1. S \in SUBSET Slots
  OBVIOUS
<1>2. getjobpid(js, q) = FirstSlot(S)
  BY PidsAssumption DEF getjobpid
<1>3. CASE S = {}
  BY <1>1, <1>2, <1>3, FirstSlotFinds
<1>4. CASE S # {}
  BY <1>1, <1>2, <1>4, FirstSlotFinds
<1> QED
  BY <1>3, <1>4

\* The slot named by an operand of bg or fg exists.
LEMMA GetjobSlot ==
  ASSUME NEW js
  PROVE  /\ \A p \in Pids : getjobpid(js, p) \in Slots \cup {NoJob}
         /\ \A j \in Int : getjobjid(js, j) \in Slots \cup {NoJob}
<1>1. ASSUME NEW p \in Pids PROVE getjobpid(js, p) \in Slots \cup {NoJob}
  BY GetjobpidFinds
<1>2. ASSUME NEW j \in Int PROVE getjobjid(js, j) \in Slots \cup {NoJob}
  <2> DEFINE S == {k \in Slots : js[k].jid = j}
  <2>1. FirstSlot(S) \in S \cup {NoJob}
    BY FirstSlotFinds
  <2> QED
    BY <2>1 DEF getjobjid
<1> QED
  BY <1>1, <1>2

\* fgpid (tsh.c:573-580) returns the PID in a slot whose state is FG, or 0
\* when there is none.
LEMMA FgpidFinds ==
  ASSUME NEW js
  PROVE  \/ fgpid(js) = 0 /\ \A k \in Slots : js[k].state # "FG"
         \/ \E i \in Slots : js[i].state = "FG" /\ fgpid(js) = js[i].pid
<1> DEFINE S == {k \in Slots : js[k].state = "FG"}
<1>1. fgpid(js) = IF FirstSlot(S) = NoJob THEN 0 ELSE js[FirstSlot(S)].pid
  BY DEF fgpid
<1>2. CASE S = {}
  BY <1>1, <1>2, FirstSlotFinds
<1>3. CASE S # {}
  <2>1. FirstSlot(S) \in S /\ FirstSlot(S) # NoJob
    BY <1>3, FirstSlotFinds
  <2> QED
    BY <1>1, <2>1
<1> QED
  BY <1>2, <1>3

\* maxjid (tsh.c:518-526) is the largest job ID of the list.
LEMMA MaxjidIsMax ==
  ASSUME NEW B \in Nat, NEW js \in JobLists(B)
  PROVE  /\ maxjid(js) \in 0 .. B
         /\ \A i \in Slots : js[i].jid <= maxjid(js)
         /\ \E i \in Slots : js[i].jid = maxjid(js)
<1> DEFINE J == {js[i].jid : i \in Slots}
<1>1. J \in SUBSET (0 .. B)
  BY DEF JobLists
<1>2. 0 \in Slots
  BY MaxJobsAssumption DEF Slots
<1>3. J # {}
  BY <1>2
<1>4. Max(J) \in J /\ \A y \in J : y <= Max(J)
  BY <1>1, <1>3, MaxOfNat
<1> QED
  BY <1>1, <1>4 DEF maxjid

\* An empty slot is filled with the new job, or there is none and nothing
\* changes.
Added(js, nj, new, r) ==
  \/ /\ r.jobs = js /\ r.nextjid = nj
     /\ \A k \in Slots : js[k].pid # 0
  \/ /\ \E i \in Slots : js[i].pid = 0 /\ r.jobs = [js EXCEPT ![i] = new]
     /\ r.nextjid = IF nj + 1 > MAXJOBS THEN 1 ELSE nj + 1

\* addjob (tsh.c:529-552) adds the job in an empty slot, or changes nothing
\* when no slot is empty.
LEMMA AddjobEffect ==
  ASSUME NEW js, NEW nj, NEW q \in Pids, NEW state
  PROVE  Added(js, nj, [pid |-> q, jid |-> nj, state |-> state],
               addjob(js, nj, q, state))
<1> DEFINE S == {k \in Slots : js[k].pid = 0}
           i == FirstSlot(S)
           new == [pid |-> q, jid |-> nj, state |-> state]
<1>1. S = {} => i = NoJob
  BY FirstSlotFinds
<1>2. S # {} => i \in S /\ i # NoJob
  BY FirstSlotFinds
<1>3. q # 0
  BY PidsAssumption
<1>4. CASE S = {}
  BY <1>1, <1>4 DEF addjob, Added
<1>5. CASE S # {}
  <2> HIDE DEF i, new
  <2>1. i \in Slots /\ js[i].pid = 0 /\ i # NoJob
    BY <1>2, <1>5
  <2>2. addjob(js, nj, q, state) =
          [jobs    |-> [js EXCEPT ![i] = new],
           nextjid |-> IF nj + 1 > MAXJOBS THEN 1 ELSE nj + 1]
    BY <1>3, <2>1 DEF addjob, i, new
  <2>3. PICK r : r = addjob(js, nj, q, state)
    OBVIOUS
  <2>4. /\ r.jobs = [js EXCEPT ![i] = new]
        /\ r.nextjid = IF nj + 1 > MAXJOBS THEN 1 ELSE nj + 1
    BY <2>2, <2>3
  <2>5. Added(js, nj, new, r)
    BY <2>1, <2>4, Zenon DEF Added
  <2> QED
    BY <2>3, <2>5 DEF new
<1> QED
  BY <1>4, <1>5

\* A slot that holds q is cleared, or no slot holds q and nothing changes.
Deleted(js, nj, q, r) ==
  \/ /\ r.jobs = js /\ r.nextjid = nj
     /\ \A k \in Slots : js[k].pid # q
  \/ /\ \E i \in Slots : js[i].pid = q /\ r.jobs = [js EXCEPT ![i] = clearjob]
     /\ r.nextjid = maxjid(r.jobs) + 1

\* deletejob (tsh.c:555-570) clears a slot that holds q and moves nextjid
\* past the IDs still in use, or changes nothing when no slot holds q.
LEMMA DeletejobEffect ==
  ASSUME NEW js, NEW nj, NEW q \in Pids
  PROVE  Deleted(js, nj, q, deletejob(js, nj, q))
<1> DEFINE i == getjobpid(js, q)
<1>1. \/ i = NoJob /\ \A k \in Slots : js[k].pid # q
      \/ i \in Slots /\ i # NoJob /\ js[i].pid = q
  BY GetjobpidFinds
<1> HIDE DEF i
<1>2. CASE i = NoJob
  <2>1. deletejob(js, nj, q) = [jobs |-> js, nextjid |-> nj]
    BY <1>2 DEF deletejob, i
  <2> QED
    BY <1>1, <1>2, <2>1 DEF NoJob, Deleted
<1>3. CASE i # NoJob
  <2> DEFINE cleared == [js EXCEPT ![i] = clearjob]
  <2>1. deletejob(js, nj, q) = [jobs |-> cleared, nextjid |-> maxjid(cleared) + 1]
    BY <1>3 DEF deletejob, i
  <2>2. PICK r : r = deletejob(js, nj, q)
    OBVIOUS
  <2>3. r.jobs = cleared /\ r.nextjid = maxjid(r.jobs) + 1
    BY <2>1, <2>2
  <2>4. Deleted(js, nj, q, r)
    BY <1>1, <1>3, <2>3, Zenon DEF Deleted
  <2> QED
    BY <2>2, <2>4
<1> QED
  BY <1>2, <1>3

\* addjob keeps the list and the counter within a bound that leaves room for
\* the new job ID.
LEMMA AddjobType ==
  ASSUME NEW B \in Nat, B >= MAXJOBS,
         NEW js \in JobLists(B), NEW nj \in 1 .. B,
         NEW q \in Pids, NEW state \in JobStates,
         NEW r, r = addjob(js, nj, q, state)
  PROVE  r.jobs \in JobLists(B) /\ r.nextjid \in 1 .. B + 1
<1> DEFINE new == [pid |-> q, jid |-> nj, state |-> state]
<1>1. new \in [pid : Pids \cup {0}, jid : 0 .. B, state : JobStates]
  OBVIOUS
<1> HIDE DEF new
<1>2. Added(js, nj, new, r)
  BY AddjobEffect DEF new
<1>3. r.jobs \in JobLists(B)
  BY <1>1, <1>2 DEF JobLists, Added
<1>4. r.nextjid \in 1 .. B + 1
  BY <1>2, MaxJobsAssumption DEF Added
<1> QED
  BY <1>3, <1>4

\* deletejob keeps the list within its bound, and the counter at most one
\* beyond it.
LEMMA DeletejobType ==
  ASSUME NEW B \in Nat,
         NEW js \in JobLists(B), NEW nj \in 1 .. B + 1, NEW q \in Pids,
         NEW r, r = deletejob(js, nj, q)
  PROVE  r.jobs \in JobLists(B) /\ r.nextjid \in 1 .. B + 1
<1>1. clearjob \in [pid : Pids \cup {0}, jid : 0 .. B, state : JobStates]
  BY DEF clearjob, JobStates
<1>2. Deleted(js, nj, q, r)
  BY DeletejobEffect
<1>3. r.jobs \in JobLists(B)
  BY <1>1, <1>2 DEF JobLists, Deleted
<1>4. maxjid(r.jobs) \in 0 .. B
  BY <1>3, MaxjidIsMax
<1> QED
  BY <1>2, <1>3, <1>4 DEF Deleted

-----------------------------------------------------------------------------
LEMMA SetsFacts ==
  /\ Handlers = {"CHLD", "INT", "TSTP"}
  /\ Contexts = {"CHLD", "INT", "TSTP", "main"}
  /\ Signals = {"CHLD", "INT", "TSTP", "QUIT"}
BY DEF Handlers, Contexts, Signals

\* An operand of bg and fg names a slot of the list.
LEMMA NamedJobsAreSlots == NamedJobs \subseteq Slots
<1>1. ASSUME NEW j \in 1 .. JidBound, getjobjid(jobs, j) # NoJob
      PROVE  getjobjid(jobs, j) \in Slots
  <2>1. j \in Int
    BY JidBoundAssumption
  <2> QED
    BY <1>1, <2>1, GetjobSlot
<1>2. ASSUME NEW p \in Pids, getjobpid(jobs, p) # NoJob
      PROVE  getjobpid(jobs, p) \in Slots
  BY <1>2, GetjobSlot
<1> QED
  BY <1>1, <1>2 DEF NamedJobs

-----------------------------------------------------------------------------
(* Type correctness.                                                       *)

\* A command that the user types is of the right type.
LEMMA TypeRead ==
  ASSUME TypeOK, ReadStep PROVE TypeOK'
<1> USE DEF TypeOK, Goto, Main, ctxVars, jobVars, kernVars, locVars, chldVars, msgVars
<1>1. CASE ReadExit
  BY <1>1 DEF ReadExit, ShellStates
<1>2. CASE ReadOther
  BY <1>2 DEF ReadOther, MainPcs
<1>3. ASSUME NEW b \in BOOLEAN, ReadRun(b) PROVE TypeOK'
  BY <1>3 DEF ReadRun, MainPcs
<1>4. ASSUME NEW b \in BOOLEAN, ReadBgfg(b) PROVE TypeOK'
  <2>1. NamedJobs \subseteq Slots
    BY NamedJobsAreSlots
  <2> QED
    BY <1>4, <2>1 DEF ReadBgfg, MainPcs
<1> QED
  BY <1>1, <1>2, <1>3, <1>4 DEF ReadStep, parseline

LEMMA TypeMain ==
  ASSUME TypeOK, JidInv, LocalInv, MainStep PROVE TypeOK'
<1> USE DEF TypeOK, Goto, Main, SetMask, ctxVars, jobVars, kernVars, locVars, chldVars, msgVars
<1>1. ASSUME NEW from, NEW to \in MainPcs, BlockChld(from, to) PROVE TypeOK'
  <2>1. mask["main"] \in SUBSET Signals /\ mask["main"] \cup mask_chld \in SUBSET Signals
    BY SetsFacts DEF mask_chld
  <2> QED
    BY <1>1, <2>1 DEF BlockChld
<1>2. CASE EvalFork
  BY <1>2 DEF EvalFork, MainPcs, ProcStates
<1>3. CASE EvalForkFails \/ BgfgKillFails
  BY <1>3 DEF EvalForkFails, BgfgKillFails, ShellStates
<1>4. CASE EvalAddjob
  <2> DEFINE st == IF bg THEN "BG" ELSE "FG"
  <2>1. st \in JobStates
    BY DEF JobStates
  <2>2. nextjid \in 1 .. JidBound /\ pid \in Pids
    BY <1>4, JidBoundAssumption DEF JidInv, LocalInv, EvalAddjob
  <2>3. PICK r : r = addjob(jobs, nextjid, pid, st)
    OBVIOUS
  <2>4. jobs' = r.jobs /\ nextjid' = r.nextjid
    BY <1>4, <2>3 DEF EvalAddjob
  <2> HIDE DEF st
  <2>5. jobs \in JobLists(JidBound)
    BY DEF JobLists
  <2>6. r.jobs \in JobLists(JidBound) /\ r.nextjid \in 1 .. JidBound + 1
    BY <2>1, <2>2, <2>3, <2>5, AddjobType, JidBoundAssumption
  <2> QED
    BY <1>4, <2>4, <2>6 DEF EvalAddjob, JobLists, MainPcs
<1>5. CASE EvalUnblock \/ BgfgUnblock \/ WaitfgUnblock
  BY <1>5 DEF EvalUnblock, BgfgUnblock, WaitfgUnblock, Unblock, MainPcs
<1>6. CASE BgfgKill
  BY <1>6 DEF BgfgKill, Continue, ChildChanges, MainPcs, ProcStates, Signals, Handlers
<1>7. CASE BgfgEdit
  <2>1. job \in Slots
    BY <1>7 DEF BgfgEdit, LocalInv
  <2>2. jobs' \in [Slots -> [pid : Pids \cup {0}, jid : 0 .. JidBound, state : JobStates]]
    BY <1>7, <2>1 DEF BgfgEdit, JobStates
  <2> QED
    BY <1>7, <2>2 DEF BgfgEdit, MainPcs
<1>8. CASE BgfgWait
  <2>1. job \in Slots
    BY <1>8 DEF BgfgWait, LocalInv
  <2> QED
    BY <1>8, <2>1 DEF BgfgWait, MainPcs
<1>9. CASE WaitfgCheck \/ MsgStop \/ ClearStop \/ MsgTerm
  BY <1>9 DEF WaitfgCheck, MsgStop, ClearStop, MsgTerm, MainPcs
<1>10. CASE EvalReturn
  BY <1>10 DEF EvalReturn, MainPcs
<1> QED
  BY <1>1, <1>2, <1>3, <1>4, <1>5, <1>6, <1>7, <1>8, <1>9, <1>10
     DEF MainStep, EvalBlock, BgfgBlock, WaitfgBlock, MainPcs

LEMMA TypeChld ==
  ASSUME TypeOK, LocalInv, ChldStep PROVE TypeOK'
<1> USE DEF TypeOK, Handler, jobVars, kernVars, locVars, chldVars, msgVars
<1>1. CASE ChldWaitpid
  <2>1. hstatus' \in {"exited", "killed", "stopped"} /\ proc' \in [Pids -> ProcStates]
    BY <1>1 DEF ChldWaitpid, Reportable, ProcStates
  <2>2. hpid' \in [Handlers -> Pids \cup {0}] /\ hpc' \in [Handlers -> HandlerPcs]
    BY <1>1 DEF ChldWaitpid, HandlerPcs
  <2> QED
    BY <1>1, <2>1, <2>2 DEF ChldWaitpid
<1>2. CASE ChldBlock
  BY <1>2, SetsFacts DEF ChldBlock, HandlerPcs, mask_all
<1>3. CASE ChldUpdate
  <2> DEFINE p == hpid["CHLD"]
  <2>1. p \in Pids
    BY <1>3 DEF ChldUpdate, LocalInv
  <2>2. jobs \in JobLists(JidBound)
    BY DEF JobLists
  <2>3. jobs' \in JobLists(JidBound) /\ nextjid' \in 1 .. JidBound + 1
    <3>1. CASE hstatus = "stopped"
      <4>1. getjobpid(jobs, p) \in Slots \cup {NoJob}
        BY <2>1, GetjobSlot
      <4>2. /\ jobs' = IF getjobpid(jobs, p) = NoJob THEN jobs
                       ELSE [jobs EXCEPT ![getjobpid(jobs, p)].state = "ST"]
            /\ nextjid' = nextjid
        BY <1>3, <3>1 DEF ChldUpdate
      <4> QED
        BY <2>2, <4>1, <4>2 DEF JobLists, JobStates
    <3>2. CASE hstatus # "stopped"
      <4>1. PICK r : r = deletejob(jobs, nextjid, p)
        OBVIOUS
      <4>2. jobs' = r.jobs /\ nextjid' = r.nextjid
        BY <1>3, <3>2, <4>1 DEF ChldUpdate
      <4> QED
        BY <2>1, <2>2, <4>1, <4>2, DeletejobType, JidBoundAssumption
    <3> QED
      BY <3>1, <3>2
  <2>4. stop_msg' \in BOOLEAN /\ term_msg' \in BOOLEAN /\ msg_pid' \in Pids \cup {0}
    BY <1>3, <2>1 DEF ChldUpdate
  <2> QED
    BY <1>3, <2>3, <2>4 DEF ChldUpdate, JobLists, HandlerPcs
<1>4. CASE ChldUnblock
  BY <1>4, SetsFacts DEF ChldUnblock, HandlerPcs
<1>5. CASE ChldReturn
  BY <1>5, SetsFacts DEF ChldReturn, Return, HandlerPcs
<1> QED
  BY <1>1, <1>2, <1>3, <1>4, <1>5 DEF ChldStep

LEMMA TypeForward ==
  ASSUME TypeOK, NEW s \in {"INT", "TSTP"}, ForwardStep(s) PROVE TypeOK'
<1> USE DEF TypeOK, Handler, jobVars, kernVars, locVars, chldVars, msgVars, ctxVars
<1>1. fgpid(jobs) \in Pids \cup {0}
  BY FgpidFinds
<1>2. CASE ForwardLookup(s)
  BY <1>1, <1>2, SetsFacts DEF ForwardLookup, Return, HandlerPcs
<1>3. CASE ForwardKill(s)
  <2>1. proc' \in [Pids -> ProcStates] /\ pending' \subseteq Signals
    BY <1>3, SetsFacts DEF ForwardKill, Forwarded, ChildChanges, ProcStates
  <2> QED
    BY <1>3, <2>1, SetsFacts DEF ForwardKill, Return, HandlerPcs
<1>4. CASE ForwardKillFails(s)
  BY <1>4 DEF ForwardKillFails, ShellStates
<1> QED
  BY <1>2, <1>3, <1>4 DEF ForwardStep

LEMMA TypeKernel ==
  ASSUME TypeOK,
         \/ \E s \in Handlers : Deliver(s)
         \/ DeliverQuit
         \/ ChildStep
         \/ \E s \in Keys : Key(s)
         \/ UNCHANGED vars
  PROVE  TypeOK'
<1> USE DEF TypeOK, jobVars, kernVars, locVars, chldVars, msgVars, ctxVars
<1>1. ASSUME NEW s \in Handlers, Deliver(s) PROVE TypeOK'
  <2>1. Blocked \cup {s} \subseteq Signals
    BY SetsFacts DEF Blocked, suspend_mask
  <2>2. mask' \in [Contexts -> SUBSET Signals]
    BY <1>1, <2>1 DEF Deliver
  <2>3. pc' \in MainPcs
    BY <1>1 DEF Deliver, MainPcs
  <2>4. /\ cur' \in Contexts /\ ret' \in [Handlers -> Contexts]
        /\ hpc' \in [Handlers -> HandlerPcs]
    BY <1>1, SetsFacts DEF Deliver, HandlerPcs
  <2> QED
    BY <1>1, <2>2, <2>3, <2>4 DEF Deliver
<1>2. CASE DeliverQuit
  BY <1>2 DEF DeliverQuit, ShellStates
<1>3. CASE ChildStep
  <2>1. proc' \in [Pids -> ProcStates] /\ pending' \subseteq Signals
    BY <1>3, SetsFacts
       DEF ChildStep, ChildSetpgid, ChildExecve, ChildExits, ChildKilled, ChildStops,
           ChildContinues, ChildChanges, ProcStates
  <2> QED
    BY <1>3, <2>1 DEF ChildStep, shellVars
<1>4. ASSUME NEW s \in Keys, Key(s) PROVE TypeOK'
  <2>1. s \in Signals
    BY KeysAssumption
  <2> QED
    BY <1>4, <2>1 DEF Key, shellVars
<1>5. CASE UNCHANGED vars
  BY <1>5 DEF vars
<1> QED
  BY <1>1, <1>2, <1>3, <1>4, <1>5

LEMMA TypeStep ==
  ASSUME TypeOK, JidInv, LocalInv, [Next]_vars PROVE TypeOK'
BY TypeRead, TypeMain, TypeChld, TypeForward, TypeKernel DEF Next, Terminated

-----------------------------------------------------------------------------
(* The stack of contexts and the signal masks.                             *)

\* Main runs only when no handler is active, and touches no handler's state.
LEMMA MainFrame ==
  ASSUME TypeOK, ReadStep \/ MainStep
  PROVE  /\ shell = "alive" /\ cur = "main"
         /\ UNCHANGED <<cur, ret, hpc, hpid, hstatus, hprev>>
         /\ \A h \in Handlers : mask'[h] = mask[h]
<1> USE DEF Goto, Main, ctxVars, chldVars
<1>1. CASE ReadStep
  BY <1>1 DEF ReadStep, parseline, ReadExit, ReadOther, ReadRun, ReadBgfg
<1>2. CASE EvalBlock \/ BgfgBlock \/ WaitfgBlock
  BY <1>2, SetsFacts DEF EvalBlock, BgfgBlock, WaitfgBlock, BlockChld, SetMask, TypeOK
<1>3. CASE EvalUnblock \/ BgfgUnblock \/ WaitfgUnblock
  BY <1>3, SetsFacts DEF EvalUnblock, BgfgUnblock, WaitfgUnblock, Unblock, SetMask, TypeOK
<1>4. CASE EvalFork \/ EvalForkFails \/ EvalAddjob
  BY <1>4 DEF EvalFork, EvalForkFails, EvalAddjob
<1>5. CASE BgfgKill \/ BgfgKillFails \/ BgfgEdit \/ BgfgWait
  BY <1>5 DEF BgfgKill, BgfgKillFails, BgfgEdit, BgfgWait
<1>6. CASE WaitfgCheck \/ MsgStop \/ ClearStop \/ MsgTerm \/ EvalReturn
  BY <1>6 DEF WaitfgCheck, MsgStop, ClearStop, MsgTerm, EvalReturn
<1> QED
  BY <1>1, <1>2, <1>3, <1>4, <1>5, <1>6 DEF MainStep

\* A handler that returns to main was the only one active.
LEMMA BottomOfStack ==
  ASSUME TypeOK, ContextInv, cur \in Handlers, ret[cur] = "main"
  PROVE  \A h \in Handlers : h # cur => ~Active(h)
<1> SUFFICES ASSUME NEW g \in Handlers, g # cur, Active(g) PROVE FALSE
  OBVIOUS
<1>1. Active(cur)
  BY SetsFacts DEF ContextInv
<1>2. ret[g] # "main" /\ ret[g] # cur /\ ret[g] # g
  BY <1>1 DEF ContextInv
<1>3. PICK h \in Handlers : ret[g] = h
  BY <1>2, SetsFacts DEF TypeOK
<1>4. Active(h) /\ h # cur /\ h # g
  BY <1>2, <1>3 DEF ContextInv
<1>5. ret[h] # "main" /\ ret[h] # cur /\ ret[h] # h /\ ret[h] # g
  BY <1>1, <1>2, <1>3, <1>4 DEF ContextInv
<1> QED
  BY <1>3, <1>4, <1>5, SetsFacts DEF TypeOK

\* The running handler has the signals of all active handlers blocked.
LEMMA ActiveBlocked ==
  ASSUME TypeOK, ContextInv, MaskInv, NEW s \in Handlers, Active(s)
  PROVE  s \in Blocked
<1>1. cur # "main" /\ cur \in Handlers /\ Active(cur)
  BY SetsFacts DEF ContextInv, TypeOK
<1>2. Blocked = mask[cur]
  BY <1>1 DEF Blocked
<1>3. CASE s = cur
  BY <1>1, <1>2, <1>3 DEF MaskInv
<1>4. CASE s # cur
  <2>1. ret[cur] # "main" /\ ret[cur] # cur /\ ret[cur] \in Handlers
    BY <1>1, <1>4, BottomOfStack, SetsFacts DEF ContextInv, TypeOK
  <2>2. mask[ret[cur]] \subseteq mask[cur] /\ Active(ret[cur])
    BY <1>1, <2>1 DEF MaskInv, ContextInv
  <2>3. CASE ret[cur] = s
    BY <1>2, <2>2, <2>3 DEF MaskInv
  <2>4. CASE ret[cur] # s
    <3> DEFINE k == ret[cur]
    <3>1. ret[s] # cur /\ ret[s] # s /\ ret[s] # k /\ ret[s] \in Contexts
      BY <1>1, <1>4 DEF ContextInv, TypeOK
    <3>2. ret[s] = "main"
      BY <1>1, <1>4, <2>1, <2>4, <3>1, SetsFacts
    <3>3. ret[k] # cur /\ ret[k] # k /\ ret[k] # "main" /\ ret[k] \in Contexts
      BY <2>1, <2>2, <2>4, <3>2 DEF ContextInv, TypeOK
    <3>4. ret[k] = s
      BY <1>1, <1>4, <2>1, <2>4, <3>3, SetsFacts
    <3>5. mask[s] \subseteq mask[k]
      BY <2>1, <2>2, <3>3, <3>4 DEF MaskInv
    <3> QED
      BY <1>2, <2>2, <3>5 DEF MaskInv
  <2> QED
    BY <2>3, <2>4
<1> QED
  BY <1>3, <1>4

LEMMA ContextStep ==
  ASSUME TypeOK, ContextInv, MaskInv, [Next]_vars PROVE ContextInv'
<1>1. CASE UNCHANGED <<cur, ret, hpc>>
  BY <1>1 DEF ContextInv, Active
<1>2. ASSUME NEW s \in Handlers, Deliver(s) PROVE ContextInv'
  <2>1. ~Active(s)
    BY <1>2, ActiveBlocked DEF Deliver
  <2>2. /\ cur' = s /\ ret' = [ret EXCEPT ![s] = cur]
        /\ hpc' = [hpc EXCEPT ![s] = "entry"]
    BY <1>2 DEF Deliver
  <2> QED
    BY <2>1, <2>2, SetsFacts DEF ContextInv, Active, TypeOK
<1>3. ASSUME NEW s \in Handlers, cur = s, Return(s) PROVE ContextInv'
  <2>1. /\ cur' = ret[s] /\ ret' = [ret EXCEPT ![s] = "main"]
        /\ hpc' = [hpc EXCEPT ![s] = "idle"]
    BY <1>3 DEF Return
  <2>2. CASE ret[s] = "main"
    BY <1>3, <2>1, <2>2, BottomOfStack, SetsFacts DEF ContextInv, Active, TypeOK
  <2>3. CASE ret[s] # "main"
    BY <1>3, <2>1, <2>3, SetsFacts DEF ContextInv, Active, TypeOK
  <2> QED
    BY <2>2, <2>3
<1>4. ASSUME NEW s \in Handlers, cur = s, Active(s), UNCHANGED <<cur, ret>>,
             NEW at \in HandlerPcs \ {"idle"}, hpc' = [hpc EXCEPT ![s] = at]
      PROVE  ContextInv'
  BY <1>4 DEF ContextInv, Active, TypeOK
<1>5. CASE ChldStep
  <2>1. CASE ChldReturn
    BY <1>3, <2>1, SetsFacts DEF ChldReturn, Handler
  <2>2. CASE ChldWaitpid \/ ChldBlock \/ ChldUpdate \/ ChldUnblock
    <3>1. \E at \in HandlerPcs \ {"idle"} : hpc' = [hpc EXCEPT !["CHLD"] = at]
      BY <2>2 DEF ChldWaitpid, ChldBlock, ChldUpdate, ChldUnblock, HandlerPcs
    <3>2. cur = "CHLD" /\ Active("CHLD") /\ UNCHANGED <<cur, ret>>
      BY <2>2 DEF ChldWaitpid, ChldBlock, ChldUpdate, ChldUnblock, Handler, Active
    <3> QED
      BY <1>4, <3>1, <3>2, SetsFacts
  <2> QED
    BY <1>5, <2>1, <2>2 DEF ChldStep
<1>6. ASSUME NEW s \in {"INT", "TSTP"}, ForwardStep(s) PROVE ContextInv'
  <2>1. s \in Handlers /\ cur = s /\ Active(s)
    BY <1>6, SetsFacts
       DEF ForwardStep, ForwardLookup, ForwardKill, ForwardKillFails, Handler, Active
  <2>2. \/ Return(s)
        \/ hpc' = [hpc EXCEPT ![s] = "kill"] /\ UNCHANGED <<cur, ret>>
        \/ UNCHANGED <<cur, ret, hpc>>
    BY <1>6 DEF ForwardStep, ForwardLookup, ForwardKill, ForwardKillFails, ctxVars
  <2> QED
    BY <1>1, <1>3, <1>4, <2>1, <2>2 DEF HandlerPcs
<1>7. CASE DeliverQuit \/ ChildStep \/ (\E s \in Keys : Key(s)) \/ UNCHANGED vars
  BY <1>1, <1>7 DEF DeliverQuit, ChildStep, Key, shellVars, vars, ctxVars
<1>8. CASE ReadStep \/ MainStep
  BY <1>1, <1>8, MainFrame
<1> QED
  BY <1>2, <1>5, <1>6, <1>7, <1>8 DEF Next, Terminated

\* Main enters a critical section by blocking SIGCHLD and stays in it with
\* SIGCHLD blocked.
LEMMA MainCritical ==
  ASSUME TypeOK, MaskInv, ReadStep \/ MainStep, pc' \in Critical
  PROVE  "CHLD" \in mask'["main"]
<1> USE DEF Goto, Main, Critical
<1>1. CASE ReadStep
  BY <1>1 DEF ReadStep, parseline, ReadExit, ReadOther, ReadRun, ReadBgfg, MaskInv
<1>2. CASE EvalBlock \/ BgfgBlock \/ WaitfgBlock
  BY <1>2, SetsFacts
     DEF EvalBlock, BgfgBlock, WaitfgBlock, BlockChld, SetMask, mask_chld, TypeOK
<1>3. CASE EvalUnblock \/ BgfgUnblock \/ WaitfgUnblock
  BY <1>3 DEF EvalUnblock, BgfgUnblock, WaitfgUnblock, Unblock
<1>4. CASE EvalFork \/ EvalForkFails \/ EvalAddjob
  BY <1>4 DEF EvalFork, EvalForkFails, EvalAddjob, MaskInv
<1>5. CASE BgfgKill \/ BgfgKillFails \/ BgfgEdit \/ BgfgWait
  BY <1>5 DEF BgfgKill, BgfgKillFails, BgfgEdit, BgfgWait, MaskInv
<1>6. CASE WaitfgCheck \/ MsgStop \/ ClearStop \/ MsgTerm \/ EvalReturn
  BY <1>6 DEF WaitfgCheck, MsgStop, ClearStop, MsgTerm, EvalReturn
<1> QED
  BY <1>1, <1>2, <1>3, <1>4, <1>5, <1>6 DEF MainStep

LEMMA MaskStep ==
  ASSUME TypeOK, ContextInv, MaskInv, [Next]_vars PROVE MaskInv'
<1>1. CASE UNCHANGED <<pc, cur, ret, hpc, mask, hprev>>
  BY <1>1 DEF MaskInv, Active
<1>2. CASE ReadStep \/ MainStep
  <2>1. \A h \in Handlers : ~Active(h) /\ ~Active(h)'
    BY <1>2, MainFrame DEF ContextInv, Active
  <2>2. pc' \in Critical => "CHLD" \in mask'["main"]
    BY <1>2, MainCritical
  <2>3. hpc'["CHLD"] = "idle"
    BY <2>1, SetsFacts DEF Active
  <2> QED
    BY <2>1, <2>2, <2>3, SetsFacts DEF MaskInv
<1>3. ASSUME NEW s \in Handlers, Deliver(s) PROVE MaskInv'
  <2>1. ~Active(s) /\ s \notin Blocked
    BY <1>3, ActiveBlocked DEF Deliver
  <2>2. /\ cur' = s /\ ret' = [ret EXCEPT ![s] = cur]
        /\ hpc' = [hpc EXCEPT ![s] = "entry"]
        /\ mask' = [mask EXCEPT ![s] = Blocked \cup {s}]
        /\ hprev' = hprev
    BY <1>3 DEF Deliver, chldVars
  <2>3. hpc["CHLD"] \notin {"update", "unblock"}
    BY <2>1, SetsFacts DEF MaskInv, Blocked
  <2>4. \A h \in Handlers : Active(h)' <=> h = s \/ Active(h)
    BY <2>2 DEF Active, TypeOK
  <2>5. cur # "main" => Blocked = mask[cur] /\ Active(cur)
    BY DEF Blocked, ContextInv
  <2>6. ASSUME NEW h \in Handlers, Active(h)'
        PROVE  h \in mask'[h] /\ (ret'[h] # "main" => mask'[ret'[h]] \subseteq mask'[h])
    <3>1. CASE h = s
      BY <2>1, <2>2, <2>5, <3>1, SetsFacts DEF TypeOK
    <3>2. CASE h # s
      <4>1. Active(h) /\ ret'[h] = ret[h] /\ mask'[h] = mask[h]
        BY <2>2, <2>4, <2>6, <3>2, SetsFacts DEF TypeOK
      <4>2. ret[h] # s
        BY <2>1, <4>1, SetsFacts DEF ContextInv
      <4> QED
        BY <2>2, <4>1, <4>2, SetsFacts DEF MaskInv, TypeOK
    <3> QED
      BY <3>1, <3>2
  <2>7. ASSUME pc' \in Critical
        PROVE  /\ "CHLD" \in mask'["main"] /\ ~Active("CHLD")'
               /\ \A h \in Handlers : Active(h)' => "CHLD" \in mask'[h]
    <3>1. pc \in Critical /\ pc # "wf_suspend"
      BY <1>3, <2>7 DEF Deliver, Critical
    <3>2. "CHLD" \in Blocked
      BY <2>5, <3>1, SetsFacts DEF MaskInv, Blocked, TypeOK
    <3> QED
      BY <2>1, <2>2, <2>4, <3>1, <3>2, SetsFacts DEF MaskInv, TypeOK
  <2>8. hpc'["CHLD"] \notin {"update", "unblock"}
    BY <2>2, <2>3, SetsFacts DEF TypeOK
  <2> QED
    BY <2>6, <2>7, <2>8 DEF MaskInv
<1>4. ASSUME NEW s \in Handlers, cur = s, Return(s), UNCHANGED <<pc, hprev>>,
             hpc["CHLD"] \notin {"update", "unblock"}
      PROVE  MaskInv'
  <2>1. /\ ret' = [ret EXCEPT ![s] = "main"] /\ mask' = [mask EXCEPT ![s] = {}]
        /\ hpc' = [hpc EXCEPT ![s] = "idle"]
    BY <1>4 DEF Return
  <2>2. \A h \in Handlers : Active(h)' => h # s /\ Active(h) /\ ret[h] # s
    BY <1>4, <2>1 DEF Active, ContextInv, TypeOK
  <2>3. hpc'["CHLD"] \notin {"update", "unblock"}
    BY <1>4, <2>1, SetsFacts DEF TypeOK
  <2> QED
    BY <1>4, <2>1, <2>2, <2>3, SetsFacts DEF MaskInv, Active, TypeOK
<1>5. CASE ChldStep
  <2> USE DEF Handler
  <2>1. cur = "CHLD" /\ Active("CHLD") /\ pc \notin Critical /\ pc' = pc
    BY <1>5 DEF ChldStep, ChldWaitpid, ChldBlock, ChldUpdate, ChldUnblock, ChldReturn,
                Active, MaskInv
  <2>2. CASE ChldReturn
    BY <1>4, <2>2, SetsFacts DEF ChldReturn, chldVars
  <2>3. CASE ChldWaitpid
    <3>1. /\ hpc' = [hpc EXCEPT !["CHLD"] = "block"]
          /\ UNCHANGED <<cur, ret, mask, hprev>>
      BY <2>3 DEF ChldWaitpid
    <3> QED
      BY <2>1, <3>1, SetsFacts DEF MaskInv, Active, TypeOK
  <2>4. CASE ChldBlock
    <3>1. /\ hpc' = [hpc EXCEPT !["CHLD"] = "update"] /\ hprev' = mask["CHLD"]
          /\ mask' = [mask EXCEPT !["CHLD"] = @ \cup Signals] /\ UNCHANGED <<cur, ret>>
      BY <2>4 DEF ChldBlock, mask_all
    <3>2. mask'["CHLD"] = Signals /\ ret["CHLD"] # "CHLD"
      BY <2>1, <3>1, SetsFacts DEF TypeOK, ContextInv
    <3>3. "CHLD" \in hprev' /\ (ret'["CHLD"] # "main" => mask'[ret'["CHLD"]] \subseteq hprev')
      BY <2>1, <3>1, <3>2, SetsFacts DEF MaskInv, TypeOK
    <3>4. \A h \in Handlers : Active(h) => ret[h] # "CHLD"
      BY <2>1 DEF ContextInv
    <3> QED
      BY <2>1, <3>1, <3>2, <3>3, <3>4, SetsFacts DEF MaskInv, Active, TypeOK
  <2>5. CASE ChldUpdate
    <3>1. /\ hpc' = [hpc EXCEPT !["CHLD"] = "unblock"] /\ hpc["CHLD"] = "update"
          /\ UNCHANGED <<cur, ret, mask, hprev>>
      BY <2>5 DEF ChldUpdate, chldVars
    <3> QED
      BY <2>1, <3>1, SetsFacts DEF MaskInv, Active, TypeOK
  <2>6. CASE ChldUnblock
    <3>1. /\ hpc' = [hpc EXCEPT !["CHLD"] = "entry"] /\ hpc["CHLD"] = "unblock"
          /\ mask' = [mask EXCEPT !["CHLD"] = hprev] /\ UNCHANGED <<cur, ret>>
      BY <2>6 DEF ChldUnblock
    <3>2. \A h \in Handlers : Active(h) => ret[h] # "CHLD"
      BY <2>1 DEF ContextInv
    <3> QED
      BY <2>1, <3>1, <3>2, SetsFacts DEF MaskInv, Active, TypeOK
  <2> QED
    BY <1>5, <2>2, <2>3, <2>4, <2>5, <2>6 DEF ChldStep
<1>6. ASSUME NEW s \in {"INT", "TSTP"}, ForwardStep(s) PROVE MaskInv'
  <2>1. s \in Handlers /\ cur = s /\ Active(s) /\ UNCHANGED <<pc, hprev>>
    BY <1>6, SetsFacts
       DEF ForwardStep, ForwardLookup, ForwardKill, ForwardKillFails, Handler, Active, chldVars
  <2>2. hpc["CHLD"] \notin {"update", "unblock"}
    BY <2>1 DEF MaskInv
  <2>3. \/ Return(s)
        \/ hpc' = [hpc EXCEPT ![s] = "kill"] /\ UNCHANGED <<cur, ret, mask>>
        \/ UNCHANGED <<cur, ret, hpc, mask>>
    BY <1>6 DEF ForwardStep, ForwardLookup, ForwardKill, ForwardKillFails, ctxVars
  <2>4. CASE hpc' = [hpc EXCEPT ![s] = "kill"] /\ UNCHANGED <<cur, ret, mask>>
    <3>1. hpc'["CHLD"] = hpc["CHLD"] /\ \A h \in Handlers : Active(h)' => Active(h)
      BY <2>1, <2>4, SetsFacts DEF Active, TypeOK
    <3> QED
      BY <2>1, <2>2, <2>4, <3>1, SetsFacts DEF MaskInv, Active
  <2> QED
    BY <1>1, <1>4, <2>1, <2>2, <2>3, <2>4
<1>7. CASE DeliverQuit \/ ChildStep \/ (\E s \in Keys : Key(s)) \/ UNCHANGED vars
  BY <1>1, <1>7 DEF DeliverQuit, ChildStep, Key, shellVars, vars, ctxVars, chldVars
<1> QED
  BY <1>2, <1>3, <1>5, <1>6, <1>7 DEF Next, Terminated

-----------------------------------------------------------------------------
(* What each step does to the job list and to main's locals.               *)

\* The steps that are not main's: handlers, signal delivery, environment.
OtherStep ==
  \/ ChldStep
  \/ \E s \in {"INT", "TSTP"} : ForwardStep(s)
  \/ \E s \in Handlers : Deliver(s)
  \/ DeliverQuit \/ ChildStep
  \/ \E s \in Keys : Key(s)
  \/ UNCHANGED vars

LEMMA NextCases == ASSUME [Next]_vars PROVE ReadStep \/ MainStep \/ OtherStep
BY DEF Next, OtherStep, Terminated

\* No handler touches main's locals or mask, and only sigchld_handler's
\* update writes the job list.
LEMMA OtherFrame ==
  ASSUME TypeOK, OtherStep
  PROVE  /\ UNCHANGED <<pid, bg, job, prev>> /\ mask'["main"] = mask["main"]
         /\ pc' = pc \/ (pc = "wf_suspend" /\ pc' = "wf_check")
         /\ ChldUpdate \/ UNCHANGED <<jobs, nextjid>>
<1> USE DEF jobVars, locVars
<1>1. CASE ChldStep
  BY <1>1, SetsFacts DEF ChldStep, ChldWaitpid, ChldBlock, ChldUpdate, ChldUnblock,
                         ChldReturn, Return, TypeOK
<1>2. ASSUME NEW s \in {"INT", "TSTP"}, ForwardStep(s)
      PROVE  /\ UNCHANGED <<pc, pid, bg, job, prev, jobs, nextjid>>
             /\ mask'["main"] = mask["main"]
  BY <1>2, SetsFacts
     DEF ForwardStep, ForwardLookup, ForwardKill, ForwardKillFails, Return, TypeOK
<1>3. ASSUME NEW s \in Handlers, Deliver(s)
      PROVE  /\ UNCHANGED <<pid, bg, job, prev, jobs, nextjid>>
             /\ mask'["main"] = mask["main"]
             /\ pc' = pc \/ (pc = "wf_suspend" /\ pc' = "wf_check")
  BY <1>3, SetsFacts DEF Deliver, TypeOK
<1>4. CASE DeliverQuit \/ ChildStep \/ (\E s \in Keys : Key(s)) \/ UNCHANGED vars
  BY <1>4 DEF DeliverQuit, ChildStep, Key, shellVars, vars
<1> QED
  BY <1>1, <1>2, <1>3, <1>4 DEF OtherStep

\* Main writes the job list in addjob and in do_bgfg's edit only.
LEMMA MainJobs ==
  ASSUME ReadStep \/ MainStep
  PROVE  EvalAddjob \/ BgfgEdit \/ UNCHANGED <<jobs, nextjid>>
BY DEF ReadStep, parseline, ReadExit, ReadOther, ReadRun, ReadBgfg, MainStep,
       EvalBlock, BgfgBlock, WaitfgBlock, BlockChld,
       EvalUnblock, BgfgUnblock, WaitfgUnblock, Unblock,
       EvalFork, EvalForkFails, BgfgKill, BgfgKillFails, BgfgWait,
       WaitfgCheck, MsgStop, ClearStop, MsgTerm, EvalReturn, jobVars

\* The slots after sigchld_handler's update: the job of the reported child is
\* stopped or cleared, every other slot is as before.
LEMMA UpdateEffect ==
  ASSUME TypeOK, LocalInv, ListInv, ChldUpdate
  PROVE  /\ hpid["CHLD"] \in Pids
         /\ \A i \in Slots :
              jobs'[i] = IF jobs[i].pid # hpid["CHLD"] THEN jobs[i]
                         ELSE IF hstatus = "stopped" THEN [jobs[i] EXCEPT !.state = "ST"]
                         ELSE clearjob
         /\ nextjid' = nextjid \/ nextjid' = maxjid(jobs') + 1
<1> DEFINE p == hpid["CHLD"]
<1>1. p \in Pids /\ p # 0
  BY PidsAssumption DEF ChldUpdate, Handler, LocalInv
<1>2. \A i, k \in Slots : jobs[i].pid = p /\ jobs[k].pid = p => i = k
  BY <1>1 DEF ListInv
<1>3. CASE hstatus = "stopped"
  <2>1. PICK j : j = getjobpid(jobs, p)
    OBVIOUS
  <2>2. \/ j = NoJob /\ \A k \in Slots : jobs[k].pid # p
        \/ j \in Slots /\ j # NoJob /\ jobs[j].pid = p
    BY <1>1, <2>1, GetjobpidFinds
  <2>3. /\ jobs' = IF j = NoJob THEN jobs ELSE [jobs EXCEPT ![j].state = "ST"]
        /\ nextjid' = nextjid
    BY <1>3, <2>1 DEF ChldUpdate
  <2> QED
    BY <1>1, <1>2, <1>3, <2>2, <2>3 DEF TypeOK
<1>4. CASE hstatus # "stopped"
  <2>1. PICK r : r = deletejob(jobs, nextjid, p)
    OBVIOUS
  <2>2. jobs' = r.jobs /\ nextjid' = r.nextjid
    BY <1>4, <2>1 DEF ChldUpdate
  <2>3. Deleted(jobs, nextjid, p, r)
    BY <1>1, <2>1, DeletejobEffect
  <2>4. \A i \in Slots : jobs'[i] = IF jobs[i].pid # p THEN jobs[i] ELSE clearjob
    BY <1>2, <2>2, <2>3 DEF Deleted, TypeOK
  <2>5. nextjid' = nextjid \/ nextjid' = maxjid(jobs') + 1
    BY <2>2, <2>3 DEF Deleted
  <2> QED
    BY <1>1, <1>4, <2>4, <2>5
<1> QED
  BY <1>3, <1>4

\* The slots after eval's addjob: an empty slot holds the new job, or there was
\* none and nothing has changed.
LEMMA AddEffect ==
  ASSUME TypeOK, LocalInv, EvalAddjob
  PROVE  \/ jobs' = jobs /\ \A k \in Slots : jobs[k].pid # 0
         \/ \E i \in Slots :
              /\ jobs[i].pid = 0
              /\ jobs'[i].pid = pid /\ jobs'[i].state = IF bg THEN "BG" ELSE "FG"
              /\ \A k \in Slots \ {i} : jobs'[k] = jobs[k]
<1>1. PICK st : st = IF bg THEN "BG" ELSE "FG"
  OBVIOUS
<1>2. PICK r : r = addjob(jobs, nextjid, pid, st)
  OBVIOUS
<1>3. PICK new : new = [pid |-> pid, jid |-> nextjid, state |-> st]
  OBVIOUS
<1>4. jobs' = r.jobs
  BY <1>1, <1>2 DEF EvalAddjob
<1>5. pid \in Pids
  BY DEF EvalAddjob, Main, LocalInv
<1>6. Added(jobs, nextjid, new, r)
  BY <1>2, <1>3, <1>5, AddjobEffect
<1>7. new.pid = pid /\ new.state = st
  BY <1>3
<1> QED
  BY <1>1, <1>4, <1>6, <1>7 DEF Added, TypeOK

\* The slots after do_bgfg's edit: only the state of slot job changes.
LEMMA EditEffect ==
  ASSUME TypeOK, LocalInv, BgfgEdit
  PROVE  /\ job \in Slots
         /\ jobs'[job] = [jobs[job] EXCEPT !.state = IF bg THEN "BG" ELSE "FG"]
         /\ \A k \in Slots \ {job} : jobs'[k] = jobs[k]
<1>1. job \in Slots
  BY DEF BgfgEdit, Main, LocalInv
<1> QED
  BY <1>1 DEF BgfgEdit, TypeOK

-----------------------------------------------------------------------------
(* The remaining conjuncts of the invariant, one by one.                   *)

LEMMA PrevStep ==
  ASSUME TypeOK, PrevInv, [Next]_vars PROVE PrevInv'
<1> USE DEF PrevInv, Critical
<1>1. CASE ReadStep
  BY <1>1 DEF ReadStep, parseline, ReadExit, ReadOther, ReadRun, ReadBgfg, Goto, Main, locVars
<1>2. CASE MainStep
  <2> USE DEF Goto, Main, locVars
  <2>1. CASE EvalBlock \/ BgfgBlock \/ WaitfgBlock
    BY <2>1, SetsFacts DEF EvalBlock, BgfgBlock, WaitfgBlock, BlockChld
  <2>2. CASE EvalUnblock \/ BgfgUnblock \/ WaitfgUnblock
    BY <2>2, SetsFacts DEF EvalUnblock, BgfgUnblock, WaitfgUnblock, Unblock, SetMask, TypeOK
  <2>3. CASE EvalFork \/ EvalForkFails \/ EvalAddjob
    BY <2>3 DEF EvalFork, EvalForkFails, EvalAddjob
  <2>4. CASE BgfgKill \/ BgfgKillFails \/ BgfgEdit \/ BgfgWait
    BY <2>4 DEF BgfgKill, BgfgKillFails, BgfgEdit, BgfgWait
  <2>5. CASE WaitfgCheck \/ MsgStop \/ ClearStop \/ MsgTerm \/ EvalReturn
    BY <2>5 DEF WaitfgCheck, MsgStop, ClearStop, MsgTerm, EvalReturn
  <2> QED
    BY <1>2, <2>1, <2>2, <2>3, <2>4, <2>5 DEF MainStep
<1>3. CASE OtherStep
  BY <1>3, OtherFrame
<1> QED
  BY <1>1, <1>2, <1>3, NextCases

\* The list below the bound, in the form the lemmas on deletejob use.
LEMMA JidStep ==
  ASSUME TypeOK, JidInv, LocalInv, ListInv, [Next]_vars PROVE JidInv'
<1> DEFINE At == {"ev_block", "ev_fork", "ev_add"}
<1>1. CASE ReadStep
  <2>1. CASE \E b \in BOOLEAN : ReadRun(b)
    <3>1. jobs \in JobLists(JidBound) /\ JidBound \in Nat
      BY JidBoundAssumption DEF TypeOK, JobLists
    <3>2. /\ nextjid <= JidBound /\ maxjid(jobs) < JidBound
          /\ UNCHANGED <<jobs, nextjid>>
      BY <2>1 DEF ReadRun, jobVars
    <3>3. /\ maxjid(jobs) \in 0 .. JidBound
          /\ \A i \in Slots : jobs[i].jid <= maxjid(jobs) /\ jobs[i].jid \in 0 .. JidBound
      BY <3>1, MaxjidIsMax DEF JobLists
    <3>4. \A i \in Slots : jobs[i].jid < JidBound
      BY <3>1, <3>2, <3>3
    <3> QED
      BY <3>2, <3>4 DEF JidInv
  <2>2. CASE ReadExit
    BY <2>2 DEF ReadExit, JidInv, jobVars
  <2>3. CASE ReadOther \/ \E b \in BOOLEAN : ReadBgfg(b)
    BY <2>3 DEF ReadOther, ReadBgfg, Goto, JidInv
  <2> QED
    BY <1>1, <2>1, <2>2, <2>3 DEF ReadStep, parseline
<1>2. CASE MainStep
  <2>1. pc' \in At => pc \in At /\ UNCHANGED <<jobs, nextjid>>
    BY <1>2 DEF MainStep, EvalBlock, BgfgBlock, WaitfgBlock, BlockChld,
       EvalUnblock, BgfgUnblock, WaitfgUnblock, Unblock,
       EvalFork, EvalForkFails, EvalAddjob, BgfgKill, BgfgKillFails, BgfgEdit, BgfgWait,
       WaitfgCheck, MsgStop, ClearStop, MsgTerm, EvalReturn, jobVars, Goto, Main
  <2> QED
    BY <2>1 DEF JidInv
<1>3. CASE OtherStep
  <2>1. pc' \in At => pc' = pc
    BY <1>3, OtherFrame
  <2>2. CASE UNCHANGED <<jobs, nextjid>>
    BY <2>1, <2>2 DEF JidInv
  <2>3. ASSUME ChldUpdate, pc' \in At
        PROVE  nextjid' <= JidBound /\ \A i \in Slots : jobs'[i].jid < JidBound
    <3>1. nextjid <= JidBound /\ \A i \in Slots : jobs[i].jid < JidBound
      BY <2>1, <2>3 DEF JidInv
    <3>2. /\ \A i \in Slots : jobs'[i].jid = jobs[i].jid \/ jobs'[i] = clearjob
          /\ nextjid' = nextjid \/ nextjid' = maxjid(jobs') + 1
      <4>1. ASSUME NEW i \in Slots PROVE jobs'[i].jid = jobs[i].jid \/ jobs'[i] = clearjob
        <5>1. jobs[i] \in [pid : Pids \cup {0}, jid : 0 .. JidBound, state : JobStates]
          BY DEF TypeOK
        <5>2. jobs'[i] \in {jobs[i], [jobs[i] EXCEPT !.state = "ST"], clearjob}
          BY <2>3, UpdateEffect
        <5> QED
          BY <5>1, <5>2
      <4> QED
        BY <2>3, <4>1, UpdateEffect
    <3>3. 0 \in Slots /\ JidBound \in Nat
      BY MaxJobsAssumption, JidBoundAssumption DEF Slots
    <3>4. 0 < JidBound
      BY <3>1, <3>3 DEF TypeOK
    <3>5. \A i \in Slots : jobs'[i].jid < JidBound
      BY <3>1, <3>2, <3>4 DEF clearjob
    <3>6. jobs' \in JobLists(JidBound)
      BY TypeStep DEF TypeOK, JobLists
    <3>7. maxjid(jobs') < JidBound /\ maxjid(jobs') \in 0 .. JidBound
      BY <3>3, <3>5, <3>6, MaxjidIsMax
    <3>8. nextjid' <= JidBound
      BY <3>1, <3>2, <3>3, <3>7
    <3> QED
      BY <3>5, <3>8
  <2> QED
    BY <1>3, <2>2, <2>3, OtherFrame DEF JidInv
<1> QED
  BY <1>1, <1>2, <1>3, NextCases

LEMMA ListStep ==
  ASSUME TypeOK, LocalInv, ListInv, [Next]_vars PROVE ListInv'
<1>1. CASE UNCHANGED jobs
  BY <1>1 DEF ListInv
<1>2. CASE EvalAddjob
  <2>1. pid # 0 /\ \A i \in Slots : jobs[i].pid # pid
    BY <1>2, PidsAssumption DEF EvalAddjob, Main, LocalInv
  <2> QED
    BY <1>2, <2>1, AddEffect DEF ListInv
<1>3. CASE BgfgEdit
  BY <1>3, EditEffect DEF ListInv, TypeOK
<1>4. CASE ChldUpdate
  <2>1. \A i \in Slots :
          \/ jobs'[i] = jobs[i]
          \/ jobs'[i].pid = jobs[i].pid /\ jobs'[i].state = "ST"
          \/ jobs'[i].pid = 0
    <3> TAKE i \in Slots
    <3>1. jobs[i] \in [pid : Pids \cup {0}, jid : 0 .. JidBound, state : JobStates]
      BY DEF TypeOK
    <3>2. jobs'[i] \in {jobs[i], [jobs[i] EXCEPT !.state = "ST"], clearjob}
      BY <1>4, UpdateEffect
    <3> QED
      BY <3>1, <3>2 DEF clearjob
  <2> QED
    BY <2>1 DEF ListInv
<1> QED
  BY <1>1, <1>2, <1>3, <1>4, MainJobs, OtherFrame, NextCases

\* A child is reaped by waitpid and by nothing else.
LEMMA ProcFrame ==
  ASSUME TypeOK, [Next]_vars, NEW p \in Pids, proc[p] # "none"
  PROVE  proc'[p] # "none" \/ ChldWaitpid
<1> USE DEF TypeOK, kernVars
<1>1. CASE ReadStep
  BY <1>1 DEF ReadStep, parseline, ReadExit, ReadOther, ReadRun, ReadBgfg
<1>2. CASE MainStep
  BY <1>2 DEF MainStep, EvalBlock, BgfgBlock, WaitfgBlock, BlockChld,
     EvalUnblock, BgfgUnblock, WaitfgUnblock, Unblock,
     EvalFork, EvalForkFails, EvalAddjob, BgfgKill, BgfgKillFails, BgfgEdit, BgfgWait,
     WaitfgCheck, MsgStop, ClearStop, MsgTerm, EvalReturn, Continue, ChildChanges
<1>3. CASE ChldStep
  BY <1>3 DEF ChldStep, ChldBlock, ChldUpdate, ChldUnblock, ChldReturn
<1>4. CASE \E s \in {"INT", "TSTP"} : ForwardStep(s)
  BY <1>4 DEF ForwardStep, ForwardLookup, ForwardKill, ForwardKillFails, Forwarded,
              ChildChanges
<1>5. CASE \/ \E s \in Handlers : Deliver(s)
           \/ DeliverQuit \/ (\E s \in Keys : Key(s)) \/ UNCHANGED vars
  BY <1>5 DEF Deliver, DeliverQuit, Key, vars
<1>6. CASE ChildStep
  BY <1>6 DEF ChildStep, ChildSetpgid, ChildExecve, ChildExits, ChildKilled, ChildStops,
              ChildContinues, ChildChanges
<1> QED
  BY <1>1, <1>2, <1>3, <1>4, <1>5, <1>6, NextCases DEF OtherStep

LEMMA LocalStep ==
  ASSUME TypeOK, ContextInv, MaskInv, LocalInv, JobsAreChildren, [Next]_vars
  PROVE  LocalInv'
<1> DEFINE Bf == {"bf_block", "bf_kill", "bf_edit", "bf_unblock", "bf_wait"}
<1>1. pc' \in Bf => job' \in Slots
  <2>1. CASE ReadStep
    BY <2>1, NamedJobsAreSlots
       DEF ReadStep, parseline, ReadExit, ReadOther, ReadRun, ReadBgfg, Goto, Main, locVars, LocalInv
  <2>2. CASE MainStep
    <3>1. pc' \in Bf => pc \in Bf /\ job' = job
      BY <2>2 DEF MainStep, EvalBlock, BgfgBlock, WaitfgBlock, BlockChld,
         EvalUnblock, BgfgUnblock, WaitfgUnblock, Unblock,
         EvalFork, EvalForkFails, EvalAddjob, BgfgKill, BgfgKillFails, BgfgEdit, BgfgWait,
         WaitfgCheck, MsgStop, ClearStop, MsgTerm, EvalReturn, locVars, Goto, Main
    <3> QED
      BY <3>1 DEF LocalInv
  <2>3. CASE OtherStep
    BY <2>3, OtherFrame DEF LocalInv
  <2> QED
    BY <2>1, <2>2, <2>3, NextCases
<1>2. ASSUME pc' = "ev_add"
      PROVE  /\ pid' \in Pids /\ proc'[pid'] # "none"
             /\ \A i \in Slots : jobs'[i].pid # pid'
  <2>1. CASE EvalFork
    <3>1. PICK p \in Pids : /\ proc[p] = "none" /\ pid' = p
                            /\ proc' = [proc EXCEPT ![p] = "born"]
      BY <2>1 DEF EvalFork
    <3>2. hpc["CHLD"] = "idle" /\ jobs' = jobs
      BY <2>1, SetsFacts DEF EvalFork, Main, ContextInv, Active, jobVars
    <3>3. \A i \in Slots : jobs[i].pid # p
      BY <3>1, <3>2, PidsAssumption DEF JobsAreChildren, BeingDeleted
    <3> QED
      BY <3>1, <3>2, <3>3 DEF TypeOK
  <2>2. CASE ~EvalFork
    <3>1. pc = "ev_add" /\ pid' = pid /\ jobs' = jobs
      <4>1. CASE ReadStep \/ MainStep
        BY <1>2, <2>2, <4>1
           DEF ReadStep, parseline, ReadExit, ReadOther, ReadRun, ReadBgfg, MainStep,
           EvalBlock, BgfgBlock, WaitfgBlock, BlockChld,
           EvalUnblock, BgfgUnblock, WaitfgUnblock, Unblock,
           EvalForkFails, EvalAddjob, BgfgKill, BgfgKillFails, BgfgEdit, BgfgWait,
           WaitfgCheck, MsgStop, ClearStop, MsgTerm, EvalReturn,
           locVars, jobVars, Goto, Main
      <4>2. CASE OtherStep
        <5>1. pc = "ev_add" /\ ~Active("CHLD")
          BY <1>2, <4>2, OtherFrame DEF MaskInv, Critical
        <5>2. ~ChldUpdate
          BY <5>1 DEF ChldUpdate, Handler, Active
        <5> QED
          BY <4>2, <5>1, <5>2, OtherFrame
      <4> QED
        BY <4>1, <4>2, NextCases
    <3>2. ~ChldWaitpid
      BY <3>1 DEF MaskInv, Critical, ChldWaitpid, Handler, Active
    <3> QED
      BY <3>1, <3>2, ProcFrame DEF LocalInv
  <2> QED
    BY <2>1, <2>2
<1>3. /\ hpc'["CHLD"] \in {"block", "update"} => hpid'["CHLD"] \in Pids
      /\ \A s \in {"INT", "TSTP"} : hpc'[s] = "kill" => hpid'[s] \in Pids
  <2> USE DEF LocalInv, TypeOK
  <2>1. CASE UNCHANGED <<hpc, hpid>>
    BY <2>1
  <2>2. CASE ChldStep
    BY <2>2, SetsFacts DEF ChldStep, ChldWaitpid, ChldBlock, ChldUpdate, ChldUnblock,
                           ChldReturn, Return, Handler
  <2>3. ASSUME NEW s \in {"INT", "TSTP"}, ForwardStep(s)
        PROVE  /\ hpc'["CHLD"] \in {"block", "update"} => hpid'["CHLD"] \in Pids
               /\ \A t \in {"INT", "TSTP"} : hpc'[t] = "kill" => hpid'[t] \in Pids
    <3>1. fgpid(jobs) # 0 => fgpid(jobs) \in Pids
      BY FgpidFinds
    <3> QED
      BY <2>3, <3>1, SetsFacts
         DEF ForwardStep, ForwardLookup, ForwardKill, ForwardKillFails, Return, ctxVars
  <2>4. CASE \E s \in Handlers : Deliver(s)
    BY <2>4, SetsFacts DEF Deliver
  <2>5. CASE DeliverQuit \/ ChildStep \/ (\E s \in Keys : Key(s)) \/ UNCHANGED vars
    BY <2>1, <2>5 DEF DeliverQuit, ChildStep, Key, shellVars, vars, ctxVars
  <2> QED
    BY <2>1, <2>2, <2>3, <2>4, <2>5, MainFrame, NextCases DEF OtherStep
<1> QED
  BY <1>1, <1>2, <1>3 DEF LocalInv

LEMMA ChildrenStep ==
  ASSUME TypeOK, ContextInv, MaskInv, LocalInv, ListInv, JobsAreChildren, [Next]_vars
  PROVE  JobsAreChildren'
<1>1. CASE ChldWaitpid
  <2>1. PICK p \in Pids :
          /\ Reportable(p) /\ hpid' = [hpid EXCEPT !["CHLD"] = p]
          /\ hstatus' = IF proc[p] = "stopN" THEN "stopped" ELSE proc[p]
          /\ proc' = [proc EXCEPT ![p] = IF @ = "stopN" THEN "stopR" ELSE "none"]
    BY <1>1 DEF ChldWaitpid
  <2>2. hpc["CHLD"] = "entry" /\ hpc' = [hpc EXCEPT !["CHLD"] = "block"] /\ jobs' = jobs
    BY <1>1 DEF ChldWaitpid, Handler, jobVars
  <2>3. \A i \in Slots : jobs[i].pid # 0 => proc[jobs[i].pid] # "none" /\ jobs[i].pid \in Pids
    BY <2>2 DEF JobsAreChildren, BeingDeleted, TypeOK
  <2>4. hpc'["CHLD"] = "block" /\ hpid'["CHLD"] = p
    BY <2>1, <2>2, SetsFacts DEF TypeOK
  <2>5. proc[p] # "stopN" => hstatus' # "stopped"
    BY <2>1 DEF Reportable
  <2>6. \A q \in Pids : proc'[q] = IF q # p THEN proc[q]
                                   ELSE IF proc[p] = "stopN" THEN "stopR" ELSE "none"
    BY <2>1 DEF TypeOK
  <2> QED
    BY <2>2, <2>3, <2>4, <2>5, <2>6 DEF JobsAreChildren, BeingDeleted
<1>2. CASE ChldUpdate
  <2>1. proc' = proc /\ hstatus' = hstatus
    BY <1>2 DEF ChldUpdate, kernVars, chldVars
  <2>2. ASSUME NEW i \in Slots, jobs'[i].pid # 0 PROVE proc[jobs'[i].pid] # "none"
    <3>1. jobs[i] \in [pid : Pids \cup {0}, jid : 0 .. JidBound, state : JobStates]
      BY DEF TypeOK
    <3>2. CASE jobs[i].pid # hpid["CHLD"]
      BY <1>2, <2>2, <3>2, UpdateEffect DEF JobsAreChildren, BeingDeleted
    <3>3. CASE jobs[i].pid = hpid["CHLD"] /\ hstatus = "stopped"
      <4>1. jobs'[i] = [jobs[i] EXCEPT !.state = "ST"]
        BY <1>2, <3>3, UpdateEffect
      <4> QED
        BY <2>2, <3>1, <3>3, <4>1 DEF JobsAreChildren, BeingDeleted
    <3>4. CASE jobs[i].pid = hpid["CHLD"] /\ hstatus # "stopped"
      BY <1>2, <2>2, <3>4, UpdateEffect DEF clearjob
    <3> QED
      BY <3>2, <3>3, <3>4
  <2> QED
    BY <2>1, <2>2 DEF JobsAreChildren
<1>3. CASE ~ChldWaitpid /\ ~ChldUpdate
  <2>1. ASSUME NEW p, BeingDeleted(p) PROVE BeingDeleted(p)'
    <3> USE DEF BeingDeleted
    <3>1. CASE UNCHANGED <<hpc, hpid, hstatus>>
      BY <2>1, <3>1
    <3>2. CASE ChldStep
      BY <1>3, <2>1, <3>2, SetsFacts
         DEF ChldStep, ChldBlock, ChldUnblock, ChldReturn, Handler, TypeOK
    <3>3. CASE \E s \in {"INT", "TSTP"} : ForwardStep(s)
      BY <2>1, <3>3, SetsFacts
         DEF ForwardStep, ForwardLookup, ForwardKill, ForwardKillFails, Return,
             chldVars, ctxVars, TypeOK
    <3>4. ASSUME NEW s \in Handlers, Deliver(s) PROVE BeingDeleted(p)'
      <4>1. s # "CHLD"
        BY <2>1, <3>4, ActiveBlocked, SetsFacts DEF Deliver, Active
      <4>2. hpc' = [hpc EXCEPT ![s] = "entry"] /\ hpid' = hpid /\ hstatus' = hstatus
        BY <3>4 DEF Deliver, chldVars
      <4> QED
        BY <2>1, <4>1, <4>2, SetsFacts DEF TypeOK
    <3>5. CASE DeliverQuit \/ ChildStep \/ (\E s \in Keys : Key(s)) \/ UNCHANGED vars
      BY <3>1, <3>5 DEF DeliverQuit, ChildStep, Key, shellVars, vars, ctxVars, chldVars
    <3> QED
      BY <3>1, <3>2, <3>3, <3>4, <3>5, MainFrame, NextCases DEF OtherStep
  <2>2. ASSUME NEW i \in Slots
        PROVE  jobs'[i].pid = jobs[i].pid \/ (jobs'[i].pid = pid /\ EvalAddjob)
    <3>1. CASE EvalAddjob
      BY <3>1, AddEffect
    <3>2. CASE BgfgEdit
      <4>1. jobs[i] \in [pid : Pids \cup {0}, jid : 0 .. JidBound, state : JobStates]
        BY DEF TypeOK
      <4> QED
        BY <3>2, <4>1, EditEffect
    <3> QED
      BY <1>3, <3>1, <3>2, MainJobs, OtherFrame, NextCases
  <2>3. EvalAddjob => pid \in Pids /\ proc[pid] # "none"
    BY DEF EvalAddjob, Main, LocalInv
  <2>4. \A p \in Pids : proc[p] # "none" => proc'[p] # "none"
    BY <1>3, ProcFrame
  <2>5. ASSUME NEW i \in Slots, jobs'[i].pid # 0
        PROVE  proc'[jobs'[i].pid] # "none" \/ BeingDeleted(jobs[i].pid)'
    <3>1. CASE jobs'[i].pid = jobs[i].pid
      <4>1. PICK p : p = jobs[i].pid
        OBVIOUS
      <4>2. p \in Pids /\ (proc[p] # "none" \/ BeingDeleted(p))
        BY <2>5, <3>1, <4>1 DEF JobsAreChildren, TypeOK
      <4>3. proc'[p] # "none" \/ BeingDeleted(p)'
        BY <2>1, <2>4, <4>2
      <4> QED
        BY <3>1, <4>1, <4>3 DEF BeingDeleted
    <3>2. CASE jobs'[i].pid = pid /\ EvalAddjob
      BY <2>3, <2>4, <3>2
    <3> QED
      BY <2>2, <3>1, <3>2
  <2> QED
    BY <2>5 DEF JobsAreChildren
<1> QED
  BY <1>1, <1>2, <1>3

LEMMA BackgroundStep ==
  ASSUME TypeOK, ContextInv, LocalInv, ListInv, BackgroundUnharmed, [Next]_vars
  PROVE  BackgroundUnharmed'
<1> USE DEF BackgroundUnharmed
<1>1. CASE UNCHANGED <<jobs, hpc, hpid>>
  BY <1>1
<1>2. CASE ReadStep \/ MainStep
  <2>1. \A s \in {"INT", "TSTP"} : hpc'[s] = "idle"
    BY <1>2, MainFrame, SetsFacts DEF ContextInv, Active
  <2> QED
    BY <2>1
<1>3. CASE ChldUpdate
  <2>1. \A s \in {"INT", "TSTP"} : hpc'[s] = hpc[s] /\ hpid'[s] = hpid[s]
    BY <1>3, SetsFacts DEF ChldUpdate, TypeOK
  <2>2. ASSUME NEW i \in Slots
        PROVE  \/ jobs'[i] = jobs[i]
               \/ jobs'[i].state # "BG"
    <3>1. jobs[i] \in [pid : Pids \cup {0}, jid : 0 .. JidBound, state : JobStates]
      BY DEF TypeOK
    <3>2. jobs'[i] \in {jobs[i], [jobs[i] EXCEPT !.state = "ST"], clearjob}
      BY <1>3, UpdateEffect
    <3> QED
      BY <3>1, <3>2 DEF clearjob
  <2> QED
    BY <2>1, <2>2
<1>4. CASE ChldStep /\ ~ChldUpdate
  BY <1>4, SetsFacts
     DEF ChldStep, ChldWaitpid, ChldBlock, ChldUnblock, ChldReturn, Return, jobVars, TypeOK
<1>5. ASSUME NEW s \in {"INT", "TSTP"}, ForwardStep(s) PROVE BackgroundUnharmed'
  <2>1. CASE ForwardLookup(s) /\ fgpid(jobs) # 0
    <3>1. PICK i \in Slots : jobs[i].state = "FG" /\ fgpid(jobs) = jobs[i].pid
      BY <2>1, FgpidFinds
    <3>2. \A k \in Slots : jobs[k].pid = fgpid(jobs) => jobs[k].state = "FG"
      BY <2>1, <3>1 DEF ListInv
    <3>3. /\ hpid' = [hpid EXCEPT ![s] = fgpid(jobs)] /\ hpc' = [hpc EXCEPT ![s] = "kill"]
          /\ jobs' = jobs
      BY <2>1 DEF ForwardLookup, jobVars
    <3> QED
      BY <3>2, <3>3, SetsFacts DEF TypeOK
  <2>2. CASE Return(s) /\ jobs' = jobs
    BY <2>2, SetsFacts DEF Return, TypeOK
  <2>3. CASE ForwardKillFails(s)
    BY <1>1, <2>3 DEF ForwardKillFails, ctxVars, jobVars
  <2> QED
    BY <1>5, <2>1, <2>2, <2>3 DEF ForwardStep, ForwardLookup, ForwardKill, jobVars
<1>6. CASE \E s \in Handlers : Deliver(s)
  BY <1>6, SetsFacts DEF Deliver, jobVars, TypeOK
<1>7. CASE DeliverQuit \/ ChildStep \/ (\E s \in Keys : Key(s)) \/ UNCHANGED vars
  BY <1>1, <1>7 DEF DeliverQuit, ChildStep, Key, shellVars, vars, ctxVars, jobVars
<1> QED
  BY <1>2, <1>3, <1>4, <1>5, <1>6, <1>7, NextCases DEF OtherStep

LEMMA ForegroundStep ==
  ASSUME TypeOK, LocalInv, ListInv, FgInv, [Next]_vars PROVE FgInv'
<1> DEFINE NoFg == \A i \in Slots : jobs[i].state # "FG"
<1>1. CASE ReadStep
  <2>1. NoFg
    BY <1>1 DEF ReadStep, parseline, ReadExit, ReadOther, ReadRun, ReadBgfg, Main, FgInv
  <2> QED
    BY <1>1, <2>1 DEF ReadStep, parseline, ReadExit, ReadOther, ReadRun, ReadBgfg, jobVars, FgInv
<1>2. CASE MainStep
  <2> USE DEF Main, Goto, locVars, jobVars
  <2>1. CASE EvalBlock \/ BgfgBlock \/ WaitfgBlock
    BY <2>1 DEF EvalBlock, BgfgBlock, WaitfgBlock, BlockChld, FgInv
  <2>2. CASE EvalFork \/ EvalForkFails \/ BgfgKill \/ BgfgKillFails
    BY <2>2 DEF EvalFork, EvalForkFails, BgfgKill, BgfgKillFails, FgInv
  <2>3. CASE EvalAddjob
    <3>1. NoFg /\ pid \in Pids /\ pid # 0
      BY <2>3, PidsAssumption DEF EvalAddjob, FgInv, LocalInv
    <3>2. pc' = "ev_unblock" /\ pid' = pid /\ bg' = bg /\ job' = job
      BY <2>3 DEF EvalAddjob
    <3> QED
      BY <2>3, <3>1, <3>2, AddEffect DEF FgInv
  <2>4. CASE EvalUnblock \/ BgfgUnblock \/ WaitfgUnblock
    BY <2>4 DEF EvalUnblock, BgfgUnblock, WaitfgUnblock, Unblock, FgInv
  <2>5. CASE BgfgEdit
    <3>1. NoFg /\ pc' = "bf_unblock" /\ bg' = bg /\ job' = job
      BY <2>5 DEF BgfgEdit, FgInv
    <3>2. jobs[job] \in [pid : Pids \cup {0}, jid : 0 .. JidBound, state : JobStates]
      BY <2>5, EditEffect DEF TypeOK
    <3>3. bg => jobs'[job].state # "FG"
      BY <2>5, <3>2, EditEffect
    <3> QED
      BY <2>5, <3>1, <3>3, EditEffect DEF FgInv
  <2>6. CASE BgfgWait
    BY <2>6 DEF BgfgWait, FgInv
  <2>7. CASE WaitfgCheck
    <3>1. CASE pid = fgpid(jobs)
      BY <2>7, <3>1 DEF WaitfgCheck, FgInv
    <3>2. CASE pid # fgpid(jobs)
      <4>1. NoFg
        BY <2>7, <3>2, FgpidFinds DEF WaitfgCheck, FgInv
      <4> QED
        BY <2>7, <4>1 DEF WaitfgCheck, FgInv
    <3> QED
      BY <3>1, <3>2
  <2>8. CASE MsgStop \/ ClearStop \/ MsgTerm \/ EvalReturn
    BY <2>8 DEF MsgStop, ClearStop, MsgTerm, EvalReturn, FgInv
  <2> QED
    BY <1>2, <2>1, <2>2, <2>3, <2>4, <2>5, <2>6, <2>7, <2>8 DEF MainStep
<1>3. CASE OtherStep
  <2>1. ASSUME NEW i \in Slots, jobs'[i].state = "FG" PROVE jobs'[i] = jobs[i]
    <3>1. CASE ChldUpdate
      <4>1. jobs[i] \in [pid : Pids \cup {0}, jid : 0 .. JidBound, state : JobStates]
        BY DEF TypeOK
      <4>2. jobs'[i] \in {jobs[i], [jobs[i] EXCEPT !.state = "ST"], clearjob}
        BY <3>1, UpdateEffect
      <4> QED
        BY <2>1, <4>1, <4>2 DEF clearjob
    <3> QED
      BY <1>3, <3>1, OtherFrame
  <2> QED
    BY <1>3, <2>1, OtherFrame DEF FgInv
<1> QED
  BY <1>1, <1>2, <1>3, NextCases

LEMMA SigchldStep ==
  ASSUME TypeOK, NoLostSigchld, [Next]_vars PROVE NoLostSigchld'
<1> DEFINE Announced == "CHLD" \in pending \/ hpc["CHLD"] # "idle"
<1> USE DEF NoLostSigchld, Alive
<1>1. CASE UNCHANGED <<proc, pending, hpc, shell>>
  BY <1>1 DEF Reportable
<1>2. CASE shell' # "alive"
  BY <1>2
<1>3. ASSUME NEW p, NEW st, ChildChanges(p, st) PROVE NoLostSigchld'
  BY <1>3 DEF ChildChanges
<1>4. CASE ReadStep
  BY <1>1, <1>2, <1>4
     DEF ReadStep, parseline, ReadExit, ReadOther, ReadRun, ReadBgfg, Goto, kernVars, ctxVars
<1>5. CASE MainStep
  <2> USE DEF Goto, kernVars, ctxVars
  <2>1. CASE EvalFork
    <3>1. \A p \in Pids : Reportable(p)' => Reportable(p)
      BY <2>1 DEF EvalFork, Reportable, TypeOK
    <3>2. UNCHANGED <<pending, hpc, shell>>
      BY <2>1 DEF EvalFork
    <3> QED
      BY <3>1, <3>2
  <2>2. CASE BgfgKill
    BY <1>1, <1>3, <2>2 DEF BgfgKill, Continue
  <2>3. CASE EvalForkFails \/ BgfgKillFails
    BY <1>2, <2>3 DEF EvalForkFails, BgfgKillFails
  <2>4. CASE ~EvalFork /\ ~BgfgKill /\ ~EvalForkFails /\ ~BgfgKillFails
    BY <1>1, <1>5, <2>4
       DEF MainStep, EvalBlock, BgfgBlock, WaitfgBlock, BlockChld,
           EvalUnblock, BgfgUnblock, WaitfgUnblock, Unblock,
           EvalAddjob, BgfgEdit, BgfgWait,
           WaitfgCheck, MsgStop, ClearStop, MsgTerm, EvalReturn
  <2> QED
    BY <2>1, <2>2, <2>3, <2>4
<1>6. CASE ChldStep
  <2>1. CASE ChldReturn
    <3>1. \A p \in Pids : ~Reportable(p)'
      BY <2>1 DEF ChldReturn, ChldDone, Reportable, kernVars
    <3> QED
      BY <3>1
  <2>2. CASE ChldWaitpid \/ ChldBlock \/ ChldUpdate \/ ChldUnblock
    <3>1. hpc'["CHLD"] # "idle"
      BY <2>2, SetsFacts DEF ChldWaitpid, ChldBlock, ChldUpdate, ChldUnblock, TypeOK
    <3> QED
      BY <3>1
  <2> QED
    BY <1>6, <2>1, <2>2 DEF ChldStep
<1>7. ASSUME NEW s \in {"INT", "TSTP"}, ForwardStep(s) PROVE NoLostSigchld'
  <2>1. CASE ForwardKillFails(s)
    BY <1>2, <2>1 DEF ForwardKillFails
  <2>2. CASE ~ForwardKillFails(s)
    <3>1. hpc'["CHLD"] = hpc["CHLD"] /\ shell' = shell
      BY <1>7, <2>2, SetsFacts
         DEF ForwardStep, ForwardLookup, ForwardKill, Return, TypeOK
    <3>2. UNCHANGED kernVars \/ "CHLD" \in pending'
      BY <1>7, <2>2 DEF ForwardStep, ForwardLookup, ForwardKill, Forwarded, ChildChanges
    <3> QED
      BY <3>1, <3>2 DEF kernVars, Reportable
  <2> QED
    BY <2>1, <2>2
<1>8. ASSUME NEW s \in Handlers, Deliver(s) PROVE NoLostSigchld'
  <2>1. hpc' = [hpc EXCEPT ![s] = "entry"] /\ pending' = pending \ {s}
        /\ UNCHANGED <<proc, shell>>
    BY <1>8 DEF Deliver
  <2>2. CASE s = "CHLD"
    BY <2>1, <2>2, SetsFacts DEF TypeOK
  <2>3. CASE s # "CHLD"
    BY <2>1, <2>3, SetsFacts DEF TypeOK, Reportable
  <2> QED
    BY <2>2, <2>3
<1>9. CASE DeliverQuit \/ UNCHANGED vars
  BY <1>1, <1>2, <1>9 DEF DeliverQuit, vars, kernVars, ctxVars
<1>10. CASE \E s \in Keys : Key(s)
  BY <1>10 DEF Key, shellVars, ctxVars, Reportable
<1>11. CASE ChildStep
  <2>1. UNCHANGED <<hpc, shell>>
    BY <1>11 DEF ChildStep, shellVars, ctxVars
  <2>2. \/ "CHLD" \in pending'
        \/ pending' = pending /\ \A p \in Pids : Reportable(p)' => Reportable(p)
    BY <1>11 DEF ChildStep, ChildSetpgid, ChildExecve, ChildExits, ChildKilled,
                 ChildStops, ChildContinues, ChildChanges, Reportable, TypeOK
  <2> QED
    BY <2>1, <2>2
<1> QED
  BY <1>4, <1>5, <1>6, <1>7, <1>8, <1>9, <1>10, <1>11, NextCases DEF OtherStep

-----------------------------------------------------------------------------
(* The invariant, and what follows from it.                                *)

LEMMA InitIInv == Init => IInv
<1> SUFFICES ASSUME Init PROVE IInv
  OBVIOUS
<1>1. TypeOK
  <2>1. clearjob \in [pid : Pids \cup {0}, jid : 0 .. JidBound, state : JobStates]
    BY JidBoundAssumption DEF clearjob, JobStates
  <2>2. /\ jobs \in [Slots -> [pid : Pids \cup {0}, jid : 0 .. JidBound, state : JobStates]]
        /\ nextjid \in 1 .. JidBound + 1
    BY <2>1, JidBoundAssumption DEF Init, initjobs
  <2>3. proc \in [Pids -> ProcStates] /\ pc \in MainPcs /\ shell \in ShellStates
    BY DEF Init, ProcStates, MainPcs, ShellStates
  <2>4. /\ cur \in Contexts /\ ret \in [Handlers -> Contexts]
        /\ mask \in [Contexts -> SUBSET Signals]
        /\ hpc \in [Handlers -> HandlerPcs] /\ hpid \in [Handlers -> Pids \cup {0}]
    BY DEF Init, Contexts, HandlerPcs
  <2> QED
    BY <2>2, <2>3, <2>4 DEF Init, TypeOK
<1>2. ContextInv /\ MaskInv /\ PrevInv /\ JidInv
  BY SetsFacts DEF Init, ContextInv, MaskInv, PrevInv, JidInv, Active, Critical
<1>3. \A i \in Slots : jobs[i] = clearjob
  BY DEF Init, initjobs
<1>4. ListInv /\ JobsAreChildren /\ FgInv
  BY <1>3 DEF ListInv, JobsAreChildren, FgInv, clearjob
<1>5. LocalInv /\ BackgroundUnharmed /\ NoLostSigchld
  BY SetsFacts DEF Init, LocalInv, BackgroundUnharmed, NoLostSigchld, Reportable
<1> QED
  BY <1>1, <1>2, <1>4, <1>5 DEF IInv

LEMMA StepIInv == IInv /\ [Next]_vars => IInv'
BY TypeStep, ContextStep, MaskStep, PrevStep, JidStep, LocalStep, ListStep, ChildrenStep,
   ForegroundStep, BackgroundStep, SigchldStep DEF IInv

\* IInv is an invariant of the shell.
THEOREM Invariance == Spec => []IInv
BY InitIInv, StepIInv, PTL DEF Spec

\* Type correctness: in particular the job IDs stay in range, waitpid's status
\* is one of the three that sigchld_handler tells apart, and do_bgfg's slot
\* is a slot of the list.
THEOREM TypeCorrect == Spec => []TypeOK
BY Invariance, PTL DEF IInv

\* No report of waitpid is ever missed, however SIGCHLDs coalesce.
THEOREM SigchldNotLost == Spec => []NoLostSigchld
BY Invariance, PTL DEF IInv

\* The job list never holds a process that is gone.
THEOREM ListedAreChildren == Spec => []JobsAreChildren
BY Invariance, PTL DEF IInv

\* Two contexts never edit the job list at once.
THEOREM EditsExclude == Spec => []ListEditExclusive
<1>1. IInv => ListEditExclusive
  BY DEF IInv, MaskInv, ListEditExclusive, Critical, Active
<1> QED
  BY <1>1, Invariance, PTL

\* A foreground job is being waited for.
THEOREM FgIsAwaited == Spec => []ForegroundAwaited
<1>1. IInv => ForegroundAwaited
  BY DEF IInv, FgInv, ForegroundAwaited
<1> QED
  BY <1>1, Invariance, PTL

\* At most one job is in the foreground.
THEOREM SingleForeground == Spec => []OneForeground
<1>1. IInv => OneForeground
  <2> SUFFICES ASSUME IInv, NEW i \in Slots, NEW k \in Slots,
                      jobs[i].state = "FG", jobs[k].state = "FG"
               PROVE  i = k
    BY DEF OneForeground
  <2>1. CASE pc \in {"bf_unblock", "bf_wait"}
    BY <2>1 DEF IInv, FgInv
  <2>2. CASE pc \notin {"bf_unblock", "bf_wait"}
    <3>1. pid = jobs[i].pid /\ pid = jobs[k].pid /\ (pid = 0 => i = job /\ k = job)
      BY <2>2 DEF IInv, FgInv
    <3> QED
      BY <3>1 DEF IInv, ListInv
  <2> QED
    BY <2>1, <2>2
<1> QED
  BY <1>1, Invariance, PTL

\* ctrl-c and ctrl-z never reach a background job.
THEOREM BackgroundSafe == Spec => []BackgroundUnharmed
BY Invariance, PTL DEF IInv

\* At the prompt no signal is blocked.
THEOREM PromptIsUnmasked == Spec => []PromptUnmasked
<1>1. IInv => PromptUnmasked
  BY DEF IInv, PrevInv, PromptUnmasked, Critical
<1> QED
  BY <1>1, Invariance, PTL

\* A listed job changes its state only along the allowed transitions.
THEOREM TransitionsAllowed == Spec => JobTransitions
<1> DEFINE Allowed == DocumentedPairs \cup {<<"BG", "ST">>}
<1>1. IInv /\ [Next]_vars => [Transitions(Allowed)]_vars
  <2> SUFFICES ASSUME IInv, [Next]_vars, NEW i \in Slots,
                      jobs[i].pid # 0, jobs'[i].pid = jobs[i].pid,
                      jobs'[i].state # jobs[i].state
               PROVE  <<jobs[i].state, jobs'[i].state>> \in Allowed
    BY DEF Transitions
  <2> USE DEF IInv
  <2>1. jobs[i] \in [pid : Pids \cup {0}, jid : 0 .. JidBound, state : JobStates]
    BY DEF TypeOK
  <2>2. jobs[i].state \in {"FG", "BG", "ST"}
    BY <2>1 DEF ListInv, JobStates
  <2>3. CASE EvalAddjob
    BY <2>3, AddEffect, PidsAssumption DEF LocalInv, EvalAddjob, Main
  <2>4. CASE BgfgEdit
    <3>1. i = job /\ jobs'[i] = [jobs[i] EXCEPT !.state = IF bg THEN "BG" ELSE "FG"]
      BY <2>4, EditEffect
    <3>2. jobs'[i].state = IF bg THEN "BG" ELSE "FG"
      BY <2>1, <3>1
    <3>3. jobs[i].state # "FG"
      BY <2>4 DEF BgfgEdit, Main, FgInv
    <3> QED
      BY <2>2, <3>2, <3>3 DEF DocumentedPairs
  <2>5. CASE ChldUpdate
    <3>1. jobs'[i] \in {jobs[i], [jobs[i] EXCEPT !.state = "ST"], clearjob}
      BY <2>5, UpdateEffect
    <3>2. jobs'[i].state = "ST"
      BY <2>1, <3>1 DEF clearjob
    <3> QED
      BY <2>2, <3>2 DEF DocumentedPairs
  <2> QED
    BY <2>3, <2>4, <2>5, MainJobs, OtherFrame, NextCases
<1> QED
  BY <1>1, Invariance, PTL DEF Spec, JobTransitions

-----------------------------------------------------------------------------
(* No child escapes the list.                                              *)

\* With a slot for every process there is an empty one for a process that is
\* not listed.
LEMMA SlotForChild ==
  ASSUME IsFiniteSet(Pids), Cardinality(Pids) <= MAXJOBS,
         TypeOK, ListInv, NEW p \in Pids, \A i \in Slots : jobs[i].pid # p
  PROVE  \E i \in Slots : jobs[i].pid = 0
<1> SUFFICES ASSUME \A i \in Slots : jobs[i].pid # 0 PROVE FALSE
  OBVIOUS
<1> DEFINE f == [i \in Slots |-> jobs[i].pid]
<1>1. f \in [Slots -> Pids \ {p}]
  BY DEF TypeOK
<1>2. /\ IsFiniteSet(Pids \ {p})
      /\ Cardinality(Pids \ {p}) = Cardinality(Pids) - 1
      /\ Cardinality(Pids) \in Nat
  BY FS_RemoveElement, FS_CardinalityType
<1>3. IsFiniteSet(Slots) /\ Cardinality(Slots) = MAXJOBS
  <2>1. 0 \in Int /\ MAXJOBS - 1 \in Int /\ ~(0 > MAXJOBS - 1) /\ (MAXJOBS - 1) - 0 + 1 = MAXJOBS
    BY MaxJobsAssumption
  <2> QED
    BY <2>1, FS_Interval DEF Slots
<1>4. Cardinality(Pids \ {p}) < Cardinality(Slots)
  BY <1>2, <1>3, MaxJobsAssumption
<1> HIDE DEF f
<1>5. PICK i \in Slots, k \in Slots : i # k /\ f[i] = f[k]
  BY <1>1, <1>2, <1>3, <1>4, FS_PigeonHole
<1> QED
  BY <1>5 DEF ListInv, f

\* Only eval's fork makes a child.
LEMMA ForkFrame ==
  ASSUME TypeOK, [Next]_vars, NEW p \in Pids, proc[p] = "none"
  PROVE  \/ proc'[p] = "none"
         \/ EvalFork /\ pid' = p /\ pc' = "ev_add"
<1> USE DEF TypeOK, kernVars
<1>1. CASE ReadStep
  BY <1>1 DEF ReadStep, parseline, ReadExit, ReadOther, ReadRun, ReadBgfg
<1>2. CASE MainStep
  <2>1. CASE EvalFork
    BY <2>1 DEF EvalFork, Goto
  <2>2. CASE BgfgKill
    BY <2>2 DEF BgfgKill, Continue, ChildChanges
  <2>3. CASE ~EvalFork /\ ~BgfgKill
    BY <1>2, <2>3 DEF MainStep, EvalBlock, BgfgBlock, WaitfgBlock, BlockChld,
       EvalUnblock, BgfgUnblock, WaitfgUnblock, Unblock,
       EvalForkFails, EvalAddjob, BgfgKillFails, BgfgEdit, BgfgWait,
       WaitfgCheck, MsgStop, ClearStop, MsgTerm, EvalReturn
  <2> QED
    BY <2>1, <2>2, <2>3
<1>3. CASE ChldStep
  BY <1>3 DEF ChldStep, ChldWaitpid, ChldBlock, ChldUpdate, ChldUnblock, ChldReturn,
              Reportable
<1>4. CASE \E s \in {"INT", "TSTP"} : ForwardStep(s)
  BY <1>4 DEF ForwardStep, ForwardLookup, ForwardKill, ForwardKillFails, Forwarded,
              ChildChanges
<1>5. CASE \/ \E s \in Handlers : Deliver(s)
           \/ DeliverQuit \/ (\E s \in Keys : Key(s)) \/ UNCHANGED vars
  BY <1>5 DEF Deliver, DeliverQuit, Key, vars
<1>6. CASE ChildStep
  BY <1>6 DEF ChildStep, ChildSetpgid, ChildExecve, ChildExits, ChildKilled, ChildStops,
              ChildContinues, ChildChanges
<1> QED
  BY <1>1, <1>2, <1>3, <1>4, <1>5, <1>6, NextCases DEF OtherStep

\* sigchld_handler starts to delete a child with waitpid and with nothing else.
LEMMA DeletedFrame ==
  ASSUME TypeOK, [Next]_vars, ~ChldWaitpid, NEW p, BeingDeleted(p)'
  PROVE  BeingDeleted(p)
<1> USE DEF BeingDeleted
<1>1. CASE UNCHANGED <<hpc, hpid, hstatus>>
  BY <1>1
<1>2. CASE ChldStep
  BY <1>2, SetsFacts
     DEF ChldStep, ChldBlock, ChldUpdate, ChldUnblock, ChldReturn, Return, Handler,
         chldVars, TypeOK
<1>3. CASE \E s \in {"INT", "TSTP"} : ForwardStep(s)
  BY <1>3, SetsFacts
     DEF ForwardStep, ForwardLookup, ForwardKill, ForwardKillFails, Return,
         chldVars, ctxVars, TypeOK
<1>4. CASE \E s \in Handlers : Deliver(s)
  BY <1>4, SetsFacts DEF Deliver, chldVars, TypeOK
<1>5. CASE DeliverQuit \/ ChildStep \/ (\E s \in Keys : Key(s)) \/ UNCHANGED vars
  BY <1>1, <1>5 DEF DeliverQuit, ChildStep, Key, shellVars, vars, ctxVars, chldVars
<1> QED
  BY <1>1, <1>2, <1>3, <1>4, <1>5, MainFrame, NextCases DEF OtherStep

\* A listed process stays listed unless it is being deleted.
LEMMA ListedStays ==
  ASSUME TypeOK, LocalInv, ListInv, [Next]_vars,
         NEW p \in Pids, NEW i \in Slots, jobs[i].pid = p, ~BeingDeleted(p)
  PROVE  jobs'[i].pid = p
<1>0. /\ jobs[i] \in [pid : Pids \cup {0}, jid : 0 .. JidBound, state : JobStates]
      /\ p # 0
  BY PidsAssumption DEF TypeOK
<1>1. CASE EvalAddjob
  BY <1>0, <1>1, AddEffect
<1>2. CASE BgfgEdit
  BY <1>0, <1>2, EditEffect
<1>3. CASE ChldUpdate
  <2>1. hpid["CHLD"] = p => hstatus = "stopped"
    BY <1>3 DEF ChldUpdate, Handler, BeingDeleted
  <2>2. jobs'[i] = jobs[i] \/ jobs'[i] = [jobs[i] EXCEPT !.state = "ST"]
    BY <1>3, <2>1, UpdateEffect
  <2> QED
    BY <1>0, <2>2
<1> QED
  BY <1>1, <1>2, <1>3, MainJobs, OtherFrame, NextCases

LEMMA ListedStep ==
  ASSUME IsFiniteSet(Pids), Cardinality(Pids) <= MAXJOBS,
         IInv, ListedInv, [Next]_vars
  PROVE  ListedInv'
<1> USE DEF IInv
<1>1. ASSUME NEW p \in Pids, proc'[p] # "none"
      PROVE  \/ \E i \in Slots : jobs'[i].pid = p
             \/ pc' = "ev_add" /\ pid' = p
  <2>1. CASE proc[p] = "none"
    BY <1>1, <2>1, ForkFrame
  <2>2. CASE proc[p] # "none" /\ \E i \in Slots : jobs[i].pid = p
    <3>1. ~BeingDeleted(p)
      BY <2>2 DEF ListedInv
    <3> QED
      BY <2>2, <3>1, ListedStays
  <2>3. CASE pc = "ev_add" /\ pid = p
    <3>1. \A i \in Slots : jobs[i].pid # p
      BY <2>3 DEF LocalInv
    <3>2. CASE EvalAddjob
      BY <2>3, <3>1, <3>2, SlotForChild, AddEffect
    <3>3. CASE ~EvalAddjob /\ (ReadStep \/ MainStep)
      <4>1. UNCHANGED <<pc, pid>>
        BY <2>3, <3>3
           DEF ReadStep, parseline, ReadExit, ReadOther, ReadRun, ReadBgfg, MainStep,
           EvalBlock, BgfgBlock, WaitfgBlock, BlockChld,
           EvalUnblock, BgfgUnblock, WaitfgUnblock, Unblock,
           EvalFork, EvalForkFails, BgfgKill, BgfgKillFails, BgfgEdit, BgfgWait,
           WaitfgCheck, MsgStop, ClearStop, MsgTerm, EvalReturn, Main
      <4> QED
        BY <2>3, <4>1
    <3>4. CASE OtherStep
      BY <2>3, <3>4, OtherFrame
    <3> QED
      BY <3>2, <3>3, <3>4, NextCases
  <2> QED
    BY <2>1, <2>2, <2>3 DEF ListedInv
<1>2. ASSUME NEW p \in Pids, BeingDeleted(p)' PROVE proc'[p] = "none"
  <2>1. CASE ChldWaitpid
    <3>1. PICK q \in Pids :
            /\ Reportable(q) /\ hpid' = [hpid EXCEPT !["CHLD"] = q]
            /\ hstatus' = IF proc[q] = "stopN" THEN "stopped" ELSE proc[q]
            /\ proc' = [proc EXCEPT ![q] = IF @ = "stopN" THEN "stopR" ELSE "none"]
      BY <2>1 DEF ChldWaitpid
    <3>2. q = p /\ hstatus' # "stopped"
      BY <1>2, <3>1, SetsFacts DEF BeingDeleted, TypeOK
    <3> QED
      BY <3>1, <3>2 DEF TypeOK
  <2>2. CASE ~ChldWaitpid
    <3>1. BeingDeleted(p) /\ proc[p] = "none"
      BY <1>2, <2>2, DeletedFrame DEF ListedInv
    <3>2. ~EvalFork
      BY <3>1 DEF EvalFork, Main, MaskInv, Critical, Active, BeingDeleted
    <3> QED
      BY <3>1, <3>2, ForkFrame
  <2> QED
    BY <2>1, <2>2
<1> QED
  BY <1>1, <1>2 DEF ListedInv

\* With a slot for every process no child escapes the list, however eval's
\* fork, addjob and the handlers interleave: it is listed exactly once, or
\* eval has just forked it with SIGCHLD blocked.
THEOREM AllChildrenListed ==
  ASSUME IsFiniteSet(Pids), Cardinality(Pids) <= MAXJOBS
  PROVE  Spec => []ChildrenListed
<1>1. Init => ListedInv
  BY SetsFacts DEF Init, ListedInv, BeingDeleted
<1>2. IInv /\ ListedInv /\ [Next]_vars => ListedInv'
  BY ListedStep
<1>3. IInv /\ ListedInv => ChildrenListed
  BY PidsAssumption DEF IInv, ListInv, ListedInv, ChildrenListed
<1> QED
  BY <1>1, <1>2, <1>3, Invariance, PTL DEF Spec
=============================================================================
