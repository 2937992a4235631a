------------------------------ MODULE JobList ------------------------------
(***************************************************************************)
(* The job list of the tiny shell (shlab-handout/tsh.c): a fixed array of  *)
(* MAXJOBS slots, searched from slot 0 upwards, and the counter nextjid    *)
(* from which job IDs are handed out.  The helper routines are functions   *)
(* of the array; the ones that write it return the new array, addjob and   *)
(* deletejob together with the new counter.  Command lines are left out.   *)
(***************************************************************************)
EXTENDS Integers, FiniteSetsExt

CONSTANTS
  Pids,     \* the process IDs the kernel may hand out
  MAXJOBS   \* the number of slots of the job list

ASSUME PidsAssumption == 0 \notin Pids
ASSUME MaxJobsAssumption == MAXJOBS \in Nat \ {0}

Slots     == 0 .. MAXJOBS - 1
JobStates == {"UNDEF", "FG", "BG", "ST"}
NoJob     == -1                              \* a NULL struct job_t pointer

clearjob == [pid |-> 0, jid |-> 0, state |-> "UNDEF"]

initjobs == [i \in Slots |-> clearjob]

maxjid(jobs) == Max({jobs[i].jid : i \in Slots})

\* The for loops of the helper routines stop at the lowest matching slot.
FirstSlot(S) == IF S = {} THEN NoJob ELSE Min(S)

\* fgpid scanning for a job of any state: the FG test is gone.
fgpid_AnyState(jobs) ==
  LET i == FirstSlot({k \in Slots : jobs[k].state # "UNDEF"})
  IN  IF i = NoJob THEN 0 ELSE jobs[i].pid

fgpid(jobs) ==
  LET i == FirstSlot({k \in Slots : jobs[k].state = "FG"})
  IN  IF i = NoJob THEN 0 ELSE jobs[i].pid

getjobpid(jobs, pid) ==
  IF pid = 0 THEN NoJob ELSE FirstSlot({k \in Slots : jobs[k].pid = pid})

getjobjid(jobs, jid) ==
  IF jid < 1 THEN NoJob ELSE FirstSlot({k \in Slots : jobs[k].jid = jid})

\* addjob without the test for an empty slot: the first slot is overwritten.
addjob_Overwrites(jobs, nextjid, pid, state) ==
  [jobs    |-> [jobs EXCEPT ![0] = [pid |-> pid, jid |-> nextjid, state |-> state]],
   nextjid |-> IF nextjid + 1 > MAXJOBS THEN 1 ELSE nextjid + 1]

\* addjob writes the first slot whose pid is 0 and advances nextjid, which
\* wraps at MAXJOBS; a full list ("Tried to create too many jobs") changes
\* nothing.
addjob(jobs, nextjid, pid, state) ==
  LET i == FirstSlot({k \in Slots : jobs[k].pid = 0})
  IN  IF pid = 0 \/ i = NoJob
      THEN [jobs |-> jobs, nextjid |-> nextjid]
      ELSE [jobs    |-> [jobs EXCEPT ![i] =
                           [pid |-> pid, jid |-> nextjid, state |-> state]],
            nextjid |-> IF nextjid + 1 > MAXJOBS THEN 1 ELSE nextjid + 1]

\* deletejob that forgets clearjob and only recomputes nextjid.
deletejob_NoClear(jobs, nextjid, pid) ==
  [jobs |-> jobs, nextjid |-> maxjid(jobs) + 1]

deletejob(jobs, nextjid, pid) ==
  LET i == getjobpid(jobs, pid)
      cleared == [jobs EXCEPT ![i] = clearjob]
  IN  IF i = NoJob
      THEN [jobs |-> jobs, nextjid |-> nextjid]
      ELSE [jobs |-> cleared, nextjid |-> maxjid(cleared) + 1]
=============================================================================
