-------------------------------- MODULE Tsh --------------------------------
(***************************************************************************)
(* The tiny shell, shlab-handout/tsh.c: the read/eval loop, the foreground *)
(* wait, the bg and fg commands, and the handlers of SIGCHLD, SIGINT,      *)
(* SIGTSTP and SIGQUIT, which interrupt the main program and each other    *)
(* wherever the signal mask in force lets them.                            *)
(*                                                                         *)
(* A context is the main program or one handler.  Only the context cur     *)
(* runs; ret[h] is the context that handler h interrupted and mask[c] is   *)
(* the signal mask in force while c runs.  A handler is entered with the   *)
(* mask of the interrupted context plus its own signal (sa_mask is empty,  *)
(* tsh.c:694) and its return reinstates the interrupted context's mask.    *)
(*                                                                         *)
(* proc is the kernel's record of each child of the shell:                 *)
(*   none   no such process, or already reaped                             *)
(*   born   forked, still in the process group of the shell                *)
(*   group  leader of its own group, tsh's handlers still installed        *)
(*   run    running the program                                            *)
(*   stopN  stopped, not yet reported by waitpid                           *)
(*   stopR  stopped, reported                                              *)
(*   exited, killed   zombie: exited normally / terminated by a signal     *)
(***************************************************************************)
EXTENDS JobList

CONSTANTS
  Keys,      \* signals sent to the shell from outside, among INT, TSTP, QUIT
  JidBound   \* bound: no new job is started when its job ID could exceed it

Handlers == {"CHLD", "INT", "TSTP"}
Signals  == Handlers \cup {"QUIT"}
Contexts == Handlers \cup {"main"}

ASSUME KeysAssumption == Keys \subseteq Signals \ {"CHLD"}
ASSUME JidBoundAssumption == JidBound \in Nat /\ JidBound >= MAXJOBS

VARIABLES
  jobs, nextjid,                \* the job list
  proc, pending,                \* kernel: children, signals pending for tsh
  pc, pid, bg, job, prev,       \* the main program and its locals
  cur, ret, mask,               \* contexts
  hpc, hpid, hstatus, hprev,    \* the handlers and their locals
  stop_msg, term_msg, msg_pid,  \* messages from sigchld_handler to eval
  shell                         \* is the shell process alive? see ShellStates

jobVars  == <<jobs, nextjid>>
kernVars == <<proc, pending>>
locVars  == <<pid, bg, job, prev>>
ctxVars  == <<cur, ret, hpc, hpid>>
chldVars == <<hstatus, hprev>>
msgVars  == <<stop_msg, term_msg, msg_pid>>
vars     == <<jobVars, kernVars, pc, locVars, ctxVars, mask, chldVars,
              msgVars, shell>>

ProcStates == {"none", "born", "group", "run", "stopN", "stopR",
               "exited", "killed"}

\* The control points of main, eval, do_bgfg and waitfg.
MainPcs == {"prompt", "ev_block", "ev_fork", "ev_add", "ev_unblock",
            "bf_block", "bf_kill", "bf_edit", "bf_unblock", "bf_wait",
            "wf_block", "wf_check", "wf_suspend", "wf_unblock",
            "msg_stop", "clr_stop", "msg_term", "clr_term"}

\* exited: quit, end of file or SIGQUIT; forkerr, killerr: unix_error's exit.
ShellStates == {"alive", "exited", "forkerr", "killerr"}

HandlerPcs == {"idle", "entry", "kill", "block", "update", "unblock"}

Init ==
  /\ jobs = initjobs /\ nextjid = 1
  /\ proc = [p \in Pids |-> "none"] /\ pending = {}
  /\ pc = "prompt" /\ pid = 0 /\ bg = FALSE /\ job = NoJob /\ prev = {}
  /\ cur = "main"
  /\ ret = [h \in Handlers |-> "main"]
  /\ mask = [c \in Contexts |-> {}]
  /\ hpc = [h \in Handlers |-> "idle"]
  /\ hpid = [h \in Handlers |-> 0]
  /\ hstatus = "exited" /\ hprev = {}
  /\ stop_msg = FALSE /\ term_msg = FALSE /\ msg_pid = 0
  /\ shell = "alive"

-----------------------------------------------------------------------------
(* Signal sets built by the code.                                          *)

\* eval that fills an empty set and never adds SIGCHLD to it.
mask_chld_Empty == {}

mask_chld == {"CHLD"}

\* waitfg that does not take SIGCHLD out of the filled set.
suspend_mask_KeepsChld == Signals \ {"INT", "TSTP"}

suspend_mask == Signals \ {"CHLD", "INT", "TSTP"}

\* sigchld_handler that does not fill mask_all.
mask_all_Empty == {}

mask_all == Signals

\* The mask in force: sigsuspend replaces main's mask while it sleeps.
Blocked == IF cur = "main" /\ pc = "wf_suspend" THEN suspend_mask
                                                ELSE mask[cur]

-----------------------------------------------------------------------------
(* The kernel's side of the children.                                      *)

\* kill(-p, ...) finds a process group p once child p has called setpgid,
\* and as long as p has not been reaped.
HasGroup(p) == proc[p] \notin {"none", "born"}

\* waitpid(-1, &status, WNOHANG|WUNTRACED) has something to report about p.
Reportable(p) == proc[p] \in {"exited", "killed", "stopN"}

\* A child changes state and the kernel sends SIGCHLD to the shell (there is
\* no SA_NOCLDSTOP, so stopping and continuing do so too).
ChildChanges(p, st) ==
  /\ proc' = [proc EXCEPT ![p] = st]
  /\ pending' = pending \cup {"CHLD"}

\* SIGCONT sent to group p.
Continue(p) ==
  IF proc[p] \in {"stopN", "stopR"} THEN ChildChanges(p, "run")
                                    ELSE UNCHANGED kernVars

\* SIGINT or SIGTSTP sent to group p.  A running program takes the default
\* action or handles the signal; a stopped one, a zombie, and a child before
\* execve (whose copy of the shell's handlers finds no foreground job) do
\* nothing.
Forwarded(p, s) ==
  \/ /\ proc[p] = "run"
     /\ ChildChanges(p, IF s = "INT" THEN "killed" ELSE "stopN")
  \/ UNCHANGED kernVars

-----------------------------------------------------------------------------
(* The main program.                                                       *)

Main(from) == shell = "alive" /\ cur = "main" /\ pc = from

Goto(to) == pc' = to /\ UNCHANGED <<shell, ctxVars, chldVars>>

SetMask(m) == mask' = [mask EXCEPT !["main"] = m]

\* "quit" or end of file: exit(0).
ReadExit ==
  /\ Main("prompt")
  /\ shell' = "exited"
  /\ UNCHANGED <<jobVars, kernVars, pc, locVars, ctxVars, mask, chldVars, msgVars>>

\* "jobs", "&", and bg or fg with a missing, ill-formed or unknown operand: the
\* job list is printed, or an error, and eval goes on to its messages.
ReadOther ==
  /\ Main("prompt")
  /\ Goto("msg_stop")
  /\ UNCHANGED <<jobVars, kernVars, locVars, mask, msgVars>>

\* What parseline tells eval about a line with a command: is it to run in the
\* background?  (The words of the line do not matter here.)
parseline == BOOLEAN

\* A command line that is no builtin command.
ReadRun(b) ==
  /\ Main("prompt")
  /\ nextjid <= JidBound /\ maxjid(jobs) < JidBound
  /\ bg' = b
  /\ Goto("ev_block")
  /\ UNCHANGED <<jobVars, kernVars, pid, job, prev, mask, msgVars>>

\* The slots an operand %jid or pid of bg and fg can name.
NamedJobs ==
  ({getjobjid(jobs, j) : j \in 1 .. JidBound} \cup {getjobpid(jobs, p) : p \in Pids})
    \ {NoJob}

\* bg (b = TRUE) or fg of an existing job; SIGCHLD is not blocked yet.
ReadBgfg(b) ==
  /\ Main("prompt")
  /\ bg' = b
  /\ job' \in NamedJobs
  /\ Goto("bf_block")
  /\ UNCHANGED <<jobVars, kernVars, pid, prev, mask, msgVars>>

\* Sigprocmask(SIG_BLOCK, &mask_chld, &prev)
BlockChld(from, to) ==
  /\ Main(from)
  /\ prev' = mask["main"]
  /\ SetMask(mask["main"] \cup mask_chld)
  /\ Goto(to)
  /\ UNCHANGED <<jobVars, kernVars, pid, bg, job, msgVars>>

\* Unblock that leaves the mask as it is.
Unblock_Forgotten(from, to) ==
  /\ Main(from)
  /\ Goto(to)
  /\ UNCHANGED <<jobVars, kernVars, locVars, mask, msgVars>>

\* Sigprocmask(SIG_SETMASK, &prev, NULL)
Unblock(from, to) ==
  /\ Main(from)
  /\ SetMask(prev)
  /\ Goto(to)
  /\ UNCHANGED <<jobVars, kernVars, locVars, msgVars>>

EvalBlock == BlockChld("ev_block", "ev_fork")

EvalFork ==
  /\ Main("ev_fork")
  /\ \E p \in Pids :
       /\ proc[p] = "none"
       /\ proc' = [proc EXCEPT ![p] = "born"]
       /\ pid' = p
  /\ Goto("ev_add")
  /\ UNCHANGED <<jobVars, pending, bg, job, prev, mask, msgVars>>

\* Fork's unix_error: exit(1).
EvalForkFails ==
  /\ Main("ev_fork")
  /\ shell' = "forkerr"
  /\ UNCHANGED <<jobVars, kernVars, pc, locVars, ctxVars, mask, chldVars, msgVars>>

EvalAddjob ==
  /\ Main("ev_add")
  /\ LET r == addjob(jobs, nextjid, pid, IF bg THEN "BG" ELSE "FG")
     IN  jobs' = r.jobs /\ nextjid' = r.nextjid
  /\ Goto("ev_unblock")
  /\ UNCHANGED <<kernVars, locVars, mask, msgVars>>

EvalUnblock == Unblock("ev_unblock", IF bg THEN "msg_stop" ELSE "wf_block")

BgfgBlock == BlockChld("bf_block", "bf_kill")

\* Kill((-1)*(job->pid), SIGCONT).  A slot cleared since the lookup holds pid
\* 0: kill(0, SIGCONT) signals the shell's own group and changes nothing.
BgfgKill ==
  /\ Main("bf_kill")
  /\ jobs[job].pid # 0 => HasGroup(jobs[job].pid)
  /\ IF jobs[job].pid = 0 THEN UNCHANGED kernVars ELSE Continue(jobs[job].pid)
  /\ Goto("bf_edit")
  /\ UNCHANGED <<jobVars, locVars, mask, msgVars>>

\* Kill's unix_error: exit(1).
BgfgKillFails ==
  /\ Main("bf_kill")
  /\ jobs[job].pid # 0 /\ ~HasGroup(jobs[job].pid)
  /\ shell' = "killerr"
  /\ UNCHANGED <<jobVars, kernVars, pc, locVars, ctxVars, mask, chldVars, msgVars>>

BgfgEdit ==
  /\ Main("bf_edit")
  /\ jobs' = [jobs EXCEPT ![job].state = IF bg THEN "BG" ELSE "FG"]
  /\ Goto("bf_unblock")
  /\ UNCHANGED <<nextjid, kernVars, locVars, mask, msgVars>>

BgfgUnblock == Unblock("bf_unblock", IF bg THEN "msg_stop" ELSE "bf_wait")

\* waitfg(job->pid): the slot is read after SIGCHLD has been unblocked.
BgfgWait ==
  /\ Main("bf_wait")
  /\ pid' = jobs[job].pid
  /\ Goto("wf_block")
  /\ UNCHANGED <<jobVars, kernVars, bg, job, prev, mask, msgVars>>

WaitfgBlock == BlockChld("wf_block", "wf_check")

WaitfgCheck ==
  /\ Main("wf_check")
  /\ Goto(IF pid = fgpid(jobs) THEN "wf_suspend" ELSE "wf_unblock")
  /\ UNCHANGED <<jobVars, kernVars, locVars, mask, msgVars>>

WaitfgUnblock == Unblock("wf_unblock", "msg_stop")

\* The end of eval: a raised flag is printed with the message data, and only
\* then cleared.
MsgStop ==
  /\ Main("msg_stop")
  /\ Goto(IF stop_msg THEN "clr_stop" ELSE "msg_term")
  /\ UNCHANGED <<jobVars, kernVars, locVars, mask, msgVars>>

ClearStop ==
  /\ Main("clr_stop")
  /\ stop_msg' = FALSE
  /\ Goto("msg_term")
  /\ UNCHANGED <<jobVars, kernVars, locVars, mask, term_msg, msg_pid>>

MsgTerm ==
  /\ Main("msg_term") /\ term_msg
  /\ Goto("clr_term")
  /\ UNCHANGED <<jobVars, kernVars, locVars, mask, msgVars>>

\* eval returns (its locals die) and main reads the next line.
EvalReturn ==
  /\ \/ Main("msg_term") /\ ~term_msg /\ UNCHANGED term_msg
     \/ Main("clr_term") /\ term_msg' = FALSE
  /\ pid' = 0 /\ bg' = FALSE /\ job' = NoJob /\ prev' = {}
  /\ Goto("prompt")
  /\ UNCHANGED <<jobVars, kernVars, mask, stop_msg, msg_pid>>

MainStep ==
  \/ EvalBlock \/ EvalFork \/ EvalForkFails \/ EvalAddjob \/ EvalUnblock
  \/ BgfgBlock \/ BgfgKill \/ BgfgKillFails \/ BgfgEdit \/ BgfgUnblock \/ BgfgWait
  \/ WaitfgBlock \/ WaitfgCheck \/ WaitfgUnblock
  \/ MsgStop \/ ClearStop \/ MsgTerm \/ EvalReturn

\* main reads a line and hands it to eval; a line of blanks changes nothing.
ReadStep ==
  \/ ReadExit \/ ReadOther
  \/ \E b \in parseline : ReadRun(b)
  \/ \E b \in BOOLEAN : ReadBgfg(b)

-----------------------------------------------------------------------------
(* The signal handlers.                                                    *)

Handler(s, at) == shell = "alive" /\ cur = s /\ hpc[s] = at

\* Delivery to a waitfg that calls sigsuspend once ("if" for "while").
Deliver_NoLoop(s) ==
  /\ shell = "alive"
  /\ s \in pending \ Blocked
  /\ pending' = pending \ {s}
  /\ cur' = s
  /\ ret' = [ret EXCEPT ![s] = cur]
  /\ mask' = [mask EXCEPT ![s] = Blocked \cup {s}]
  /\ hpc' = [hpc EXCEPT ![s] = "entry"]
  /\ pc' = IF cur = "main" /\ pc = "wf_suspend" THEN "wf_unblock" ELSE pc
  /\ UNCHANGED <<jobVars, proc, locVars, hpid, chldVars, msgVars, shell>>

\* The kernel enters the handler of an unblocked pending signal; a main
\* program asleep in sigsuspend will resume at the test of waitfg's loop.
Deliver(s) ==
  /\ shell = "alive"
  /\ s \in pending \ Blocked
  /\ pending' = pending \ {s}
  /\ cur' = s
  /\ ret' = [ret EXCEPT ![s] = cur]
  /\ mask' = [mask EXCEPT ![s] = Blocked \cup {s}]
  /\ hpc' = [hpc EXCEPT ![s] = "entry"]
  /\ pc' = IF cur = "main" /\ pc = "wf_suspend" THEN "wf_check" ELSE pc
  /\ UNCHANGED <<jobVars, proc, locVars, hpid, chldVars, msgVars, shell>>

\* sigquit_handler: exit(1).
DeliverQuit ==
  /\ shell = "alive"
  /\ "QUIT" \in pending \ Blocked
  /\ shell' = "exited"
  /\ UNCHANGED <<jobVars, kernVars, pc, locVars, ctxVars, mask, chldVars, msgVars>>

\* The handler's frame is gone and the interrupted context runs again.
Return(s) ==
  /\ cur' = ret[s]
  /\ ret' = [ret EXCEPT ![s] = "main"]
  /\ mask' = [mask EXCEPT ![s] = {}]
  /\ hpc' = [hpc EXCEPT ![s] = "idle"]
  /\ hpid' = [hpid EXCEPT ![s] = 0]

\* sigint_handler and sigtstp_handler: pid = fgpid(jobs), return if none.
ForwardLookup(s) ==
  /\ Handler(s, "entry")
  /\ IF fgpid(jobs) = 0
     THEN Return(s)
     ELSE /\ hpid' = [hpid EXCEPT ![s] = fgpid(jobs)]
          /\ hpc' = [hpc EXCEPT ![s] = "kill"]
          /\ UNCHANGED <<cur, ret, mask>>
  /\ UNCHANGED <<jobVars, kernVars, pc, locVars, chldVars, msgVars, shell>>

\* Kill(-pid, SIGINT) or Kill(-pid, SIGTSTP) on the pid looked up before.
ForwardKill(s) ==
  /\ Handler(s, "kill")
  /\ HasGroup(hpid[s])
  /\ Forwarded(hpid[s], s)
  /\ Return(s)
  /\ UNCHANGED <<jobVars, pc, locVars, chldVars, msgVars, shell>>

\* Kill's unix_error: exit(1).
ForwardKillFails(s) ==
  /\ Handler(s, "kill")
  /\ ~HasGroup(hpid[s])
  /\ shell' = "killerr"
  /\ UNCHANGED <<jobVars, kernVars, pc, locVars, ctxVars, mask, chldVars, msgVars>>

\* sigchld_handler calling waitpid once ("if" for "while"): see ChldDone.
ChldDone_Once == TRUE

\* waitpid has nothing to report (0, or -1 with no children): the loop ends.
ChldDone == ~ \E p \in Pids : Reportable(p)

\* sigchld_handler, waitpid: a zombie is reaped, a stop is reported.
ChldWaitpid ==
  /\ Handler("CHLD", "entry")
  /\ \E p \in Pids :
       /\ Reportable(p)
       /\ hpid' = [hpid EXCEPT !["CHLD"] = p]
       /\ hstatus' = IF proc[p] = "stopN" THEN "stopped" ELSE proc[p]
       /\ proc' = [proc EXCEPT ![p] = IF @ = "stopN" THEN "stopR" ELSE "none"]
  /\ hpc' = [hpc EXCEPT !["CHLD"] = "block"]
  /\ UNCHANGED <<jobVars, pending, pc, locVars, cur, ret, mask, hprev, msgVars, shell>>

\* Sigprocmask(SIG_BLOCK, &mask_all, &prev)
ChldBlock ==
  /\ Handler("CHLD", "block")
  /\ hprev' = mask["CHLD"]
  /\ mask' = [mask EXCEPT !["CHLD"] = @ \cup mask_all]
  /\ hpc' = [hpc EXCEPT !["CHLD"] = "update"]
  /\ UNCHANGED <<jobVars, kernVars, pc, locVars, cur, ret, hpid, hstatus, msgVars, shell>>

\* The three branches on status: delete the job, or mark it stopped, and
\* leave a message for eval unless the job exited normally.
ChldUpdate ==
  /\ Handler("CHLD", "update")
  /\ LET p == hpid["CHLD"]
         i == getjobpid(jobs, p)
         r == deletejob(jobs, nextjid, p)
     IN  IF hstatus = "stopped"
         THEN /\ stop_msg' = TRUE /\ msg_pid' = p
              /\ jobs' = IF i = NoJob THEN jobs ELSE [jobs EXCEPT ![i].state = "ST"]
              /\ UNCHANGED <<nextjid, term_msg>>
         ELSE /\ jobs' = r.jobs /\ nextjid' = r.nextjid
              /\ IF hstatus = "killed"
                 THEN term_msg' = TRUE /\ msg_pid' = p /\ UNCHANGED stop_msg
                 ELSE UNCHANGED msgVars
  /\ hpc' = [hpc EXCEPT !["CHLD"] = "unblock"]
  /\ UNCHANGED <<kernVars, pc, locVars, cur, ret, mask, hpid, chldVars, shell>>

\* Sigprocmask(SIG_SETMASK, &prev, NULL), back to the test of the loop.
ChldUnblock ==
  /\ Handler("CHLD", "unblock")
  /\ mask' = [mask EXCEPT !["CHLD"] = hprev]
  /\ hpc' = [hpc EXCEPT !["CHLD"] = "entry"]
  /\ hpid' = [hpid EXCEPT !["CHLD"] = 0]
  /\ hstatus' = "exited" /\ hprev' = {}
  /\ UNCHANGED <<jobVars, kernVars, pc, locVars, cur, ret, msgVars, shell>>

ChldReturn ==
  /\ Handler("CHLD", "entry")
  /\ ChldDone
  /\ Return("CHLD")
  /\ UNCHANGED <<jobVars, kernVars, pc, locVars, chldVars, msgVars, shell>>

ChldStep == ChldWaitpid \/ ChldBlock \/ ChldUpdate \/ ChldUnblock \/ ChldReturn

ForwardStep(s) == ForwardLookup(s) \/ ForwardKill(s) \/ ForwardKillFails(s)

-----------------------------------------------------------------------------
(* The environment: the children, and the signals sent to the shell.       *)

shellVars == <<jobVars, pc, locVars, ctxVars, mask, chldVars, msgVars, shell>>

\* The child calls setpgid(0, 0) ...
ChildSetpgid(p) ==
  /\ proc[p] = "born"
  /\ proc' = [proc EXCEPT ![p] = "group"]
  /\ UNCHANGED pending

\* ... and then execve.
ChildExecve(p) ==
  /\ proc[p] = "group"
  /\ proc' = [proc EXCEPT ![p] = "run"]
  /\ UNCHANGED pending

\* The program ends, or execve failed ("Command not found", exit(0)).
ChildExits(p) == proc[p] \in {"group", "run"} /\ ChildChanges(p, "exited")

\* A signal that does not come from the shell terminates, stops or continues
\* the program (myint.c, mystop.c, or kill from another terminal).
ChildKilled(p) ==
  proc[p] \in {"group", "run", "stopN", "stopR"} /\ ChildChanges(p, "killed")
ChildStops(p) == proc[p] = "run" /\ ChildChanges(p, "stopN")
ChildContinues(p) == proc[p] \in {"stopN", "stopR"} /\ ChildChanges(p, "run")

ChildStep ==
  /\ shell = "alive"
  /\ \E p \in Pids :
       \/ ChildSetpgid(p) \/ ChildExecve(p) \/ ChildExits(p)
       \/ ChildKilled(p) \/ ChildStops(p) \/ ChildContinues(p)
  /\ UNCHANGED shellVars

\* ctrl-c, ctrl-z, or the driver's SIGQUIT.
Key(s) ==
  /\ shell = "alive"
  /\ pending' = pending \cup {s}
  /\ UNCHANGED <<proc, shellVars>>

\* The shell has exited; the children are no longer its business.
Terminated == shell # "alive" /\ UNCHANGED vars

Next ==
  \/ ReadStep \/ MainStep \/ ChldStep
  \/ \E s \in {"INT", "TSTP"} : ForwardStep(s)
  \/ \E s \in Handlers : Deliver(s)
  \/ DeliverQuit
  \/ ChildStep
  \/ \E s \in Keys : Key(s)
  \/ Terminated

\* The kernel runs the current context and delivers what is pending and not
\* blocked.  Strong fairness, because a signal may interrupt any context at
\* any time, but a context still gets to run between two signals.  Nothing
\* is assumed of the user (ReadStep, Key) nor of the children.
Fairness ==
  /\ SF_vars(MainStep)
  /\ SF_vars(ChldStep)
  /\ \A s \in {"INT", "TSTP"} : SF_vars(ForwardStep(s))
  /\ \A s \in Handlers : SF_vars(Deliver(s))
  /\ SF_vars(DeliverQuit)

Spec     == Init /\ [][Next]_vars
FairSpec == Spec /\ Fairness

-----------------------------------------------------------------------------
(* Properties.                                                             *)

TypeOK ==
  /\ jobs \in [Slots -> [pid : Pids \cup {0}, jid : 0 .. JidBound, state : JobStates]]
  /\ nextjid \in 1 .. JidBound + 1
  /\ proc \in [Pids -> ProcStates]
  /\ pending \subseteq Signals
  /\ pc \in MainPcs /\ pid \in Pids \cup {0} /\ bg \in BOOLEAN
  /\ job \in Slots \cup {NoJob} /\ prev \subseteq Signals
  /\ cur \in Contexts
  /\ ret \in [Handlers -> Contexts]
  /\ mask \in [Contexts -> SUBSET Signals]
  /\ hpc \in [Handlers -> HandlerPcs]
  /\ hpid \in [Handlers -> Pids \cup {0}]
  /\ hstatus \in {"exited", "killed", "stopped"} /\ hprev \subseteq Signals
  /\ stop_msg \in BOOLEAN /\ term_msg \in BOOLEAN /\ msg_pid \in Pids \cup {0}
  /\ shell \in ShellStates


Alive == shell = "alive"

\* sigchld_handler has taken child p off the kernel's hands but not yet off
\* the job list.
BeingDeleted(p) ==
  /\ hpc["CHLD"] \in {"block", "update"} /\ hpid["CHLD"] = p
  /\ hstatus # "stopped"

\* The job list never holds a process that is gone (tsh.c:207, 432): a listed
\* PID is a child not yet reaped, or one that sigchld_handler is deleting at
\* this moment.  So bg and fg signal no stranger, and no job haunts the list.
JobsAreChildren ==
  \A i \in Slots :
    jobs[i].pid # 0 => \/ proc[jobs[i].pid] # "none"
                      \/ BeingDeleted(jobs[i].pid)

\* With a slot for every process, no child escapes the list: it is listed
\* once, or eval has just forked it and holds SIGCHLD back (tsh.c:207-226).
ChildrenListed ==
  \A p \in Pids :
    proc[p] # "none" =>
      \/ \E i \in Slots : /\ jobs[i].pid = p
                          /\ \A k \in Slots \ {i} : jobs[k].pid # p
      \/ pc = "ev_add" /\ pid = p

\* Pending signals do not queue, so one SIGCHLD stands for many children; the
\* loop of sigchld_handler (tsh.c:428) makes up for it.  Whatever waitpid
\* could report is announced by a pending SIGCHLD or a handler still looping.
NoLostSigchld ==
  Alive /\ (\E p \in Pids : Reportable(p))
    => "CHLD" \in pending \/ hpc["CHLD"] # "idle"

\* "At most 1 job can be in the FG state" (tsh.c:37).
OneForeground ==
  \A i, k \in Slots : jobs[i].state = "FG" /\ jobs[k].state = "FG" => i = k

\* A foreground job is being waited for (tsh.c:226-228, 376-381): as long as a
\* slot is FG, the main program is on its way into waitfg, or inside it, for
\* the PID of that very slot.
ForegroundAwaited ==
  \A i \in Slots :
    jobs[i].state = "FG" =>
      \/ /\ pc \in {"ev_unblock", "wf_block", "wf_check", "wf_suspend"}
         /\ pid = jobs[i].pid
      \/ pc \in {"bf_unblock", "bf_wait"} /\ job = i /\ ~bg

\* The job list is edited by one context at a time: sigchld_handler is not
\* suspended in the middle of its update (tsh.c:432-453), and it is not active
\* while eval and do_bgfg edit the list with SIGCHLD blocked (tsh.c:207-227,
\* 367-378).  waitfg only reads it.
ListEditExclusive ==
  /\ hpc["CHLD"] \in {"update", "unblock"} => cur = "CHLD"
  /\ pc \in {"ev_fork", "ev_add", "ev_unblock", "bf_kill", "bf_edit", "bf_unblock"}
       => hpc["CHLD"] = "idle"

\* ctrl-c and ctrl-z never reach a background job (tsh.c:467, 484): the PID
\* that sigint_handler or sigtstp_handler looked up before its Kill is not,
\* when Kill is called, the PID of a job listed as BG, whatever
\* sigchld_handler did to the list in between.
BackgroundUnharmed ==
  \A s \in {"INT", "TSTP"}, i \in Slots :
    hpc[s] = "kill" /\ jobs[i].pid = hpid[s] => jobs[i].state # "BG"

\* At the prompt every signal is unblocked again (tsh.c:222, 227, 378, 405).
PromptUnmasked == pc = "prompt" => mask["main"] = {}

\* Transitions of a job that stays in its slot.
Transitions(allowed) ==
  \A i \in Slots :
    jobs[i].pid # 0 /\ jobs'[i].pid = jobs[i].pid /\ jobs'[i].state # jobs[i].state
      => <<jobs[i].state, jobs'[i].state>> \in allowed

DocumentedPairs == {<<"FG", "ST">>, <<"ST", "FG">>, <<"ST", "BG">>, <<"BG", "FG">>}

\* The state transitions of tsh.c:31-36, plus BG -> ST (a background program
\* that is stopped, tsh.c:443): no job goes from FG to BG, and none changes
\* its state in any other way as long as it is listed.
JobTransitions == [][Transitions(DocumentedPairs \cup {<<"BG", "ST">>})]_vars

-----------------------------------------------------------------------------
(* Liveness, of FairSpec.                                                  *)

Prompt == pc = "prompt" \/ ~Alive

\* "The handler reaps all available zombie children" (tsh.c:416): no zombie
\* stays one for ever.
ZombiesReaped ==
  \A p \in Pids : proc[p] \in {"exited", "killed"} ~> proc[p] = "none" \/ ~Alive

\* Once the process that waitfg waits for is dead, the prompt comes back.
PromptReturns ==
  \A p \in Pids :
    pc = "wf_suspend" /\ pid = p /\ proc[p] \in {"exited", "killed"} ~> Prompt

\* "Block until process pid is no longer the foreground process" (tsh.c:386):
\* with no foreground process, waitfg returns.
WaitfgReturns == pc \in {"wf_check", "wf_suspend"} /\ fgpid(jobs) = 0 ~> Prompt
=============================================================================
