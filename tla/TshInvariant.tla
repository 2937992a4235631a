---------------------------- MODULE TshInvariant ----------------------------
(***************************************************************************)
(* The inductive invariant of the tiny shell: the strengthening that the   *)
(* proofs of module TshProofs need.  The contexts form a stack, the masks  *)
(* grow from the bottom of that stack to its top, and what the job list    *)
(* holds depends on who may run at each control point.                     *)
(***************************************************************************)
EXTENDS Tsh

Active(h) == hpc[h] # "idle"

\* The active handlers and main are stacked: cur is on top, ret leads down to
\* main, no two contexts return to the same one, and there is no cycle.
ContextInv ==
  /\ cur = "main" => \A h \in Handlers : ~Active(h)
  /\ cur # "main" => Active(cur)
  /\ \A h \in Handlers : Active(h) =>
       /\ ret[h] # "main" => Active(ret[h])
       /\ ret[h] # cur /\ ret[h] # h
  /\ \A h, g \in Handlers : Active(h) /\ Active(g) /\ h # g =>
       /\ ret[h] # ret[g]
       /\ ~(ret[h] = g /\ ret[g] = h)

\* The control points between a Sigprocmask that blocks SIGCHLD and the one
\* that restores the mask, in eval and do_bgfg.
Critical == {"ev_fork", "ev_add", "ev_unblock", "bf_kill", "bf_edit", "bf_unblock"}

\* A handler runs with its own signal blocked and with all that its
\* interrupted handler had blocked; SIGCHLD stays blocked, and its handler
\* inactive, in main's critical sections; sigchld_handler updates the list
\* on top of the stack with everything blocked.
MaskInv ==
  /\ \A h \in Handlers : Active(h) =>
       /\ h \in mask[h]
       /\ ret[h] # "main" => mask[ret[h]] \subseteq mask[h]
  /\ pc \in Critical =>
       /\ "CHLD" \in mask["main"] /\ ~Active("CHLD")
       /\ \A h \in Handlers : Active(h) => "CHLD" \in mask[h]
  /\ hpc["CHLD"] \in {"update", "unblock"} =>
       /\ cur = "CHLD" /\ mask["CHLD"] = Signals
       /\ "CHLD" \in hprev
       /\ ret["CHLD"] # "main" => mask[ret["CHLD"]] \subseteq hprev

\* Outside its blocked sections main runs with no signal blocked, and inside
\* them prev remembers that.
PrevInv ==
  IF pc \in Critical \cup {"wf_check", "wf_suspend", "wf_unblock"}
  THEN prev = {} ELSE mask["main"] = {}

\* There is room below JidBound for the job that eval is about to add.
JidInv ==
  pc \in {"ev_block", "ev_fork", "ev_add"} =>
    nextjid <= JidBound /\ \A i \in Slots : jobs[i].jid < JidBound

\* What the locals of main and of the handlers refer to.
LocalInv ==
  /\ pc \in {"bf_block", "bf_kill", "bf_edit", "bf_unblock", "bf_wait"} => job \in Slots
  /\ pc = "ev_add" => /\ pid \in Pids /\ proc[pid] # "none"
                      /\ \A i \in Slots : jobs[i].pid # pid
  /\ hpc["CHLD"] \in {"block", "update"} => hpid["CHLD"] \in Pids
  /\ \A s \in {"INT", "TSTP"} : hpc[s] = "kill" => hpid[s] \in Pids

\* No process is listed twice, and a listed job has a state.
ListInv ==
  /\ \A i, k \in Slots : i # k /\ jobs[i].pid = jobs[k].pid => jobs[i].pid = 0
  /\ \A i \in Slots : jobs[i].pid # 0 => jobs[i].state # "UNDEF"

\* ForegroundAwaited, and: a background command brings nothing into the
\* foreground; a slot that was cleared before fg marked it is slot job.
FgInv ==
  \A i \in Slots :
    jobs[i].state = "FG" =>
      /\ ~bg
      /\ \/ /\ pc \in {"ev_unblock", "wf_block", "wf_check", "wf_suspend"}
            /\ pid = jobs[i].pid
            /\ pid = 0 => i = job
         \/ pc \in {"bf_unblock", "bf_wait"} /\ job = i

\* The inductive invariant of Spec: it holds initially, every step preserves
\* it, and the safety properties of module Tsh follow from it.
IInv ==
  /\ TypeOK /\ ContextInv /\ MaskInv /\ PrevInv /\ JidInv /\ LocalInv
  /\ ListInv /\ JobsAreChildren /\ FgInv /\ BackgroundUnharmed /\ NoLostSigchld

\* With a slot for every process: every child is listed, except the one that
\* eval has just forked, and the child that sigchld_handler is deleting is
\* gone (its PID cannot have been reused, for eval forks with SIGCHLD blocked).
ListedInv ==
  /\ \A p \in Pids :
       proc[p] # "none" => \/ \E i \in Slots : jobs[i].pid = p
                           \/ pc = "ev_add" /\ pid = p
  /\ \A p \in Pids : BeingDeleted(p) => proc[p] = "none"
=============================================================================
