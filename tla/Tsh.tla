-------------------------------- MODULE Tsh --------------------------------
(* The tiny shell: its read/eval loop, its three signal handlers, the       *)
(* kernel's bookkeeping of pending signals and children, and the keyboard.  *)
(*                                                                          *)
(* The shell is one thread.  main runs only while no handler is active; a   *)
(* handler may be interrupted by a handler of another signal (sigaction is  *)
(* given an empty sa_mask), so active handlers form a stack of frames with  *)
(* the running one on top.  One action is one access to the job list or one *)
(* system call.                                                             *)
EXTENDS JobList, Sequences

CONSTANTS
    Keys,       \* the keyboard signals the user may send: ctrl-c, ctrl-z
    JidBound    \* bound of the exploration: no new job beyond this jid

ASSUME KeysAssumption == Keys \subseteq {"INT", "TSTP"}

ASSUME JidBoundAssumption == JidBound \in Nat

VARIABLES
    jobs,       \* the job list
    nextjid,    \* the next job id to hand out
    main,       \* program counter and locals of main, eval, do_bgfg and waitfg
    stack,      \* frames of the active signal handlers, the running one first
    masked,     \* whether eval has SIGCHLD, SIGTSTP and SIGINT blocked
    pending,    \* signals generated for the shell and not yet delivered
    child,      \* what the kernel knows of each child
    dropped,    \* history: children that addjob refused, not yet reaped
    raced       \* history: do_bgfg has written to an entry cleared under it

vars == <<jobs, nextjid, main, stack, masked, pending, child, dropped, raced>>

Signals == {"INT", "TSTP", "CHLD"}

\* "none": no such child, or reaped.  "forked": before its setpgid.
\* "unreported": stopped and not yet reported by waitpid; "stopped": reported.
ChildStates == {"none", "forked", "running", "unreported", "stopped", "zombie"}

\* cmd is what the command line asks for, pid is eval's pid, do_bgfg's PID or
\* waitfg's pid, and slot is do_bgfg's job_1.
MainPcs == {"read", "fork", "addjob", "unmask", "waitfg", "poll",
            "takepid", "setstate", "sigcont", "rereadpid", "exited", "crashed"}

\* What parseline makes of a command line, as far as eval and do_bgfg ask: a job
\* for the foreground or for the background.
Commands == {"fg", "bg"}

Main == [pc : MainPcs, cmd : Commands, pid : Pids \cup {0}, slot : Slots \cup {0}]

\* The frame of a handler: pid is its variable, which holds what fgpid or waitpid
\* returned, and slot what sigtstp_handler's getjobpid returned.
FramePcs == {"fgpid", "kill", "lookup", "mark", "waitpid", "delete", "stopped"}

Frame == [sig : Signals, pc : FramePcs, pid : Pids \cup {0}, slot : Slots \cup {0}]

AtPrompt == [pc |-> "read", cmd |-> "fg", pid |-> 0, slot |-> 0]

Halted == {"exited", "crashed"}

Alive == main.pc \notin Halted

Init ==
    /\ jobs = initjobs
    /\ nextjid = 1
    /\ main = AtPrompt
    /\ stack = <<>>
    /\ masked = FALSE
    /\ pending = {}
    /\ child = [p \in Pids |-> "none"]
    /\ dropped = {}
    /\ raced = FALSE

\* main makes a step at pc only when every handler has returned.
MainAt(pc) == main.pc = pc /\ stack = <<>>

\* What kill(-pid, sig) does, as the states pid may be left in.  A child that
\* has not called setpgid leads no group: ESRCH.  A running one may catch or
\* ignore SIGINT and SIGTSTP.  A stopped one acts on them once continued.
Killed(pid, sig) ==
    LET s == child[pid]
    IN  CASE sig = "INT"  /\ s = "running" -> {"running", "zombie"}
          [] sig = "TSTP" /\ s = "running" -> {"running", "unreported", "zombie"}
          [] sig = "CONT" /\ s \in {"unreported", "stopped"} -> {"running"}
          [] OTHER -> {s}

\* kill(-pid, sig); the kernel tells the parent of every change with SIGCHLD.
Kill(pid, sig) ==
    IF pid = 0
    THEN UNCHANGED <<child, pending>>
    ELSE \E s \in Killed(pid, sig) :
            /\ child' = [child EXCEPT ![pid] = s]
            /\ pending' = IF s = child[pid] THEN pending ELSE pending \cup {"CHLD"}

----------------------------------------------------------------------------
\* main: the read/eval loop

\* The process is gone, and with it whatever handlers were active.
Ends(how) == main' = [AtPrompt EXCEPT !.pc = how] /\ stack' = <<>>

\* quit, or end of file.  (jobs, an empty line and a wrong argument to fg or
\* bg change nothing.)
Quit ==
    /\ MainAt("read")
    /\ Ends("exited")
    /\ UNCHANGED <<jobs, nextjid, masked, pending, child, dropped, raced>>

\* sigquit_handler exits wherever the shell is; eval does not block SIGQUIT.
Sigquit ==
    /\ Alive
    /\ Ends("exited")
    /\ UNCHANGED <<jobs, nextjid, masked, pending, child, dropped, raced>>

\* Mutant: eval forks with the signals unblocked.
ReadCommandUnmasked ==
    /\ MainAt("read")
    /\ nextjid <= JidBound
    /\ \E cmd \in Commands : main' = [AtPrompt EXCEPT !.pc = "fork", !.cmd = cmd]
    /\ UNCHANGED <<jobs, nextjid, stack, masked, pending, child, dropped, raced>>

\* eval, a command that is not built in: block the three signals.
ReadCommand ==
    /\ MainAt("read")
    /\ nextjid <= JidBound
    /\ \E cmd \in Commands : main' = [AtPrompt EXCEPT !.pc = "fork", !.cmd = cmd]
    /\ masked' = TRUE
    /\ UNCHANGED <<jobs, nextjid, stack, pending, child, dropped, raced>>

\* fork may also fail; eval does not look at its result, and -1 is treated by
\* addjob, waitfg and pid2jid as 0 is.
Fork ==
    /\ MainAt("fork")
    /\ \/ /\ main' = [main EXCEPT !.pc = "addjob", !.pid = 0]
          /\ UNCHANGED child
       \/ \E p \in Pids :
            /\ child[p] = "none"
            /\ main' = [main EXCEPT !.pc = "addjob", !.pid = p]
            /\ child' = [child EXCEPT ![p] = "forked"]
    /\ UNCHANGED <<jobs, nextjid, stack, masked, pending, dropped, raced>>

AddJob ==
    /\ MainAt("addjob")
    /\ LET added == addjob(jobs, nextjid, main.pid, IF main.cmd = "fg" THEN "FG" ELSE "BG")
       IN  jobs' = added.jobs /\ nextjid' = added.nextjid
    /\ dropped' = IF IsFull(jobs) /\ main.pid # 0 THEN dropped \cup {main.pid} ELSE dropped
    /\ main' = [main EXCEPT !.pc = "unmask"]
    /\ UNCHANGED <<stack, masked, pending, child, raced>>

\* A background job's line is printed after this; nothing else changes.
Unmask ==
    /\ MainAt("unmask")
    /\ masked' = FALSE
    /\ main' = IF main.cmd = "fg" THEN [main EXCEPT !.pc = "waitfg"] ELSE AtPrompt
    /\ UNCHANGED <<jobs, nextjid, stack, pending, child, dropped, raced>>

\* waitfg looks the job up once, and gives up when it is not listed.
WaitfgEnter ==
    /\ MainAt("waitfg")
    /\ main' = IF getjobpid(jobs, main.pid) = 0 THEN AtPrompt ELSE [main EXCEPT !.pc = "poll"]
    /\ UNCHANGED <<jobs, nextjid, stack, masked, pending, child, dropped, raced>>

\* Mutant: sleep once, "if" for "while".
WaitfgReturnOnce ==
    /\ MainAt("poll")
    /\ main' = AtPrompt
    /\ UNCHANGED <<jobs, nextjid, stack, masked, pending, child, dropped, raced>>

\* The sleep loop ends when fgpid names another process, or none.
WaitfgReturn ==
    /\ MainAt("poll")
    /\ main.pid # fgpid(jobs)
    /\ main' = AtPrompt
    /\ UNCHANGED <<jobs, nextjid, stack, masked, pending, child, dropped, raced>>

\* do_bgfg: the entry that the argument, a jid or a pid, leads to.
Named == ({getjobpid(jobs, p) : p \in Pids}
          \cup {getjobjid(jobs, jobs[s].jid) : s \in Slots}) \ {0}

ReadBgfg ==
    /\ MainAt("read")
    /\ \E s \in Named, cmd \in Commands :
            main' = [AtPrompt EXCEPT !.pc = "takepid", !.cmd = cmd, !.slot = s]
    /\ UNCHANGED <<jobs, nextjid, stack, masked, pending, child, dropped, raced>>

\* PID = job_1->pid
TakePid ==
    /\ MainAt("takepid")
    /\ main' = [main EXCEPT !.pc = "setstate", !.pid = jobs[main.slot].pid]
    /\ UNCHANGED <<jobs, nextjid, stack, masked, pending, child, dropped, raced>>

\* job_1->state = FG or BG, through a pointer that may be stale by now.
SetState ==
    /\ MainAt("setstate")
    /\ jobs' = [jobs EXCEPT ![main.slot].state = IF main.cmd = "fg" THEN "FG" ELSE "BG"]
    /\ raced' = (raced \/ jobs[main.slot].pid = 0)
    /\ main' = [main EXCEPT !.pc = "sigcont"]
    /\ UNCHANGED <<nextjid, stack, masked, pending, child, dropped>>

\* kill(-PID, SIGCONT); with PID = 0 it goes to the shell's own group, where
\* nobody is stopped.
SendCont ==
    /\ MainAt("sigcont")
    /\ Kill(main.pid, "CONT")
    /\ main' = IF main.cmd = "fg" THEN [main EXCEPT !.pc = "rereadpid"] ELSE AtPrompt
    /\ UNCHANGED <<jobs, nextjid, stack, masked, dropped, raced>>

\* waitfg(job_1->pid)
RereadPid ==
    /\ MainAt("rereadpid")
    /\ main' = [main EXCEPT !.pc = "waitfg", !.pid = jobs[main.slot].pid, !.slot = 0]
    /\ UNCHANGED <<jobs, nextjid, stack, masked, pending, child, dropped, raced>>

----------------------------------------------------------------------------
\* Signal handlers

Active == {stack[i].sig : i \in DOMAIN stack}

\* Installed with an empty sa_mask: only the signal itself is blocked meanwhile.
Blocked == Active \cup (IF masked THEN Signals ELSE {})

FirstPc(sig) == IF sig = "CHLD" THEN "waitpid" ELSE "fgpid"

Deliver(sig) ==
    /\ Alive
    /\ sig \in pending \ Blocked
    /\ pending' = pending \ {sig}
    /\ stack' = <<[sig |-> sig, pc |-> FirstPc(sig), pid |-> 0, slot |-> 0]>> \o stack
    /\ UNCHANGED <<jobs, nextjid, main, masked, child, dropped, raced>>

\* The running handler is one for sig, about to execute pc.
HandlerAt(sig, pc) == Alive /\ stack # <<>> /\ stack[1].sig = sig /\ stack[1].pc = pc

Continue(pc, pid, slot) ==
    stack' = [stack EXCEPT ![1].pc = pc, ![1].pid = pid, ![1].slot = slot]

Return == stack' = Tail(stack)

\* sigint_handler and sigtstp_handler: pid = fgpid(jobs)
LookFg(sig) ==
    /\ HandlerAt(sig, "fgpid")
    /\ Continue("kill", fgpid(jobs), 0)
    /\ UNCHANGED <<jobs, nextjid, main, masked, pending, child, dropped, raced>>

IntKill ==
    /\ HandlerAt("INT", "kill")
    /\ Kill(stack[1].pid, "INT")
    /\ Return
    /\ UNCHANGED <<jobs, nextjid, main, masked, dropped, raced>>

TstpKill ==
    /\ HandlerAt("TSTP", "kill")
    /\ Kill(stack[1].pid, "TSTP")
    /\ Continue("lookup", stack[1].pid, 0)
    /\ UNCHANGED <<jobs, nextjid, main, masked, dropped, raced>>

\* s->state = ST, for what getjobpid returned.  The pointer is not tested: when
\* the pid was not listed (or is 0) it is null and the shell ends.
MarkStopped(s) == IF s = 0 THEN UNCHANGED jobs ELSE jobs' = [jobs EXCEPT ![s].state = "ST"]

\* sigtstp_handler looks the job up and writes to it in two steps: sigchld_handler
\* may run in between and clear the entry.
TstpLookup ==
    /\ HandlerAt("TSTP", "lookup")
    /\ Continue("mark", stack[1].pid, getjobpid(jobs, stack[1].pid))
    /\ UNCHANGED <<jobs, nextjid, main, masked, pending, child, dropped, raced>>

TstpMark ==
    /\ HandlerAt("TSTP", "mark")
    /\ MarkStopped(stack[1].slot)
    /\ IF stack[1].slot = 0 THEN Ends("crashed") ELSE Return /\ UNCHANGED main
    /\ UNCHANGED <<nextjid, masked, pending, child, dropped, raced>>

\* sigchld_handler: one call of waitpid(-1, &status, WNOHANG | WUNTRACED).
Waitpid ==
    /\ HandlerAt("CHLD", "waitpid")
    /\ \/ \E p \in Pids :
            /\ child[p] = "zombie"
            /\ child' = [child EXCEPT ![p] = "none"]
            /\ dropped' = dropped \ {p}
            /\ Continue("delete", p, 0)
       \/ \E p \in Pids :
            /\ child[p] = "unreported"
            /\ child' = [child EXCEPT ![p] = "stopped"]
            /\ Continue("stopped", p, 0)
            /\ UNCHANGED dropped
       \/ /\ \A p \in Pids : child[p] \notin {"zombie", "unreported"}
          /\ Return
          /\ UNCHANGED <<child, dropped>>
    /\ UNCHANGED <<jobs, nextjid, main, masked, pending, raced>>

\* Mutant: one waitpid per signal, "if" for "while".
ChldDeleteOnce ==
    /\ HandlerAt("CHLD", "delete")
    /\ LET deleted == deletejob(jobs, nextjid, stack[1].pid)
       IN  jobs' = deleted.jobs /\ nextjid' = deleted.nextjid
    /\ Return
    /\ UNCHANGED <<main, masked, pending, child, dropped, raced>>

ChldDelete ==
    /\ HandlerAt("CHLD", "delete")
    /\ LET deleted == deletejob(jobs, nextjid, stack[1].pid)
       IN  jobs' = deleted.jobs /\ nextjid' = deleted.nextjid
    /\ Continue("waitpid", 0, 0)
    /\ UNCHANGED <<main, masked, pending, child, dropped, raced>>

\* Mutant: a stop taken for a termination.
ChldStoppedDeletes ==
    /\ HandlerAt("CHLD", "stopped")
    /\ LET deleted == deletejob(jobs, nextjid, stack[1].pid)
       IN  jobs' = deleted.jobs /\ nextjid' = deleted.nextjid
    /\ Continue("waitpid", 0, 0)
    /\ UNCHANGED <<main, masked, pending, child, dropped, raced>>

\* Mutant: a stop that is not recorded.
ChldStoppedIgnored ==
    /\ HandlerAt("CHLD", "stopped")
    /\ Continue("waitpid", 0, 0)
    /\ UNCHANGED <<jobs, nextjid, main, masked, pending, child, dropped, raced>>

\* No step of another handler comes between this lookup and this write that
\* could change what the lookup returns: only sigchld_handler clears entries.
ChldStopped ==
    /\ HandlerAt("CHLD", "stopped")
    /\ MarkStopped(getjobpid(jobs, stack[1].pid))
    /\ IF getjobpid(jobs, stack[1].pid) = 0 THEN Ends("crashed")
       ELSE Continue("waitpid", 0, 0) /\ UNCHANGED main
    /\ UNCHANGED <<nextjid, masked, pending, child, dropped, raced>>

----------------------------------------------------------------------------
\* The environment

\* ctrl-c and ctrl-z at the keyboard; a signal already pending is not queued.
Keystroke ==
    /\ Alive
    /\ \E sig \in Keys : pending' = pending \cup {sig}
    /\ UNCHANGED <<jobs, nextjid, main, stack, masked, child, dropped, raced>>

ChildBecomes(p, state, signals) ==
    /\ Alive
    /\ child' = [child EXCEPT ![p] = state]
    /\ pending' = pending \cup signals
    /\ UNCHANGED <<jobs, nextjid, main, stack, masked, dropped, raced>>

\* setpgid(0, 0) and execve.
ChildStarts(p) == child[p] = "forked" /\ ChildBecomes(p, "running", {})

\* Exit, a failed execve included, or death by a signal from elsewhere.
ChildDies(p) == child[p] \notin {"none", "zombie"} /\ ChildBecomes(p, "zombie", {"CHLD"})

\* A stop the shell did not ask for: a read from the terminal, SIGSTOP, ...
ChildStops(p) == child[p] = "running" /\ ChildBecomes(p, "unreported", {"CHLD"})

----------------------------------------------------------------------------
MainStep ==
    \/ Fork \/ AddJob \/ Unmask \/ WaitfgEnter \/ WaitfgReturn
    \/ TakePid \/ SetState \/ SendCont \/ RereadPid

HandlerStep ==
    \/ LookFg("INT") \/ LookFg("TSTP")
    \/ IntKill \/ TstpKill \/ TstpLookup \/ TstpMark
    \/ Waitpid \/ ChldDelete \/ ChldStopped

Next ==
    \/ Quit \/ Sigquit \/ ReadCommand \/ ReadBgfg
    \/ MainStep
    \/ HandlerStep
    \/ \E sig \in Signals : Deliver(sig)
    \/ Keystroke
    \/ \E p \in Pids : ChildStarts(p) \/ ChildDies(p) \/ ChildStops(p)

Spec == Init /\ [][Next]_vars
----------------------------------------------------------------------------
\* Fairness.  The scheduler runs the shell; SIGCHLD is delivered at the latest
\* when sigprocmask unblocks it, again and again if need be (hence SF); and the
\* user stops typing ctrl-c and ctrl-z at some time.  Nothing is asked of the
\* children, nor that another command line is ever typed.
EventuallyQuiet == <>[][~Keystroke]_vars

FairSpec ==
    /\ Spec
    /\ WF_vars(MainStep)
    /\ WF_vars(HandlerStep)
    /\ \A sig \in Signals : SF_vars(Deliver(sig))
    /\ EventuallyQuiet

----------------------------------------------------------------------------
\* Properties

\* The types of the variables: at any time a job, a frame and main's locals hold
\* pids that fork has returned, or 0, and ids are never negative.
TypeOK ==
    /\ jobs \in [Slots -> Job]
    /\ nextjid \in Nat
    /\ main \in Main
    /\ stack \in Seq(Frame)
    /\ masked \in BOOLEAN
    /\ pending \subseteq Signals
    /\ child \in [Pids -> ChildStates]
    /\ dropped \subseteq Pids
    /\ raced \in BOOLEAN

Listed(p) == \E s \in Slots : jobs[s].pid = p

FrameAt(pc, p) == \E i \in DOMAIN stack : stack[i].pc = pc /\ stack[i].pid = p

\* No ghost jobs: an entry of the list belongs to a child that has not been
\* reaped, or whose entry the running sigchld_handler is about to delete, and
\* no child has two entries.  The reason eval blocks SIGCHLD from before fork
\* until addjob has returned.
JobsAreChildren ==
    /\ Alive => \A p \in Pids : Listed(p) => child[p] # "none" \/ FrameAt("delete", p)
    /\ \A s, t \in Slots : jobs[s].pid # 0 /\ jobs[s].pid = jobs[t].pid => s = t

\* No lost jobs: a child that has not been reaped is on the job list, except
\* between fork and addjob, and except one that addjob found no room for.
ChildrenAreListed ==
    Alive => \A p \in Pids : child[p] # "none" =>
        \/ Listed(p)
        \/ p \in dropped
        \/ main.pc = "addjob" /\ main.pid = p

\* Signals do not queue: as long as some child has a report that waitpid has
\* not delivered, SIGCHLD is pending or sigchld_handler is in its loop.  The
\* reason the handler calls waitpid until it has nothing left to report.
NoReportLost ==
    Alive /\ (\E p \in Pids : child[p] \in {"zombie", "unreported"}) =>
        "CHLD" \in pending \cup Active

\* A listed child that waitpid has reported stopped is marked ST, unless the
\* handler is about to mark it or do_bgfg is about to send it SIGCONT: no
\* order of handler and do_bgfg leaves a stopped job shown as running.
StoppedIsKnown ==
    Alive => \A s \in Slots : \A p \in Pids :
        jobs[s].pid = p /\ child[p] = "stopped" =>
            \/ jobs[s].state = "ST"
            \/ FrameAt("stopped", p)
            \/ main.pc = "sigcont" /\ main.pid = p

\* A foreground entry belongs to the job that main is starting, resuming or
\* waiting for, so there is none at the prompt and never two: as long as
\* do_bgfg has not lost the race against sigchld_handler.
ForegroundIsAwaited ==
    Alive /\ ~raced => \A s \in Slots : jobs[s].state = "FG" =>
        \/ main.pc \in {"unmask", "waitfg", "poll"} /\ main.pid = jobs[s].pid
        \/ main.pc \in {"takepid", "setstate", "sigcont", "rereadpid"} /\ main.slot = s

\* The pointers to entries that are held while signals are handled, do_bgfg's
\* job_1 and the one sigtstp_handler writes ST through, denote the job they were
\* looked up for, or an entry cleared since: never another job, to which the new
\* state would then be given.
JobPointerStable ==
    /\ main.pc \in {"setstate", "sigcont"} => jobs[main.slot].pid \in {0, main.pid}
    /\ \A i \in DOMAIN stack :
          stack[i].slot # 0 => jobs[stack[i].slot].pid \in {0, stack[i].pid}

\* Both handlers use getjobpid's result without a test.  A stop report ends the
\* shell only when the child is one that addjob had no room for, and a ctrl-z
\* only when it found no foreground job, or when sigchld_handler has reaped the
\* job it found before it was looked up.
ListedStopsAreSafe ==
    [][main'.pc = "crashed" /\ Alive =>
          IF stack[1].sig = "TSTP"
          THEN stack[1].pid = 0 \/ child[stack[1].pid] = "none"
          ELSE stack[1].pid \in dropped]_vars

\* sigchld_handler "reaps all available zombie children": every zombie is reaped.
ZombiesAreReaped == \A p \in Pids : child[p] = "zombie" ~> child[p] # "zombie" \/ ~Alive

\* When the job that waitfg waits for has died or has stopped, the prompt comes
\* back (or the shell has ended).
PromptComesBack ==
    main.pc = "poll" /\ (main.pid # 0 => child[main.pid] \in {"zombie", "unreported"})
        ~> main.pc = "read" \/ ~Alive

\* The comment above the job states: "At most 1 job can be in the FG state".
AtMostOneForeground ==
    \A s, t \in Slots :
        jobs[s].pid # 0 /\ jobs[s].state = "FG" /\ jobs[t].pid # 0 /\ jobs[t].state = "FG" => s = t

\* A ctrl-z that finds no foreground job has no effect: it leaves the shell running.
CtrlZWithoutJob ==
    [][HandlerAt("TSTP", "mark") /\ stack[1].pid = 0 => main'.pc # "crashed"]_vars

\* The manual has each job identified by a process id or a job id: no two jobs
\* on the list share a job id.
JobIdsDistinct ==
    \A s, t \in Slots : jobs[s].pid # 0 /\ jobs[t].pid # 0 /\ jobs[s].jid = jobs[t].jid => s = t
=============================================================================
