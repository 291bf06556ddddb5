------------------------------ MODULE TshProofs ------------------------------
(* The shell never loses a job and never keeps a ghost, whatever the number *)
(* of processes and the size of the job list: proofs of the safety          *)
(* properties of module Tsh.                                                *)
EXTENDS Tsh, Scans

LOCAL Sets == INSTANCE FiniteSetsExt

----------------------------------------------------------------------------
\* What the routines of the job list return and leave alone

\* A scan of the array finds an entry of the kind looked for if there is one,
\* and reports 0 otherwise.
LEMMA FirstOfFinds ==
    ASSUME NEW S \in SUBSET Slots
    PROVE  IF S = {} THEN FirstOf(S) = 0 ELSE FirstOf(S) \in S
<1>1. CASE S = {}
  BY <1>1 DEF FirstOf
<1>2. CASE S # {}
  <2>1. Slots \in SUBSET Int /\ IsFiniteSet(Slots)
    BY FS_Interval, MaxJobsAssumption DEF Slots
  <2>2. S \in SUBSET Int /\ IsFiniteSet(S)
    BY <2>1, FS_Subset
  <2>3. \E x \in S : \A y \in S : x <= y
    BY <2>2, <1>2, SmallestExists
  <2> QED BY <2>3, <1>2 DEF FirstOf, Sets!Min
<1> QED BY <1>1, <1>2

\* getjobpid returns an entry with the pid asked for, and NULL only if there is none.
LEMMA GetjobpidFinds ==
    ASSUME NEW list, NEW pid
    PROVE  LET s == getjobpid(list, pid)
           IN  \/ s = 0 /\ (pid = 0 \/ \A t \in Slots : list[t].pid # pid)
               \/ s \in Slots /\ pid # 0 /\ list[s].pid = pid
<1> DEFINE S == {s \in Slots : pid # 0 /\ list[s].pid = pid}
<1>1. S \in SUBSET Slots
  OBVIOUS
<1>2. IF S = {} THEN FirstOf(S) = 0 ELSE FirstOf(S) \in S
  <2> HIDE DEF S
  <2> QED BY <1>1, FirstOfFinds
<1>3. getjobpid(list, pid) = FirstOf(S)
  BY DEF getjobpid
<1> QED BY <1>2, <1>3

\* The same for the free entry that addjob takes.
LEMMA FreeslotFinds ==
    ASSUME NEW list
    PROVE  \/ freeslot(list) = 0
           \/ freeslot(list) \in Slots /\ list[freeslot(list)].pid = 0
<1> DEFINE S == {s \in Slots : list[s].pid = 0}
<1>1. S \in SUBSET Slots
  OBVIOUS
<1>2. IF S = {} THEN FirstOf(S) = 0 ELSE FirstOf(S) \in S
  <2> HIDE DEF S
  <2> QED BY <1>1, FirstOfFinds
<1>3. freeslot(list) = FirstOf(S)
  BY DEF freeslot
<1> QED BY <1>2, <1>3

\* getjobjid returns an entry of the list or NULL.
LEMMA GetjobjidType ==
    ASSUME NEW list, NEW jid
    PROVE  getjobjid(list, jid) \in Slots \cup {0}
<1> DEFINE S == {s \in Slots : jid # 0 /\ list[s].jid = jid}
<1>1. S \in SUBSET Slots
  OBVIOUS
<1>2. IF S = {} THEN FirstOf(S) = 0 ELSE FirstOf(S) \in S
  <2> HIDE DEF S
  <2> QED BY <1>1, FirstOfFinds
<1>3. getjobjid(list, jid) = FirstOf(S)
  BY DEF getjobjid
<1> QED BY <1>2, <1>3

\* fgpid returns a pid of the list or 0.
LEMMA FgpidType ==
    ASSUME NEW list \in [Slots -> Job]
    PROVE  fgpid(list) \in Pids \cup {0}
<1> DEFINE S == {s \in Slots : list[s].state = "FG"}
<1>1. S \in SUBSET Slots
  OBVIOUS
<1>2. IF S = {} THEN FirstOf(S) = 0 ELSE FirstOf(S) \in S
  <2> HIDE DEF S
  <2> QED BY <1>1, FirstOfFinds
<1>3. fgpid(list) = IF FirstOf(S) = 0 THEN 0 ELSE list[FirstOf(S)].pid
  BY DEF fgpid
<1> QED BY <1>2, <1>3 DEF Job

\* fgpid returns the pid of an entry that is in the foreground, if there is one.
LEMMA FgpidFinds ==
    ASSUME NEW list
    PROVE  \/ fgpid(list) = 0 /\ \A t \in Slots : list[t].state # "FG"
           \/ \E t \in Slots : list[t].state = "FG" /\ fgpid(list) = list[t].pid
<1> DEFINE S == {s \in Slots : list[s].state = "FG"}
<1>1. S \in SUBSET Slots /\ 0 \notin Slots
  BY DEF Slots
<1>2. IF S = {} THEN FirstOf(S) = 0 ELSE FirstOf(S) \in S
  <2> HIDE DEF S
  <2> QED BY <1>1, FirstOfFinds
<1>3. fgpid(list) = IF FirstOf(S) = 0 THEN 0 ELSE list[FirstOf(S)].pid
  BY DEF fgpid
<1>4. CASE S = {}
  BY <1>2, <1>3, <1>4
<1>5. CASE S # {}
  BY <1>1, <1>2, <1>3, <1>5
<1> QED BY <1>4, <1>5

\* maxjid is the largest of finitely many job ids, so it is one.
LEMMA MaxjidType ==
    ASSUME NEW list \in [Slots -> Job]
    PROVE  maxjid(list) \in Nat
<1> DEFINE f == [s \in Slots |-> list[s].jid]
           T == {list[s].jid : s \in Slots}
           S == {0} \cup T
<1>1. \A s \in Slots : list[s].jid \in Nat
  BY DEF Job
<1>2. f \in Surjection(Slots, T)
  BY DEF Surjection
<1>3. IsFiniteSet(Slots)
  BY FS_Interval, MaxJobsAssumption DEF Slots
<1>4. IsFiniteSet(T)
  <2> HIDE DEF f, T
  <2> QED BY <1>2, <1>3, FS_Surjection
<1>5. IsFiniteSet(S)
  <2> HIDE DEF T
  <2>1. IsFiniteSet(T \cup {0})
    BY <1>4, FS_AddElement
  <2>2. T \cup {0} = S
    OBVIOUS
  <2> QED BY <2>1, <2>2
<1>6. S \in SUBSET Nat /\ S \in SUBSET Int /\ S # {}
  BY <1>1
<1>7. \E x \in S : \A y \in S : y <= x
  <2> HIDE DEF S
  <2> QED BY <1>5, <1>6, LargestExists
<1>8. maxjid(list) = CHOOSE x \in S : \A y \in S : x >= y
  BY DEF maxjid, Sets!Max
<1>9. \E x \in S : \A y \in S : x >= y
  <2> HIDE DEF S
  <2>1. PICK x \in S : \A y \in S : y <= x
    BY <1>7
  <2>2. \A y \in S : x >= y
    BY <2>1, <1>6
  <2> QED BY <2>2
<1>10. maxjid(list) \in S
  <2> HIDE DEF S
  <2> QED BY <1>8, <1>9
<1> QED BY <1>6, <1>10

\* addjob fills an entry that was free with the new job, or changes nothing.
LEMMA AddjobEffect ==
    ASSUME NEW list \in [Slots -> Job], NEW next \in Nat,
           NEW pid \in Pids \cup {0}, NEW state \in {"FG", "BG"}
    PROVE  LET added == addjob(list, next, pid, state)
           IN  /\ added.nextjid \in Nat
               /\ \/ (pid = 0 \/ IsFull(list)) /\ added.jobs = list
                  \/ /\ pid # 0
                     /\ \E s \in Slots :
                           /\ list[s].pid = 0
                           /\ added.jobs = [list EXCEPT ![s] =
                                  [pid |-> pid, jid |-> next, state |-> state]]
<1>1. CASE pid = 0 \/ IsFull(list)
  BY <1>1 DEF addjob
<1>2. CASE ~(pid = 0 \/ IsFull(list))
  <2>1. freeslot(list) \in Slots /\ list[freeslot(list)].pid = 0
    BY <1>2, FreeslotFinds DEF IsFull
  <2>2. (IF next + 1 > MAXJOBS THEN 1 ELSE next + 1) \in Nat
    BY MaxJobsAssumption
  <2> QED BY <1>2, <2>1, <2>2 DEF addjob
<1> QED BY <1>1, <1>2

\* deletejob clears one entry of the job, or changes nothing if it is not listed.
LEMMA DeletejobEffect ==
    ASSUME NEW list \in [Slots -> Job], NEW next \in Nat, NEW pid \in Pids \cup {0}
    PROVE  LET deleted == deletejob(list, next, pid)
           IN  /\ deleted.nextjid \in Nat
               /\ \/ deleted.jobs = list /\ (pid = 0 \/ \A t \in Slots : list[t].pid # pid)
                  \/ \E s \in Slots :
                        /\ pid # 0
                        /\ list[s].pid = pid
                        /\ deleted.jobs = [list EXCEPT ![s] = NoJob]
<1> DEFINE s == getjobpid(list, pid)
           cleared == [list EXCEPT ![s] = NoJob]
<1>1. CASE s = 0
  <2>1. pid = 0 \/ \A t \in Slots : list[t].pid # pid
    BY <1>1, GetjobpidFinds, MaxJobsAssumption DEF Slots
  <2> QED BY <1>1, <2>1 DEF deletejob
<1>2. CASE s # 0
  <2>1. s \in Slots /\ pid # 0 /\ list[s].pid = pid
    <3> HIDE DEF cleared
    <3> QED BY <1>2, GetjobpidFinds
  <2>2. cleared \in [Slots -> Job]
    BY DEF NoJob, Job, JobStates
  <2>3. maxjid(cleared) + 1 \in Nat
    <3> HIDE DEF cleared
    <3> QED BY <2>2, MaxjidType
  <2>4. deletejob(list, next, pid) = [jobs |-> cleared, nextjid |-> maxjid(cleared) + 1]
    BY <1>2 DEF deletejob
  <2>5. \E t \in Slots : /\ pid # 0
                          /\ list[t].pid = pid
                          /\ deletejob(list, next, pid).jobs = [list EXCEPT ![t] = NoJob]
    <3>1. deletejob(list, next, pid).jobs = [list EXCEPT ![s] = NoJob]
      BY <2>4
    <3> HIDE DEF s, cleared
    <3> QED BY <2>1, <3>1
  <2>6. deletejob(list, next, pid).nextjid \in Nat
    <3> HIDE DEF s, cleared
    <3> QED BY <2>3, <2>4
  <2> QED BY <2>5, <2>6
<1> QED BY <1>1, <1>2

----------------------------------------------------------------------------
\* The inductive invariant

\* do_bgfg holds a pointer to an entry from its lookup to its last use of it.
SlotIsHeld ==
    main.pc \in {"takepid", "setstate", "sigcont", "rereadpid"} => main.slot \in Slots

\* The program counters of sigchld_handler.
ReapPcs == {"waitpid", "delete", "stopped"}

\* No handler interrupts itself, only sigchld_handler reaps, and the child it
\* is about to delete is gone.
FramesAreSound ==
    /\ \A i \in DOMAIN stack : stack[i].pc \in ReapPcs <=> stack[i].sig = "CHLD"
    /\ \A i, j \in DOMAIN stack : stack[i].sig = stack[j].sig => i = j
    /\ Alive => \A i \in DOMAIN stack :
            stack[i].pc = "delete" => stack[i].pid \in Pids /\ child[stack[i].pid] = "none"

\* eval's critical section: no handler runs between fork and addjob.
SignalsHeldBack ==
    Alive => /\ masked <=> main.pc \in {"fork", "addjob", "unmask"}
             /\ masked => stack = <<>>

\* The child that addjob is about to list exists and is not listed yet.
NewChildUnlisted ==
    Alive /\ main.pc = "addjob" /\ main.pid # 0 => child[main.pid] # "none" /\ ~Listed(main.pid)

IInv ==
    /\ TypeOK
    /\ SlotIsHeld
    /\ FramesAreSound
    /\ SignalsHeldBack
    /\ NewChildUnlisted
    /\ JobsAreChildren
    /\ ChildrenAreListed

----------------------------------------------------------------------------
\* The stack of handlers

\* Continue changes the frame of the running handler and no other.
LEMMA TopFrameChanged ==
    ASSUME NEW st \in Seq(Frame), st # <<>>,
           NEW pc \in FramePcs, NEW pid \in Pids \cup {0}, NEW slot \in Slots \cup {0}
    PROVE  LET new == [st EXCEPT ![1].pc = pc, ![1].pid = pid, ![1].slot = slot]
           IN  /\ new \in Seq(Frame)
               /\ DOMAIN new = DOMAIN st
               /\ 1 \in DOMAIN st
               /\ new[1] = [sig |-> st[1].sig, pc |-> pc, pid |-> pid, slot |-> slot]
               /\ \A i \in DOMAIN st : i # 1 => new[i] = st[i]
<1> DEFINE new == [st EXCEPT ![1].pc = pc, ![1].pid = pid, ![1].slot = slot]
<1>1. 1 \in DOMAIN st /\ DOMAIN st = 1..Len(st) /\ Len(st) \in Nat
  OBVIOUS
<1>2. st[1] \in Frame
  BY <1>1
<1>3. new[1] = [sig |-> st[1].sig, pc |-> pc, pid |-> pid, slot |-> slot]
  BY <1>1, <1>2 DEF Frame
<1>4. DOMAIN new = DOMAIN st /\ \A i \in DOMAIN st : i # 1 => new[i] = st[i]
  OBVIOUS
<1>5. \A i \in DOMAIN st : new[i] \in Frame
  <2>1. new[1] \in Frame
    BY <1>2, <1>3 DEF Frame
  <2>2. \A i \in DOMAIN st : st[i] \in Frame
    OBVIOUS
  <2> HIDE DEF new
  <2> QED BY <2>1, <2>2, <1>4
<1>6. new \in [1..Len(st) -> Frame]
  <2>1. new = [i \in DOMAIN st |-> new[i]]
    OBVIOUS
  <2> HIDE DEF new
  <2> QED BY <1>1, <1>5, <2>1
<1>7. new \in Seq(Frame)
  <2> HIDE DEF new
  <2> QED BY <1>1, <1>6
<1> QED BY <1>1, <1>3, <1>4, <1>7

\* Return resumes the handler that the running one had interrupted.
LEMMA TopFramePopped ==
    ASSUME NEW st \in Seq(Frame), st # <<>>
    PROVE  /\ Tail(st) \in Seq(Frame)
           /\ 1 \in DOMAIN st
           /\ \A i \in DOMAIN Tail(st) : i + 1 \in DOMAIN st /\ i + 1 # 1 /\ Tail(st)[i] = st[i + 1]
           /\ \A i \in DOMAIN st : i # 1 => i - 1 \in DOMAIN Tail(st) /\ Tail(st)[i - 1] = st[i]
  OBVIOUS

\* Deliver puts a new frame above those of the interrupted handlers.
LEMMA FramePushed ==
    ASSUME NEW st \in Seq(Frame), NEW frame \in Frame
    PROVE  LET new == <<frame>> \o st
           IN  /\ new \in Seq(Frame)
               /\ 1 \in DOMAIN new /\ new[1] = frame
               /\ \A i \in DOMAIN new : i # 1 => i - 1 \in DOMAIN st /\ new[i] = st[i - 1]
               /\ \A i \in DOMAIN st : i + 1 \in DOMAIN new /\ i + 1 # 1 /\ new[i + 1] = st[i]
  OBVIOUS

----------------------------------------------------------------------------
\* The steps of the shell

\* A kill never creates a child and never reaps one.
LEMMA KillEffect ==
    ASSUME TypeOK, NEW pid \in Pids \cup {0}, NEW sig \in Signals \cup {"CONT"}, Kill(pid, sig)
    PROVE  /\ child' \in [Pids -> ChildStates]
           /\ pending' \subseteq Signals /\ pending \subseteq pending'
           /\ \A p \in Pids : child'[p] = "none" <=> child[p] = "none"
           /\ \A p \in Pids : child'[p] = child[p] \/ "CHLD" \in pending'
<1>1. CASE pid = 0
  BY <1>1 DEF TypeOK, Kill
<1>2. CASE pid # 0
  <2>1. pid \in Pids /\ child \in [Pids -> ChildStates]
    BY <1>2 DEF TypeOK
  <2>2. PICK s \in Killed(pid, sig) :
            /\ child' = [child EXCEPT ![pid] = s]
            /\ pending' = IF s = child[pid] THEN pending ELSE pending \cup {"CHLD"}
    BY <1>2 DEF Kill
  <2>3. s \in ChildStates /\ (s = "none" <=> child[pid] = "none")
    BY <2>1, <2>2 DEF Killed, ChildStates
  <2> QED BY <2>1, <2>2, <2>3 DEF TypeOK, Signals
<1> QED BY <1>1, <1>2

\* Writing ST to an entry leaves it to the same job.
LEMMA MarkStoppedEffect ==
    ASSUME TypeOK, NEW slot \in Slots \cup {0}, MarkStopped(slot)
    PROVE  /\ jobs' \in [Slots -> Job]
           /\ \A s \in Slots : jobs'[s].pid = jobs[s].pid
           /\ \A s \in Slots : jobs'[s].state \in {jobs[s].state, "ST"}
<1>1. CASE slot = 0
  BY <1>1 DEF TypeOK, MarkStopped
<1>2. CASE slot # 0
  <2>1. slot \in Slots /\ jobs' = [jobs EXCEPT ![slot].state = "ST"]
    BY <1>2 DEF MarkStopped
  <2> QED BY <2>1 DEF TypeOK, Job, JobStates
<1> QED BY <1>1, <1>2

\* A step that neither adds nor deletes a job, nor forks, nor reaps, leaves the
\* job list and the children in agreement.
LEMMA AgreementKept ==
    ASSUME IInv, Alive, main.pc # "addjob",
           \A s \in Slots : jobs'[s].pid = jobs[s].pid,
           \A p \in Pids : child'[p] = "none" <=> child[p] = "none",
           \A p \in Pids : FrameAt("delete", p) => FrameAt("delete", p)',
           dropped' = dropped
    PROVE  JobsAreChildren' /\ ChildrenAreListed'
<1>1. \A p \in Pids : Listed(p)' <=> Listed(p)
  BY DEF Listed
<1>2. JobsAreChildren'
  <2>1. \A p \in Pids : Listed(p)' => child'[p] # "none" \/ FrameAt("delete", p)'
    BY <1>1 DEF IInv, JobsAreChildren
  <2>2. \A s, t \in Slots : jobs'[s].pid # 0 /\ jobs'[s].pid = jobs'[t].pid => s = t
    BY DEF IInv, JobsAreChildren
  <2> QED BY <2>1, <2>2 DEF JobsAreChildren
<1>3. ChildrenAreListed'
  BY <1>1 DEF IInv, ChildrenAreListed
<1> QED BY <1>2, <1>3

\* Where the shell ends there is nothing left to preserve but the types.
LEMMA EndKeepsIInv ==
    ASSUME IInv, NEW how \in Halted, Ends(how), JobsAreChildren',
           UNCHANGED <<jobs, nextjid, masked, pending, child, dropped, raced>>
    PROVE  IInv'
<1>1. main' \in Main /\ main'.pc = how /\ stack' = <<>>
  BY DEF Ends, AtPrompt, Main, MainPcs, Commands, Halted
<1>2. ~Alive'
  BY <1>1 DEF Alive
<1>3. TypeOK'
  BY <1>1 DEF IInv, TypeOK
<1>4. SlotIsHeld'
  BY <1>1 DEF SlotIsHeld, Halted
<1>5. FramesAreSound' /\ SignalsHeldBack' /\ NewChildUnlisted' /\ ChildrenAreListed'
  BY <1>1, <1>2 DEF FramesAreSound, SignalsHeldBack, NewChildUnlisted, ChildrenAreListed
<1> QED BY <1>3, <1>4, <1>5 DEF IInv

\* What the steps of main have in common that neither fork nor list a job:
\* they run while no handler is active and outside addjob.
LEMMA MainKeepsIInv ==
    ASSUME IInv, Alive, Alive', stack = <<>>, stack' = <<>>, TypeOK', SlotIsHeld',
           masked' <=> main'.pc \in {"fork", "addjob", "unmask"},
           main.pc # "addjob", main'.pc # "addjob",
           \A s \in Slots : jobs'[s].pid = jobs[s].pid,
           \A p \in Pids : child'[p] = "none" <=> child[p] = "none",
           dropped' = dropped
    PROVE  IInv'
<1>1. FramesAreSound' /\ SignalsHeldBack' /\ NewChildUnlisted'
  BY DEF FramesAreSound, SignalsHeldBack, NewChildUnlisted
<1>2. \A p \in Pids : FrameAt("delete", p) => FrameAt("delete", p)'
  BY DEF FrameAt
<1>3. JobsAreChildren' /\ ChildrenAreListed'
  BY <1>2, AgreementKept
<1> QED BY <1>1, <1>3 DEF IInv

\* The steps of main that change main and masked only.
LEMMA ControlKeepsIInv ==
    ASSUME IInv,
           \/ ReadCommand \/ Unmask \/ WaitfgEnter \/ WaitfgReturn
           \/ ReadBgfg \/ TakePid \/ RereadPid
    PROVE  IInv'
<1> USE DEF MainAt, Alive, Halted
<1>1. TypeOK /\ SlotIsHeld /\ SignalsHeldBack
  BY DEF IInv
<1>2. main \in Main /\ jobs \in [Slots -> Job] /\ masked \in BOOLEAN
  BY <1>1 DEF TypeOK
<1>3. UNCHANGED <<jobs, nextjid, stack, pending, child, dropped, raced>> /\ stack = <<>>
  BY DEF ReadCommand, Unmask, WaitfgEnter, WaitfgReturn, ReadBgfg, TakePid, RereadPid
<1>4. ASSUME main' \in Main, SlotIsHeld', main.pc \notin {"addjob", "exited", "crashed"},
             main'.pc \notin {"addjob", "exited", "crashed"}, masked' \in BOOLEAN,
             masked' <=> main'.pc \in {"fork", "addjob", "unmask"}
      PROVE  IInv'
  <2>1. TypeOK'
    BY <1>1, <1>3, <1>4 DEF TypeOK
  <2> QED BY <1>3, <1>4, <2>1, MainKeepsIInv
<1>5. CASE ReadCommand
  <2>1. main' \in Main /\ main'.pc = "fork" /\ masked' = TRUE /\ main.pc = "read"
    BY <1>5 DEF ReadCommand, AtPrompt, Main, MainPcs, Commands
  <2> QED BY <2>1, <1>4 DEF SlotIsHeld
<1>6. CASE Unmask
  <2>1. main' \in Main /\ main'.pc \in {"waitfg", "read"} /\ masked' = FALSE /\ main.pc = "unmask"
    BY <1>2, <1>6 DEF Unmask, AtPrompt, Main, MainPcs, Commands
  <2> QED BY <2>1, <1>4 DEF SlotIsHeld
<1>7. CASE WaitfgEnter \/ WaitfgReturn
  <2>1. /\ main' \in Main /\ main'.pc \in {"poll", "read"} /\ masked' = masked
        /\ main.pc \in {"waitfg", "poll"}
    BY <1>2, <1>7 DEF WaitfgEnter, WaitfgReturn, AtPrompt, Main, MainPcs, Commands
  <2>2. ~masked
    BY <1>1, <2>1 DEF SignalsHeldBack
  <2> QED BY <2>1, <2>2, <1>2, <1>4 DEF SlotIsHeld
<1>8. CASE ReadBgfg
  <2>1. \A s \in Named : s \in Slots
    BY GetjobpidFinds, GetjobjidType DEF Named
  <2>2. /\ main' \in Main /\ main'.pc = "takepid" /\ main'.slot \in Slots
        /\ masked' = masked /\ main.pc = "read"
    BY <2>1, <1>8 DEF ReadBgfg, AtPrompt, Main, MainPcs, Commands
  <2>3. ~masked
    BY <1>1, <2>2 DEF SignalsHeldBack
  <2> QED BY <2>2, <2>3, <1>2, <1>4 DEF SlotIsHeld
<1>9. CASE TakePid
  <2>1. main.slot \in Slots /\ jobs[main.slot].pid \in Pids \cup {0} /\ main.pc = "takepid"
    BY <1>1, <1>2, <1>9 DEF TakePid, SlotIsHeld, Job
  <2>2. /\ main' \in Main /\ main'.pc = "setstate" /\ main'.slot = main.slot
        /\ masked' = masked
    BY <2>1, <1>2, <1>9 DEF TakePid, Main, MainPcs
  <2>3. ~masked
    BY <1>1, <2>1 DEF SignalsHeldBack
  <2> QED BY <2>1, <2>2, <2>3, <1>2, <1>4 DEF SlotIsHeld
<1>10. CASE RereadPid
  <2>1. main.slot \in Slots /\ jobs[main.slot].pid \in Pids \cup {0} /\ main.pc = "rereadpid"
    BY <1>1, <1>2, <1>10 DEF RereadPid, SlotIsHeld, Job
  <2>2. main' \in Main /\ main'.pc = "waitfg" /\ masked' = masked
    BY <2>1, <1>2, <1>10 DEF RereadPid, Main, MainPcs
  <2>3. ~masked
    BY <1>1, <2>1 DEF SignalsHeldBack
  <2> QED BY <2>1, <2>2, <2>3, <1>2, <1>4 DEF SlotIsHeld
<1> QED BY <1>5, <1>6, <1>7, <1>8, <1>9, <1>10

\* fork makes a child that no entry belongs to: what the list held of an
\* earlier process of that number was deleted before it could be forked again.
LEMMA ForkKeepsIInv ==
    ASSUME IInv, Fork
    PROVE  IInv'
<1>1. /\ TypeOK /\ SignalsHeldBack /\ JobsAreChildren /\ ChildrenAreListed
      /\ main \in Main /\ child \in [Pids -> ChildStates]
  BY DEF IInv, TypeOK
<1>2. /\ Alive /\ main.pc = "fork" /\ stack = <<>>
      /\ UNCHANGED <<jobs, nextjid, stack, masked, pending, dropped, raced>>
  BY DEF Fork, MainAt, Alive, Halted
<1>3. main' \in Main /\ main'.pc = "addjob" /\ child' \in [Pids -> ChildStates]
  BY <1>1 DEF Fork, Main, MainPcs, ChildStates
<1>4. TypeOK' /\ SlotIsHeld' /\ FramesAreSound'
  BY <1>1, <1>2, <1>3 DEF TypeOK, SlotIsHeld, FramesAreSound
<1>5. SignalsHeldBack'
  BY <1>1, <1>2, <1>3 DEF SignalsHeldBack, Alive, Halted
<1>6. \A p \in Pids : Listed(p) => child[p] # "none"
  BY <1>1, <1>2 DEF JobsAreChildren, FrameAt
<1>7. \A p \in Pids : \/ child'[p] = child[p]
                      \/ main'.pid = p /\ child[p] = "none" /\ child'[p] = "forked"
  BY <1>1 DEF Fork, Main
<1>8. \A p \in Pids : Listed(p)' <=> Listed(p)
  BY <1>2 DEF Listed
<1>9. JobsAreChildren'
  <2>1. \A p \in Pids : Listed(p)' => child'[p] # "none"
    BY <1>6, <1>7, <1>8
  <2> QED BY <1>1, <1>2, <2>1 DEF JobsAreChildren
<1>10. ChildrenAreListed'
  BY <1>1, <1>2, <1>3, <1>7, <1>8 DEF ChildrenAreListed
<1>11. NewChildUnlisted'
  <2> SUFFICES ASSUME main'.pid # 0
               PROVE  child'[main'.pid] # "none" /\ ~Listed(main.pid)'
    BY DEF NewChildUnlisted, Listed
  <2>1. PICK p \in Pids :
            child[p] = "none" /\ main'.pid = p /\ child' = [child EXCEPT ![p] = "forked"]
    BY <1>1 DEF Fork, Main
  <2>2. child'[p] # "none" /\ ~Listed(p)
    BY <1>1, <1>6, <2>1
  <2> QED BY <1>2, <2>1, <2>2 DEF Listed
<1> QED BY <1>4, <1>5, <1>9, <1>10, <1>11 DEF IInv

\* addjob lists the new child once; if the table is full it is remembered as dropped.
LEMMA AddJobKeepsIInv ==
    ASSUME IInv, AddJob
    PROVE  IInv'
<1> DEFINE state == IF main.cmd = "fg" THEN "FG" ELSE "BG"
           added == addjob(jobs, nextjid, main.pid, state)
<1>1. /\ TypeOK /\ SignalsHeldBack /\ JobsAreChildren /\ ChildrenAreListed /\ NewChildUnlisted
      /\ main \in Main /\ main.pid \in Pids \cup {0}
      /\ jobs \in [Slots -> Job] /\ nextjid \in Nat /\ dropped \subseteq Pids
  BY DEF IInv, TypeOK, Main
<1>2. /\ Alive /\ main.pc = "addjob" /\ stack = <<>> /\ masked
      /\ UNCHANGED <<stack, masked, pending, child, raced>>
  BY <1>1 DEF AddJob, MainAt, Alive, Halted, SignalsHeldBack
<1>3. main' = [main EXCEPT !.pc = "unmask"] /\ jobs' = added.jobs /\ nextjid' = added.nextjid
  BY DEF AddJob
<1>4. main' \in Main /\ main'.pc = "unmask" /\ main'.pid = main.pid
  BY <1>1, <1>3 DEF Main, MainPcs
<1>5. /\ nextjid' \in Nat
      /\ \/ (main.pid = 0 \/ IsFull(jobs)) /\ jobs' = jobs
         \/ /\ main.pid # 0
            /\ \E s \in Slots :
                  /\ jobs[s].pid = 0
                  /\ jobs' = [jobs EXCEPT ![s] =
                         [pid |-> main.pid, jid |-> nextjid, state |-> state]]
  <2>1. state \in {"FG", "BG"}
    OBVIOUS
  <2> HIDE DEF state
  <2>2. /\ added.nextjid \in Nat
        /\ \/ (main.pid = 0 \/ IsFull(jobs)) /\ added.jobs = jobs
           \/ /\ main.pid # 0
              /\ \E s \in Slots :
                    /\ jobs[s].pid = 0
                    /\ added.jobs = [jobs EXCEPT ![s] =
                           [pid |-> main.pid, jid |-> nextjid, state |-> state]]
    BY <1>1, <2>1, AddjobEffect
  <2> HIDE DEF added
  <2> QED BY <1>3, <2>2
<1> HIDE DEF added
<1>6. dropped' \subseteq Pids /\ dropped \subseteq dropped'
      /\ (IsFull(jobs) /\ main.pid # 0 => main.pid \in dropped')
  BY <1>1 DEF AddJob
<1>7. jobs' \in [Slots -> Job]
  BY <1>1, <1>5 DEF Job, JobStates
<1>8. TypeOK' /\ SlotIsHeld' /\ FramesAreSound' /\ SignalsHeldBack' /\ NewChildUnlisted'
  BY <1>1, <1>2, <1>4, <1>5, <1>6, <1>7
     DEF TypeOK, SlotIsHeld, FramesAreSound, SignalsHeldBack, NewChildUnlisted
<1>9. \A p \in Pids : Listed(p) => child[p] # "none"
  BY <1>1, <1>2 DEF JobsAreChildren, FrameAt
<1>10. CASE (main.pid = 0 \/ IsFull(jobs)) /\ jobs' = jobs
  <2>1. \A p \in Pids : Listed(p)' <=> Listed(p)
    BY <1>10 DEF Listed
  <2>2. JobsAreChildren'
    BY <1>1, <1>2, <1>9, <1>10, <2>1 DEF JobsAreChildren
  <2>3. ChildrenAreListed'
    <3> SUFFICES ASSUME NEW p \in Pids, child[p] # "none"
                 PROVE  Listed(p)' \/ p \in dropped'
      BY <1>2 DEF ChildrenAreListed
    <3>1. Listed(p) \/ p \in dropped \/ main.pid = p
      BY <1>1, <1>2 DEF ChildrenAreListed
    <3>2. p # 0
      BY PidsAssumption
    <3> QED BY <1>6, <1>10, <2>1, <3>1, <3>2
  <2> QED BY <1>8, <2>2, <2>3 DEF IInv
<1>11. ASSUME main.pid # 0, NEW s \in Slots, jobs[s].pid = 0,
              jobs' = [jobs EXCEPT ![s] = [pid |-> main.pid, jid |-> nextjid, state |-> state]]
       PROVE  IInv'
  <2>1. jobs'[s].pid = main.pid /\ \A t \in Slots : t # s => jobs'[t] = jobs[t]
    BY <1>1, <1>11
  <2>2. main.pid \in Pids /\ child[main.pid] # "none" /\ ~Listed(main.pid)
    BY <1>1, <1>2, <1>11 DEF NewChildUnlisted
  <2>3. \A p \in Pids : Listed(p)' <=> Listed(p) \/ p = main.pid
    <3>1. \A p \in Pids : jobs[s].pid # p
      BY <1>11, PidsAssumption
    <3> QED BY <2>1, <3>1 DEF Listed
  <2>4. \A t, u \in Slots : jobs'[t].pid # 0 /\ jobs'[t].pid = jobs'[u].pid => t = u
    BY <1>1, <2>1, <2>2 DEF JobsAreChildren, Listed
  <2>5. JobsAreChildren'
    BY <1>2, <1>9, <2>2, <2>3, <2>4 DEF JobsAreChildren
  <2>6. ChildrenAreListed'
    BY <1>1, <1>2, <1>6, <2>3 DEF ChildrenAreListed
  <2> QED BY <1>8, <2>5, <2>6 DEF IInv
<1> QED BY <1>5, <1>10, <1>11

\* do_bgfg's own steps: the write through job_1 and the kill.
LEMMA ResumeKeepsIInv ==
    ASSUME IInv, SetState \/ SendCont
    PROVE  IInv'
<1>1. /\ TypeOK /\ SlotIsHeld /\ SignalsHeldBack
      /\ main \in Main /\ main.pid \in Pids \cup {0} /\ jobs \in [Slots -> Job]
  BY DEF IInv, TypeOK, Main
<1>2. /\ Alive /\ main.pc \in {"setstate", "sigcont"} /\ stack = <<>>
      /\ UNCHANGED <<nextjid, stack, masked, dropped>>
  BY DEF SetState, SendCont, MainAt, Alive, Halted
<1>3. ~masked /\ main.slot \in Slots
  BY <1>1, <1>2 DEF SignalsHeldBack, SlotIsHeld
<1>4. /\ main' \in Main /\ main'.pc \in {"sigcont", "rereadpid", "read"}
      /\ main'.pc # "read" => main'.slot = main.slot
  BY <1>1 DEF SetState, SendCont, Main, MainPcs, AtPrompt, Commands
<1>5. Alive' /\ SlotIsHeld'
  BY <1>3, <1>4 DEF Alive, Halted, SlotIsHeld
<1>6. CASE SetState
  <2>1. jobs' \in [Slots -> Job] /\ \A s \in Slots : jobs'[s].pid = jobs[s].pid
    BY <1>1, <1>3, <1>6 DEF SetState, Job, JobStates
  <2>2. raced' \in BOOLEAN /\ UNCHANGED <<pending, child>>
    BY <1>6 DEF SetState
  <2>3. TypeOK'
    BY <1>1, <1>2, <1>4, <2>1, <2>2 DEF TypeOK
  <2> QED BY <1>2, <1>3, <1>4, <1>5, <2>1, <2>2, <2>3, MainKeepsIInv
<1>7. CASE SendCont
  <2>1. Kill(main.pid, "CONT") /\ UNCHANGED <<jobs, raced>>
    BY <1>7 DEF SendCont
  <2>2. /\ child' \in [Pids -> ChildStates] /\ pending' \subseteq Signals
        /\ \A p \in Pids : child'[p] = "none" <=> child[p] = "none"
    BY <1>1, <2>1, KillEffect
  <2>3. TypeOK'
    BY <1>1, <1>2, <1>4, <2>1, <2>2 DEF TypeOK
  <2> QED BY <1>2, <1>3, <1>4, <1>5, <2>1, <2>2, <2>3, MainKeepsIInv
<1> QED BY <1>6, <1>7

----------------------------------------------------------------------------
\* The steps of the handlers

\* The running handler moves on: every other frame stays as it is.
LEMMA ContinueKeepsFrames ==
    ASSUME IInv, Alive, stack # <<>>, NEW pc \in FramePcs, NEW pid \in Pids \cup {0},
           NEW slot \in Slots \cup {0}, Continue(pc, pid, slot), pc \in ReapPcs <=> stack[1].sig = "CHLD",
           pc = "delete" => pid \in Pids /\ child'[pid] = "none",
           \A p \in Pids : child[p] = "none" => child'[p] = "none"
    PROVE  /\ stack' \in Seq(Frame)
           /\ stack' # <<>>
           /\ FramesAreSound'
           /\ \A p \in Pids : FrameAt("delete", p) /\ (stack[1].pc = "delete" => stack[1].pid # p)
                              => FrameAt("delete", p)'
<1>1. stack \in Seq(Frame) /\ FramesAreSound
  BY DEF IInv, TypeOK
<1>2. stack' = [stack EXCEPT ![1].pc = pc, ![1].pid = pid, ![1].slot = slot]
  BY DEF Continue
<1>3. /\ stack' \in Seq(Frame)
      /\ DOMAIN stack' = DOMAIN stack
      /\ 1 \in DOMAIN stack
      /\ stack'[1] = [sig |-> stack[1].sig, pc |-> pc, pid |-> pid, slot |-> slot]
      /\ \A i \in DOMAIN stack : i # 1 => stack'[i] = stack[i]
  <2>1. \A st \in Seq(Frame) : st # <<>> =>
            LET new == [st EXCEPT ![1].pc = pc, ![1].pid = pid, ![1].slot = slot]
            IN  /\ new \in Seq(Frame)
                /\ DOMAIN new = DOMAIN st
                /\ 1 \in DOMAIN st
                /\ new[1] = [sig |-> st[1].sig, pc |-> pc, pid |-> pid, slot |-> slot]
                /\ \A i \in DOMAIN st : i # 1 => new[i] = st[i]
    BY TopFrameChanged, Zenon
  <2> QED BY <1>1, <1>2, <2>1, Zenon
<1>4. FramesAreSound'
  <2>1. \A i \in DOMAIN stack' : stack'[i].pc \in ReapPcs <=> stack'[i].sig = "CHLD"
    BY <1>1, <1>3 DEF FramesAreSound
  <2>2. \A i \in DOMAIN stack' : stack'[i].sig = stack[i].sig
    BY <1>3
  <2>3. \A i, j \in DOMAIN stack' : stack'[i].sig = stack'[j].sig => i = j
    BY <1>1, <1>3, <2>2 DEF FramesAreSound
  <2>4. \A i \in DOMAIN stack' :
            stack'[i].pc = "delete" => stack'[i].pid \in Pids /\ child'[stack'[i].pid] = "none"
    <3> SUFFICES ASSUME NEW i \in DOMAIN stack, stack'[i].pc = "delete"
                 PROVE  stack'[i].pid \in Pids /\ child'[stack'[i].pid] = "none"
      BY <1>3
    <3>1. CASE i = 1
      BY <1>3, <3>1
    <3>2. CASE i # 1
      BY <1>1, <1>3, <3>2 DEF FramesAreSound
    <3> QED BY <3>1, <3>2
  <2> QED BY <2>1, <2>3, <2>4 DEF FramesAreSound
<1>5. \A p \in Pids : FrameAt("delete", p) /\ (stack[1].pc = "delete" => stack[1].pid # p)
                     => FrameAt("delete", p)'
  BY <1>3 DEF FrameAt
<1> QED BY <1>1, <1>3, <1>4, <1>5

\* The running handler returns: the frames below it stay as they are.
LEMMA ReturnKeepsFrames ==
    ASSUME IInv, Alive, stack # <<>>, Return,
           \A p \in Pids : child[p] = "none" => child'[p] = "none"
    PROVE  /\ stack' \in Seq(Frame)
           /\ FramesAreSound'
           /\ \A p \in Pids : FrameAt("delete", p) /\ (stack[1].pc = "delete" => stack[1].pid # p)
                              => FrameAt("delete", p)'
<1>1. stack \in Seq(Frame) /\ FramesAreSound
  BY DEF IInv, TypeOK
<1>2. stack' = Tail(stack)
  BY DEF Return
<1>3. /\ stack' \in Seq(Frame)
      /\ 1 \in DOMAIN stack
      /\ \A i \in DOMAIN stack' : i + 1 \in DOMAIN stack /\ i + 1 # 1 /\ stack'[i] = stack[i + 1]
      /\ \A i \in DOMAIN stack : i # 1 => i - 1 \in DOMAIN stack' /\ stack'[i - 1] = stack[i]
  BY <1>1, <1>2, TopFramePopped
<1>4. FramesAreSound'
  <2>1. \A i \in DOMAIN stack' : stack'[i].pc \in ReapPcs <=> stack'[i].sig = "CHLD"
    BY <1>1, <1>3 DEF FramesAreSound
  <2>2. \A i, j \in DOMAIN stack' : stack'[i].sig = stack'[j].sig => i = j
    <3> SUFFICES ASSUME NEW i \in DOMAIN stack', NEW j \in DOMAIN stack',
                        stack'[i].sig = stack'[j].sig
                 PROVE  i = j
      OBVIOUS
    <3>1. i + 1 = j + 1
      <4>1. /\ i + 1 \in DOMAIN stack /\ j + 1 \in DOMAIN stack
            /\ stack[i + 1].sig = stack[j + 1].sig
        BY <1>3
      <4>2. \A k, m \in DOMAIN stack : stack[k].sig = stack[m].sig => k = m
        BY <1>1 DEF FramesAreSound
      <4> QED BY <4>1, <4>2
    <3>2. i \in Int /\ j \in Int
      BY <1>3
    <3> QED BY <3>1, <3>2
  <2>3. \A i \in DOMAIN stack' :
            stack'[i].pc = "delete" => stack'[i].pid \in Pids /\ child'[stack'[i].pid] = "none"
    <3> SUFFICES ASSUME NEW i \in DOMAIN stack', stack'[i].pc = "delete"
                 PROVE  stack'[i].pid \in Pids /\ child'[stack'[i].pid] = "none"
      OBVIOUS
    <3>1. i + 1 \in DOMAIN stack /\ stack'[i] = stack[i + 1]
      BY <1>3
    <3>2. stack'[i].pid \in Pids /\ child[stack'[i].pid] = "none"
      BY <1>1, <3>1 DEF FramesAreSound
    <3> QED BY <3>2
  <2> QED BY <2>1, <2>2, <2>3 DEF FramesAreSound
<1>5. \A p \in Pids : FrameAt("delete", p) /\ (stack[1].pc = "delete" => stack[1].pid # p)
                     => FrameAt("delete", p)'
  BY <1>3 DEF FrameAt
<1> QED BY <1>3, <1>4, <1>5

\* A handler runs outside eval's critical section, and does not move main.
LEMMA HandlerKeepsIInv ==
    ASSUME IInv, Alive, stack # <<>>, UNCHANGED <<main, masked>>,
           TypeOK', FramesAreSound', JobsAreChildren', ChildrenAreListed'
    PROVE  IInv'
<1>1. ~masked /\ main.pc \notin {"fork", "addjob", "unmask"}
  BY DEF IInv, SignalsHeldBack
<1>2. SlotIsHeld'
  BY DEF IInv, SlotIsHeld
<1>3. SignalsHeldBack' /\ NewChildUnlisted'
  BY <1>1 DEF SignalsHeldBack, NewChildUnlisted, Alive
<1> QED BY <1>2, <1>3 DEF IInv

\* What the handlers have in common that neither reap nor delete.
LEMMA HandlerKeepsAgreement ==
    ASSUME IInv, Alive, stack # <<>>, stack[1].pc # "delete",
           UNCHANGED <<main, masked, dropped, raced>>,
           jobs' \in [Slots -> Job], nextjid' \in Nat,
           child' \in [Pids -> ChildStates], pending' \subseteq Signals,
           \A s \in Slots : jobs'[s].pid = jobs[s].pid,
           \A p \in Pids : child'[p] = "none" <=> child[p] = "none",
           \/ Return
           \/ \E pc \in FramePcs \ {"delete"}, pid \in Pids \cup {0}, slot \in Slots \cup {0} :
                  Continue(pc, pid, slot) /\ (pc \in ReapPcs <=> stack[1].sig = "CHLD")
    PROVE  IInv'
<1>1. /\ stack' \in Seq(Frame)
      /\ FramesAreSound'
      /\ \A p \in Pids : FrameAt("delete", p) => FrameAt("delete", p)'
  <2>1. CASE Return
    BY <2>1, ReturnKeepsFrames
  <2>2. ASSUME NEW pc \in FramePcs \ {"delete"}, NEW pid \in Pids \cup {0},
               NEW slot \in Slots \cup {0}, Continue(pc, pid, slot), pc \in ReapPcs <=> stack[1].sig = "CHLD"
        PROVE  /\ stack' \in Seq(Frame)
               /\ FramesAreSound'
               /\ \A p \in Pids : FrameAt("delete", p) => FrameAt("delete", p)'
    BY <2>2, ContinueKeepsFrames
  <2> QED BY <2>1, <2>2
<1>2. TypeOK'
  BY <1>1 DEF IInv, TypeOK
<1>3. main.pc # "addjob"
  BY DEF IInv, SignalsHeldBack
<1>4. JobsAreChildren' /\ ChildrenAreListed'
  BY <1>1, <1>3, AgreementKept
<1> QED BY <1>1, <1>2, <1>4, HandlerKeepsIInv

\* sigint_handler and sigtstp_handler.
LEMMA KeyboardHandlersKeepIInv ==
    ASSUME IInv, LookFg("INT") \/ LookFg("TSTP") \/ IntKill \/ TstpKill \/ TstpLookup \/ TstpMark
    PROVE  IInv'
<1>1. /\ TypeOK /\ JobsAreChildren /\ jobs \in [Slots -> Job] /\ nextjid \in Nat
      /\ child \in [Pids -> ChildStates] /\ pending \subseteq Signals
      /\ stack \in Seq(Frame)
  BY DEF IInv, TypeOK
<1>2. Alive /\ stack # <<>> /\ stack[1].pc \in {"fgpid", "kill", "lookup", "mark"}
  BY DEF LookFg, IntKill, TstpKill, TstpLookup, TstpMark, HandlerAt
<1>3. stack[1].pid \in Pids \cup {0} /\ stack[1].slot \in Slots \cup {0} /\ stack[1].sig # "CHLD"
  <2>1. 1 \in DOMAIN stack /\ stack[1] \in Frame
    BY <1>1, <1>2
  <2> QED BY <1>2, <2>1 DEF IInv, FramesAreSound, ReapPcs, Frame
<1>4. CASE LookFg("INT") \/ LookFg("TSTP")
  <2>1. fgpid(jobs) \in Pids \cup {0}
    BY <1>1, FgpidType
  <2>2. Continue("kill", fgpid(jobs), 0) /\ UNCHANGED <<jobs, nextjid, main, masked, pending, child, dropped, raced>>
    BY <1>4 DEF LookFg
  <2>3. "kill" \in FramePcs \ {"delete"} /\ "kill" \notin ReapPcs
    BY DEF FramePcs, ReapPcs
  <2> QED BY <1>1, <1>2, <1>3, <2>1, <2>2, <2>3, HandlerKeepsAgreement
<1>5. CASE IntKill
  <2>1. Kill(stack[1].pid, "INT") /\ Return /\ UNCHANGED <<jobs, nextjid, main, masked, dropped, raced>>
    BY <1>5 DEF IntKill
  <2>2. /\ child' \in [Pids -> ChildStates] /\ pending' \subseteq Signals
        /\ \A p \in Pids : child'[p] = "none" <=> child[p] = "none"
    BY <1>1, <1>3, <2>1, KillEffect DEF Signals
  <2> QED BY <1>1, <1>2, <2>1, <2>2, HandlerKeepsAgreement
<1>6. CASE TstpKill
  <2>1. /\ Kill(stack[1].pid, "TSTP") /\ Continue("lookup", stack[1].pid, 0)
        /\ UNCHANGED <<jobs, nextjid, main, masked, dropped, raced>>
    BY <1>6 DEF TstpKill
  <2>2. /\ child' \in [Pids -> ChildStates] /\ pending' \subseteq Signals
        /\ \A p \in Pids : child'[p] = "none" <=> child[p] = "none"
    BY <1>1, <1>3, <2>1, KillEffect DEF Signals
  <2>3. "lookup" \in FramePcs \ {"delete"} /\ "lookup" \notin ReapPcs
    BY DEF FramePcs, ReapPcs
  <2> QED BY <1>1, <1>2, <1>3, <2>1, <2>2, <2>3, HandlerKeepsAgreement
<1>7. CASE TstpLookup
  <2>1. getjobpid(jobs, stack[1].pid) \in Slots \cup {0}
    BY GetjobpidFinds
  <2>2. /\ Continue("mark", stack[1].pid, getjobpid(jobs, stack[1].pid))
        /\ UNCHANGED <<jobs, nextjid, main, masked, pending, child, dropped, raced>>
    BY <1>7 DEF TstpLookup
  <2>3. "mark" \in FramePcs \ {"delete"} /\ "mark" \notin ReapPcs
    BY DEF FramePcs, ReapPcs
  <2> QED BY <1>1, <1>2, <1>3, <2>1, <2>2, <2>3, HandlerKeepsAgreement
<1>8. CASE TstpMark
  <2>1. MarkStopped(stack[1].slot) /\ UNCHANGED <<nextjid, masked, pending, child, dropped, raced>>
    BY <1>8 DEF TstpMark
  <2>2. CASE stack[1].slot = 0
    <3>1. Ends("crashed") /\ UNCHANGED jobs
      BY <1>8, <2>1, <2>2 DEF TstpMark, MarkStopped
    <3>2. JobsAreChildren'
      BY <1>1, <3>1 DEF JobsAreChildren, Ends, Alive, AtPrompt, Halted
    <3>3. "crashed" \in Halted
      BY DEF Halted
    <3> QED BY <2>1, <3>1, <3>2, <3>3, EndKeepsIInv
  <2>3. CASE stack[1].slot # 0
    <3>1. Return /\ UNCHANGED main
      BY <1>8, <2>3 DEF TstpMark
    <3>2. jobs' \in [Slots -> Job] /\ \A s \in Slots : jobs'[s].pid = jobs[s].pid
      BY <1>1, <1>3, <2>1, MarkStoppedEffect
    <3> QED BY <1>1, <1>2, <2>1, <3>1, <3>2, HandlerKeepsAgreement
  <2> QED BY <2>2, <2>3
<1> QED BY <1>4, <1>5, <1>6, <1>7, <1>8

\* waitpid: the child it reaps is gone, and its entry is about to be deleted.
LEMMA WaitpidKeepsIInv ==
    ASSUME IInv, Waitpid
    PROVE  IInv'
<1>1. /\ TypeOK /\ JobsAreChildren /\ ChildrenAreListed /\ jobs \in [Slots -> Job]
      /\ nextjid \in Nat /\ child \in [Pids -> ChildStates] /\ pending \subseteq Signals
      /\ dropped \subseteq Pids
  BY DEF IInv, TypeOK
<1>2. /\ Alive /\ stack # <<>> /\ stack[1].pc = "waitpid" /\ stack[1].sig = "CHLD"
      /\ UNCHANGED <<jobs, nextjid, main, masked, pending, raced>>
  BY DEF Waitpid, HandlerAt
<1>3. main.pc # "addjob"
  BY <1>2 DEF IInv, SignalsHeldBack
<1>4. ASSUME NEW p \in Pids, child[p] = "zombie", child' = [child EXCEPT ![p] = "none"],
             dropped' = dropped \ {p}, Continue("delete", p, 0)
      PROVE  IInv'
  <2>1. "delete" \in FramePcs /\ "delete" \in ReapPcs
    BY DEF FramePcs, ReapPcs
  <2>2. /\ child' \in [Pids -> ChildStates] /\ child'[p] = "none"
        /\ \A q \in Pids : q # p => child'[q] = child[q]
    BY <1>1, <1>4 DEF ChildStates
  <2>3. /\ stack' \in Seq(Frame) /\ stack' # <<>> /\ FramesAreSound'
        /\ \A q \in Pids : FrameAt("delete", q) => FrameAt("delete", q)'
    BY <1>2, <1>4, <2>1, <2>2, ContinueKeepsFrames
  <2>4. FrameAt("delete", p)'
    <3>1. stack' = [stack EXCEPT ![1].pc = "delete", ![1].pid = p, ![1].slot = 0]
      BY <1>4 DEF Continue
    <3>2. stack \in Seq(Frame) /\ 1 \in DOMAIN stack /\ stack[1] \in Frame
      BY <1>1, <1>2 DEF TypeOK
    <3>3. 1 \in DOMAIN stack' /\ stack'[1].pc = "delete" /\ stack'[1].pid = p
      BY <3>1, <3>2 DEF Frame
    <3> QED BY <3>3 DEF FrameAt
  <2>5. \A q \in Pids : Listed(q)' <=> Listed(q)
    BY <1>2 DEF Listed
  <2>6. JobsAreChildren'
    <3>1. \A q \in Pids : Listed(q)' => child'[q] # "none" \/ FrameAt("delete", q)'
      BY <1>1, <1>2, <2>2, <2>3, <2>4, <2>5 DEF JobsAreChildren
    <3>2. \A s, t \in Slots : jobs'[s].pid # 0 /\ jobs'[s].pid = jobs'[t].pid => s = t
      BY <1>1, <1>2 DEF JobsAreChildren
    <3> QED BY <3>1, <3>2 DEF JobsAreChildren
  <2>7. ChildrenAreListed'
    <3> SUFFICES ASSUME NEW q \in Pids, child'[q] # "none"
                 PROVE  Listed(q)' \/ q \in dropped'
      BY DEF ChildrenAreListed
    <3>1. q # p /\ child[q] # "none"
      BY <2>2
    <3>2. Listed(q) \/ q \in dropped
      BY <1>1, <1>2, <1>3, <3>1 DEF ChildrenAreListed
    <3> QED BY <1>4, <2>5, <3>1, <3>2
  <2>8. TypeOK'
    BY <1>1, <1>2, <1>4, <2>2, <2>3 DEF TypeOK
  <2> QED BY <1>2, <2>3, <2>6, <2>7, <2>8, HandlerKeepsIInv
<1>5. ASSUME NEW p \in Pids, child[p] = "unreported", child' = [child EXCEPT ![p] = "stopped"],
             dropped' = dropped, Continue("stopped", p, 0)
      PROVE  IInv'
  <2>1. "stopped" \in FramePcs \ {"delete"} /\ "stopped" \in ReapPcs
    BY DEF FramePcs, ReapPcs
  <2>2. /\ child' \in [Pids -> ChildStates]
        /\ \A q \in Pids : child'[q] = "none" <=> child[q] = "none"
    BY <1>1, <1>5 DEF ChildStates
  <2> QED BY <1>1, <1>2, <1>5, <2>1, <2>2, HandlerKeepsAgreement
<1>6. CASE Return /\ UNCHANGED <<child, dropped>>
  BY <1>1, <1>2, <1>6, HandlerKeepsAgreement
<1> QED BY <1>4, <1>5, <1>6 DEF Waitpid

\* deletejob removes the only entry of the child that was reaped.
LEMMA ChldDeleteKeepsIInv ==
    ASSUME IInv, ChldDelete
    PROVE  IInv'
<1> DEFINE p == stack[1].pid
           deleted == deletejob(jobs, nextjid, p)
<1>1. /\ TypeOK /\ JobsAreChildren /\ ChildrenAreListed /\ jobs \in [Slots -> Job]
      /\ nextjid \in Nat /\ stack \in Seq(Frame)
  BY DEF IInv, TypeOK
<1>2. /\ Alive /\ stack # <<>> /\ stack[1].pc = "delete" /\ stack[1].sig = "CHLD"
      /\ UNCHANGED <<main, masked, pending, child, dropped, raced>>
      /\ Continue("waitpid", 0, 0)
  BY DEF ChldDelete, HandlerAt
<1>3. main.pc # "addjob"
  BY <1>2 DEF IInv, SignalsHeldBack
<1>4. p \in Pids /\ child[p] = "none"
  <2>1. 1 \in DOMAIN stack
    BY <1>1, <1>2
  <2> QED BY <1>2, <2>1 DEF IInv, FramesAreSound
<1>5. jobs' = deleted.jobs /\ nextjid' = deleted.nextjid
  BY DEF ChldDelete
<1>6. /\ nextjid' \in Nat
      /\ \/ jobs' = jobs /\ \A t \in Slots : jobs[t].pid # p
         \/ \E s \in Slots : jobs[s].pid = p /\ jobs' = [jobs EXCEPT ![s] = NoJob]
  <2> HIDE DEF p
  <2>1. p # 0
    BY <1>4, PidsAssumption
  <2>2. \A q \in Pids \cup {0} :
            LET d == deletejob(jobs, nextjid, q)
            IN  /\ d.nextjid \in Nat
                /\ \/ d.jobs = jobs /\ (q = 0 \/ \A t \in Slots : jobs[t].pid # q)
                   \/ \E s \in Slots :
                         /\ q # 0
                         /\ jobs[s].pid = q
                         /\ d.jobs = [jobs EXCEPT ![s] = NoJob]
    BY <1>1, DeletejobEffect
  <2>3. /\ deleted.nextjid \in Nat
        /\ \/ deleted.jobs = jobs /\ \A t \in Slots : jobs[t].pid # p
           \/ \E s \in Slots : jobs[s].pid = p /\ deleted.jobs = [jobs EXCEPT ![s] = NoJob]
    BY <1>4, <2>1, <2>2
  <2> HIDE DEF deleted
  <2> QED BY <1>5, <2>3
<1>7. /\ jobs' \in [Slots -> Job]
      /\ \A t \in Slots : jobs'[t].pid = IF jobs[t].pid = p THEN 0 ELSE jobs[t].pid
  <2> HIDE DEF p, deleted
  <2>1. CASE jobs' = jobs /\ \A t \in Slots : jobs[t].pid # p
    BY <1>1, <2>1
  <2>2. ASSUME NEW s \in Slots, jobs[s].pid = p, jobs' = [jobs EXCEPT ![s] = NoJob]
        PROVE  /\ jobs' \in [Slots -> Job]
               /\ \A t \in Slots : jobs'[t].pid = IF jobs[t].pid = p THEN 0 ELSE jobs[t].pid
    <3>1. NoJob \in Job /\ NoJob.pid = 0
      BY DEF NoJob, Job, JobStates
    <3>2. jobs'[s] = NoJob /\ \A t \in Slots : t # s => jobs'[t] = jobs[t]
      BY <1>1, <2>2
    <3>3. \A t \in Slots : jobs[t].pid = p => t = s
      BY <1>1, <1>4, <2>2, PidsAssumption DEF JobsAreChildren
    <3>4. \A t \in Slots : jobs'[t].pid = IF jobs[t].pid = p THEN 0 ELSE jobs[t].pid
      BY <2>2, <3>1, <3>2, <3>3
    <3>5. jobs' \in [Slots -> Job]
      BY <1>1, <2>2, <3>1
    <3> QED BY <3>4, <3>5
  <2> QED BY <1>6, <2>1, <2>2
<1>8. /\ stack' \in Seq(Frame)
      /\ FramesAreSound'
      /\ \A q \in Pids : FrameAt("delete", q) /\ q # p => FrameAt("delete", q)'
  <2>1. "waitpid" \in FramePcs /\ "waitpid" \in ReapPcs
    BY DEF FramePcs, ReapPcs
  <2> QED BY <1>2, <2>1, ContinueKeepsFrames
<1>9. \A q \in Pids : Listed(q)' <=> Listed(q) /\ q # p
  <2> HIDE DEF p
  <2>1. \A q \in Pids : q # 0
    BY PidsAssumption
  <2> QED BY <1>7, <2>1 DEF Listed
<1>10. JobsAreChildren'
  <2> HIDE DEF p
  <2>1. \A q \in Pids : Listed(q)' => child'[q] # "none" \/ FrameAt("delete", q)'
    BY <1>1, <1>2, <1>8, <1>9 DEF JobsAreChildren
  <2>2. \A s, t \in Slots : jobs'[s].pid # 0 /\ jobs'[s].pid = jobs'[t].pid => s = t
    BY <1>1, <1>7 DEF JobsAreChildren
  <2> QED BY <2>1, <2>2 DEF JobsAreChildren
<1>11. ChildrenAreListed'
  <2> HIDE DEF p
  <2> QED BY <1>1, <1>2, <1>3, <1>4, <1>9 DEF ChildrenAreListed
<1>12. TypeOK'
  BY <1>1, <1>2, <1>6, <1>7, <1>8 DEF TypeOK
<1> QED BY <1>2, <1>8, <1>10, <1>11, <1>12, HandlerKeepsIInv

\* A stop report: the entry is marked, or the shell ends on a null pointer.
LEMMA ChldStoppedKeepsIInv ==
    ASSUME IInv, ChldStopped
    PROVE  IInv'
<1>1. /\ TypeOK /\ JobsAreChildren /\ jobs \in [Slots -> Job] /\ nextjid \in Nat
      /\ child \in [Pids -> ChildStates] /\ pending \subseteq Signals
      /\ stack \in Seq(Frame)
  BY DEF IInv, TypeOK
<1>2. /\ Alive /\ stack # <<>> /\ stack[1].pc = "stopped" /\ stack[1].sig = "CHLD"
      /\ MarkStopped(getjobpid(jobs, stack[1].pid))
      /\ UNCHANGED <<nextjid, masked, pending, child, dropped, raced>>
  BY DEF ChldStopped, HandlerAt
<1>3. getjobpid(jobs, stack[1].pid) \in Slots \cup {0}
  BY GetjobpidFinds
<1>4. CASE getjobpid(jobs, stack[1].pid) = 0
  <2>1. Ends("crashed") /\ UNCHANGED jobs
    BY <1>2, <1>4 DEF ChldStopped, MarkStopped
  <2>2. JobsAreChildren'
    BY <1>1, <2>1 DEF JobsAreChildren, Ends, Alive, AtPrompt, Halted
  <2>3. "crashed" \in Halted
    BY DEF Halted
  <2> QED BY <1>2, <2>1, <2>2, <2>3, EndKeepsIInv
<1>5. CASE getjobpid(jobs, stack[1].pid) # 0
  <2>1. Continue("waitpid", 0, 0) /\ UNCHANGED main
    BY <1>5 DEF ChldStopped
  <2>2. jobs' \in [Slots -> Job] /\ \A s \in Slots : jobs'[s].pid = jobs[s].pid
    BY <1>1, <1>2, <1>3, MarkStoppedEffect
  <2>3. "waitpid" \in FramePcs \ {"delete"} /\ "waitpid" \in ReapPcs
    BY DEF FramePcs, ReapPcs
  <2> QED BY <1>1, <1>2, <2>1, <2>2, <2>3, HandlerKeepsAgreement
<1> QED BY <1>4, <1>5

\* A signal is delivered: its handler starts, above those it interrupts.
LEMMA DeliverKeepsIInv ==
    ASSUME IInv, NEW sig \in Signals, Deliver(sig)
    PROVE  IInv'
<1> DEFINE frame == [sig |-> sig, pc |-> FirstPc(sig), pid |-> 0, slot |-> 0]
<1>1. /\ TypeOK /\ FramesAreSound /\ SignalsHeldBack /\ stack \in Seq(Frame)
      /\ pending \subseteq Signals
  BY DEF IInv, TypeOK
<1>2. /\ Alive /\ sig \notin Blocked /\ pending' = pending \ {sig}
      /\ stack' = <<frame>> \o stack
      /\ UNCHANGED <<jobs, nextjid, main, masked, child, dropped, raced>>
  BY DEF Deliver
<1>3. ~masked /\ sig \notin Active
  BY <1>2 DEF Blocked
<1>4. main.pc \notin {"fork", "addjob", "unmask"}
  BY <1>1, <1>2, <1>3 DEF SignalsHeldBack
<1>5. frame \in Frame /\ frame.sig = sig /\ frame.pc # "delete"
      /\ (frame.pc \in ReapPcs <=> sig = "CHLD")
  BY DEF Frame, FramePcs, FirstPc, ReapPcs
<1> HIDE DEF frame
<1>6. /\ stack' \in Seq(Frame)
      /\ 1 \in DOMAIN stack' /\ stack'[1] = frame
      /\ \A i \in DOMAIN stack' : i # 1 => i - 1 \in DOMAIN stack /\ stack'[i] = stack[i - 1]
      /\ \A i \in DOMAIN stack : i + 1 \in DOMAIN stack' /\ i + 1 # 1 /\ stack'[i + 1] = stack[i]
  BY <1>1, <1>2, <1>5, FramePushed
<1>7. \A i \in DOMAIN stack' : stack'[i].pc \in ReapPcs <=> stack'[i].sig = "CHLD"
  <2> SUFFICES ASSUME NEW i \in DOMAIN stack'
               PROVE  stack'[i].pc \in ReapPcs <=> stack'[i].sig = "CHLD"
    OBVIOUS
  <2>1. CASE i = 1
    BY <1>5, <1>6, <2>1
  <2>2. CASE i # 1
    BY <1>1, <1>6, <2>2 DEF FramesAreSound
  <2> QED BY <2>1, <2>2
<1>8. \A i \in DOMAIN stack : stack[i].sig # sig
  BY <1>3 DEF Active
<1>9. \A i, j \in DOMAIN stack' : stack'[i].sig = stack'[j].sig => i = j
  <2> SUFFICES ASSUME NEW i \in DOMAIN stack', NEW j \in DOMAIN stack',
                      stack'[i].sig = stack'[j].sig
               PROVE  i = j
    OBVIOUS
  <2>1. CASE i = 1 \/ j = 1
    BY <1>5, <1>6, <1>8, <2>1
  <2>2. CASE i # 1 /\ j # 1
    <3>1. i - 1 \in DOMAIN stack /\ j - 1 \in DOMAIN stack
          /\ stack[i - 1].sig = stack[j - 1].sig
      BY <1>6, <2>2
    <3>2. \A k, m \in DOMAIN stack : stack[k].sig = stack[m].sig => k = m
      BY <1>1 DEF FramesAreSound
    <3>3. i - 1 = j - 1
      BY <3>1, <3>2
    <3>4. i \in Int /\ j \in Int
      BY <1>6
    <3> QED BY <3>3, <3>4
  <2> QED BY <2>1, <2>2
<1>10. \A i \in DOMAIN stack' :
           stack'[i].pc = "delete" => stack'[i].pid \in Pids /\ child'[stack'[i].pid] = "none"
  <2> SUFFICES ASSUME NEW i \in DOMAIN stack', stack'[i].pc = "delete"
               PROVE  stack'[i].pid \in Pids /\ child[stack'[i].pid] = "none"
    BY <1>2
  <2>1. i # 1 /\ i - 1 \in DOMAIN stack /\ stack'[i] = stack[i - 1]
    BY <1>5, <1>6
  <2> QED BY <1>1, <1>2, <2>1 DEF FramesAreSound
<1>11. FramesAreSound'
  BY <1>7, <1>9, <1>10 DEF FramesAreSound
<1>12. \A p \in Pids : FrameAt("delete", p) => FrameAt("delete", p)'
  BY <1>6 DEF FrameAt
<1>13. JobsAreChildren' /\ ChildrenAreListed'
  BY <1>2, <1>4, <1>12, AgreementKept
<1>14. TypeOK'
  BY <1>1, <1>2, <1>6 DEF TypeOK
<1>15. SignalsHeldBack' /\ NewChildUnlisted' /\ SlotIsHeld'
  BY <1>2, <1>3, <1>4 DEF IInv, SignalsHeldBack, NewChildUnlisted, SlotIsHeld, Alive
<1> QED BY <1>11, <1>13, <1>14, <1>15 DEF IInv

\* The keyboard and the children: no child comes or goes without the shell.
LEMMA EnvironmentKeepsIInv ==
    ASSUME IInv, Alive, stack' = stack,
           UNCHANGED <<jobs, nextjid, main, masked, dropped, raced>>,
           pending' \subseteq Signals, child' \in [Pids -> ChildStates],
           \A p \in Pids : child'[p] = "none" <=> child[p] = "none"
    PROVE  IInv'
<1>1. /\ TypeOK /\ JobsAreChildren /\ ChildrenAreListed /\ FramesAreSound
      /\ SignalsHeldBack /\ NewChildUnlisted /\ SlotIsHeld
  BY DEF IInv
<1>2. TypeOK' /\ SlotIsHeld' /\ SignalsHeldBack'
  BY <1>1 DEF TypeOK, SlotIsHeld, SignalsHeldBack, Alive
<1>3. FramesAreSound'
  BY <1>1 DEF FramesAreSound, Alive
<1>4. \A p \in Pids : (Listed(p)' <=> Listed(p)) /\ (FrameAt("delete", p)' <=> FrameAt("delete", p))
  BY DEF Listed, FrameAt
<1>5. JobsAreChildren' /\ ChildrenAreListed'
  BY <1>1, <1>4 DEF JobsAreChildren, ChildrenAreListed
<1>6. NewChildUnlisted'
  <2> SUFFICES ASSUME Alive, main.pc = "addjob", main.pid # 0
               PROVE  child'[main.pid] # "none" /\ ~Listed(main.pid)'
    BY DEF NewChildUnlisted, Alive, Listed
  <2>1. main.pid \in Pids /\ child[main.pid] # "none" /\ ~Listed(main.pid)
    BY <1>1 DEF NewChildUnlisted, TypeOK, Main
  <2> QED BY <2>1 DEF Listed
<1> QED BY <1>2, <1>3, <1>5, <1>6 DEF IInv

----------------------------------------------------------------------------
\* The invariant

\* The shell starts with an empty list, no children and no handler.
LEMMA InitEstablishesIInv == Init => IInv
<1> SUFFICES ASSUME Init PROVE IInv
  OBVIOUS
<1> USE DEF Init
<1>1. TypeOK
  <2>1. jobs \in [Slots -> Job] /\ child \in [Pids -> ChildStates]
    BY DEF initjobs, NoJob, Job, JobStates, ChildStates
  <2>2. main \in Main
    BY DEF AtPrompt, Main, MainPcs, Commands
  <2>3. nextjid \in Nat /\ stack \in Seq(Frame)
    OBVIOUS
  <2>4. masked \in BOOLEAN /\ raced \in BOOLEAN /\ dropped \subseteq Pids /\ pending \subseteq Signals
    BY Zenon
  <2> QED BY <2>1, <2>2, <2>3, <2>4 DEF TypeOK
<1>2. SlotIsHeld /\ FramesAreSound /\ SignalsHeldBack /\ NewChildUnlisted
  BY DEF SlotIsHeld, FramesAreSound, SignalsHeldBack, NewChildUnlisted, AtPrompt
<1>3. JobsAreChildren
  BY PidsAssumption DEF JobsAreChildren, Listed, initjobs, NoJob
<1>4. ChildrenAreListed
  BY DEF ChildrenAreListed
<1> QED BY <1>1, <1>2, <1>3, <1>4 DEF IInv

\* Every step of the shell and of its environment keeps the invariant.
LEMMA StepKeepsIInv == IInv /\ [Next]_vars => IInv'
<1> SUFFICES ASSUME IInv, [Next]_vars PROVE IInv'
  OBVIOUS
<1>1. /\ TypeOK /\ JobsAreChildren /\ child \in [Pids -> ChildStates] /\ pending \subseteq Signals
  BY DEF IInv, TypeOK
<1>2. CASE Quit \/ Sigquit
  <2>1. /\ Ends("exited") /\ "exited" \in Halted
        /\ UNCHANGED <<jobs, nextjid, masked, pending, child, dropped, raced>>
    BY <1>2 DEF Quit, Sigquit, Halted
  <2>2. JobsAreChildren'
    BY <1>1, <2>1 DEF JobsAreChildren, Ends, Alive, AtPrompt
  <2> QED BY <2>1, <2>2, EndKeepsIInv
<1>3. CASE ReadCommand \/ ReadBgfg
  BY <1>3, ControlKeepsIInv
<1>4. CASE MainStep
  BY <1>4, ControlKeepsIInv, ForkKeepsIInv, AddJobKeepsIInv, ResumeKeepsIInv DEF MainStep
<1>5. CASE HandlerStep
  BY <1>5, KeyboardHandlersKeepIInv, WaitpidKeepsIInv, ChldDeleteKeepsIInv,
     ChldStoppedKeepsIInv DEF HandlerStep
<1>6. CASE \E sig \in Signals : Deliver(sig)
  BY <1>6, DeliverKeepsIInv
<1>7. CASE Keystroke
  <2>1. pending' \subseteq Signals
    BY <1>1, <1>7, KeysAssumption DEF Keystroke, Signals
  <2>2. Alive /\ UNCHANGED <<jobs, nextjid, main, stack, masked, child, dropped, raced>>
    BY <1>7 DEF Keystroke
  <2> QED BY <1>1, <2>1, <2>2, EnvironmentKeepsIInv
<1>8. CASE \E p \in Pids : ChildStarts(p) \/ ChildDies(p) \/ ChildStops(p)
  <2>1. PICK p \in Pids : ChildStarts(p) \/ ChildDies(p) \/ ChildStops(p)
    BY <1>8
  <2>2. PICK state \in {"running", "zombie", "unreported"} :
            /\ Alive /\ child[p] # "none" /\ child' = [child EXCEPT ![p] = state]
            /\ pending' \subseteq pending \cup {"CHLD"}
            /\ UNCHANGED <<jobs, nextjid, main, stack, masked, dropped, raced>>
    BY <2>1 DEF ChildStarts, ChildDies, ChildStops, ChildBecomes
  <2>3. pending' \subseteq Signals /\ child' \in [Pids -> ChildStates]
    BY <1>1, <2>2 DEF Signals, ChildStates
  <2>4. \A q \in Pids : child'[q] = "none" <=> child[q] = "none"
    BY <1>1, <2>2
  <2> QED BY <2>2, <2>3, <2>4, EnvironmentKeepsIInv
<1>9. CASE UNCHANGED vars
  BY <1>9 DEF vars, IInv, TypeOK, SlotIsHeld, FramesAreSound, SignalsHeldBack, NewChildUnlisted,
     JobsAreChildren, ChildrenAreListed, Alive, Listed, FrameAt
<1> QED BY <1>2, <1>3, <1>4, <1>5, <1>6, <1>7, <1>8, <1>9 DEF Next

\* The invariant holds in every state of every run.
LEMMA IInvHolds == Spec => []IInv
<1>1. Init => IInv
  BY InitEstablishesIInv
<1>2. IInv /\ [Next]_vars => IInv'
  BY StepKeepsIInv
<1> QED BY <1>1, <1>2, PTL DEF Spec

\* The variables keep their types in every run of the shell.
THEOREM TypeCorrect == Spec => []TypeOK
<1>1. IInv => TypeOK
  BY DEF IInv
<1> QED BY <1>1, IInvHolds, PTL

\* No ghost jobs, for every number of processes and every size of the list:
\* eval's masked section keeps sigchld_handler from deleting an entry before
\* addjob has made it.
THEOREM NoGhostJobs == Spec => []JobsAreChildren
<1>1. IInv => JobsAreChildren
  BY DEF IInv
<1> QED BY <1>1, IInvHolds, PTL

\* No lost jobs: a child leaves the list only after waitpid has reaped it, so
\* the only unlisted children are those that addjob had no room for.
THEOREM NoLostJobs == Spec => []ChildrenAreListed
<1>1. IInv => ChildrenAreListed
  BY DEF IInv
<1> QED BY <1>1, IInvHolds, PTL

----------------------------------------------------------------------------
\* No report of waitpid is lost

\* A handler that moves on stays active; one that returns is the only one to go.
LEMMA ActiveHandlers ==
    ASSUME IInv, stack # <<>>
    PROVE  /\ \A pc \in FramePcs, pid \in Pids \cup {0}, slot \in Slots \cup {0} :
                  Continue(pc, pid, slot) => Active \subseteq Active'
           /\ Return => Active \subseteq Active' \cup {stack[1].sig}
<1>1. stack \in Seq(Frame)
  BY DEF IInv, TypeOK
<1>2. ASSUME NEW pc \in FramePcs, NEW pid \in Pids \cup {0},
             NEW slot \in Slots \cup {0}, Continue(pc, pid, slot)
      PROVE  Active \subseteq Active'
  <2>1. stack' = [stack EXCEPT ![1].pc = pc, ![1].pid = pid, ![1].slot = slot]
    BY <1>2 DEF Continue
  <2>2. /\ DOMAIN stack' = DOMAIN stack
        /\ stack'[1] = [sig |-> stack[1].sig, pc |-> pc, pid |-> pid, slot |-> slot]
        /\ \A i \in DOMAIN stack : i # 1 => stack'[i] = stack[i]
    <3>1. \A st \in Seq(Frame) : st # <<>> =>
              LET new == [st EXCEPT ![1].pc = pc, ![1].pid = pid, ![1].slot = slot]
              IN  /\ new \in Seq(Frame)
                  /\ DOMAIN new = DOMAIN st
                  /\ 1 \in DOMAIN st
                  /\ new[1] = [sig |-> st[1].sig, pc |-> pc, pid |-> pid, slot |-> slot]
                  /\ \A i \in DOMAIN st : i # 1 => new[i] = st[i]
      BY TopFrameChanged, Zenon
    <3> QED BY <1>1, <2>1, <3>1, Zenon
  <2>3. \A i \in DOMAIN stack : i \in DOMAIN stack' /\ stack'[i].sig = stack[i].sig
    BY <2>2
  <2> QED BY <2>3 DEF Active
<1>3. ASSUME Return
      PROVE  Active \subseteq Active' \cup {stack[1].sig}
  <2>1. \A i \in DOMAIN stack : i # 1 => i - 1 \in DOMAIN stack' /\ stack'[i - 1] = stack[i]
    BY <1>1, <1>3, TopFramePopped DEF Return
  <2> QED BY <2>1 DEF Active
<1> QED BY <1>2, <1>3

\* A step either leaves the reports of all children and SIGCHLD as they are, or
\* raises SIGCHLD, or is a step of sigchld_handler, which then goes on or has
\* found no more reports.
LEMMA StepKeepsReports == IInv /\ NoReportLost /\ [Next]_vars => NoReportLost'
<1> DEFINE owed == \E p \in Pids : child[p] \in {"zombie", "unreported"}
<1> SUFFICES ASSUME IInv, NoReportLost, [Next]_vars, Alive', owed'
             PROVE  "CHLD" \in pending' \cup Active'
  BY DEF NoReportLost
<1>1. /\ TypeOK /\ main \in Main /\ main.pid \in Pids \cup {0} /\ jobs \in [Slots -> Job]
      /\ child \in [Pids -> ChildStates] /\ stack \in Seq(Frame)
  BY DEF IInv, TypeOK, Main
<1>2. stack # <<>> => stack[1] \in Frame
  BY <1>1
<1>3. ASSUME Alive, owed, pending \subseteq pending', Active \subseteq Active'
      PROVE  "CHLD" \in pending' \cup Active'
  BY <1>3 DEF NoReportLost
<1>4. ASSUME UNCHANGED <<child, pending, stack>>, Alive
      PROVE  "CHLD" \in pending' \cup Active'
  BY <1>3, <1>4 DEF Active
<1>5. CASE Quit \/ Sigquit
  BY <1>5 DEF Quit, Sigquit, Ends, AtPrompt, Alive, Halted
<1>6. CASE ReadCommand \/ ReadBgfg \/ AddJob \/ Unmask \/ WaitfgEnter \/ WaitfgReturn
           \/ TakePid \/ SetState \/ RereadPid
  BY <1>4, <1>6 DEF ReadCommand, ReadBgfg, AddJob, Unmask, WaitfgEnter, WaitfgReturn,
     TakePid, SetState, RereadPid, MainAt, Alive, Halted
<1>7. CASE Fork
  <2>1. Alive /\ UNCHANGED <<pending, stack>>
    BY <1>7 DEF Fork, MainAt, Alive, Halted
  <2>2. \A p \in Pids : child'[p] = child[p] \/ child'[p] = "forked"
    BY <1>1, <1>7 DEF Fork
  <2>3. owed
    BY <2>2
  <2> QED BY <1>3, <2>1, <2>3 DEF Active
<1>8. ASSUME NEW pid \in Pids \cup {0}, NEW sig \in Signals \cup {"CONT"}, Kill(pid, sig), Alive,
             Active \subseteq Active' \cup {"INT", "TSTP"}
      PROVE  "CHLD" \in pending' \cup Active'
  <2>1. pending \subseteq pending' /\ \A p \in Pids : child'[p] = child[p] \/ "CHLD" \in pending'
    BY <1>1, <1>8, KillEffect
  <2>2. CASE "CHLD" \in pending'
    BY <2>2
  <2>3. CASE \A p \in Pids : child'[p] = child[p]
    <3>1. "CHLD" \in pending \cup Active
      BY <1>8, <2>3 DEF NoReportLost
    <3> QED BY <1>8, <2>1, <3>1
  <2> QED BY <2>1, <2>2, <2>3
<1>9. CASE SendCont
  <2>1. Kill(main.pid, "CONT") /\ Alive /\ UNCHANGED stack
    BY <1>9 DEF SendCont, MainAt, Alive, Halted
  <2>2. Active' = Active
    BY <2>1 DEF Active
  <2> QED BY <1>1, <1>8, <2>1, <2>2
<1>10. CASE LookFg("INT") \/ LookFg("TSTP")
  <2>1. /\ Alive /\ stack # <<>> /\ Continue("kill", fgpid(jobs), 0) /\ UNCHANGED <<child, pending>>
        /\ fgpid(jobs) \in Pids \cup {0} /\ "kill" \in FramePcs
    BY <1>1, <1>10, FgpidType DEF LookFg, HandlerAt, FramePcs
  <2>2. Active \subseteq Active'
    BY <2>1, ActiveHandlers
  <2> QED BY <1>3, <2>1, <2>2
<1>11. CASE IntKill \/ TstpKill
  <2>1. /\ Alive /\ stack # <<>> /\ stack[1].sig \in {"INT", "TSTP"} /\ stack[1].pid \in Pids \cup {0}
        /\ Return \/ Continue("lookup", stack[1].pid, 0)
        /\ Kill(stack[1].pid, "INT") \/ Kill(stack[1].pid, "TSTP")
    BY <1>2, <1>11 DEF IntKill, TstpKill, HandlerAt, Frame
  <2>2. "lookup" \in FramePcs
    BY DEF FramePcs
  <2>3. Active \subseteq Active' \cup {"INT", "TSTP"}
    BY <2>1, <2>2, ActiveHandlers
  <2>4. "INT" \in Signals /\ "TSTP" \in Signals
    BY DEF Signals
  <2> QED BY <1>8, <2>1, <2>3, <2>4
<1>12. CASE TstpLookup \/ TstpMark
  <2>1. /\ Alive /\ stack # <<>> /\ stack[1].sig = "TSTP" /\ UNCHANGED <<child, pending>>
        /\ \/ Return
           \/ Continue("mark", stack[1].pid, getjobpid(jobs, stack[1].pid))
    BY <1>12 DEF TstpLookup, TstpMark, HandlerAt, Ends, AtPrompt, Alive, Halted
  <2>2. Active \subseteq Active' \cup {"TSTP"}
    <3>1. "mark" \in FramePcs /\ stack[1].pid \in Pids \cup {0}
      BY <1>2, <2>1 DEF FramePcs, Frame
    <3>2. getjobpid(jobs, stack[1].pid) \in Slots \cup {0}
      BY GetjobpidFinds
    <3> QED BY <2>1, <3>1, <3>2, ActiveHandlers
  <2>3. "CHLD" \in pending \cup Active
    BY <2>1 DEF NoReportLost
  <2> QED BY <2>1, <2>2, <2>3
<1>13. CASE Waitpid \/ ChldDelete \/ ChldStopped
  <2>1. stack # <<>> /\ stack[1].sig = "CHLD" /\ 1 \in DOMAIN stack
    BY <1>1, <1>13 DEF Waitpid, ChldDelete, ChldStopped, HandlerAt
  <2>2. "CHLD" \in Active
    BY <2>1 DEF Active
  <2>3. "waitpid" \in FramePcs /\ "delete" \in FramePcs /\ "stopped" \in FramePcs
    BY DEF FramePcs
  <2>4. \/ \E pc \in FramePcs, pid \in Pids \cup {0}, slot \in Slots \cup {0} : Continue(pc, pid, slot)
        \/ child' = child /\ \A p \in Pids : child[p] \notin {"zombie", "unreported"}
    BY <1>13, <2>3 DEF Waitpid, ChldDelete, ChldStopped, Ends, AtPrompt, Alive, Halted
  <2> QED BY <2>1, <2>2, <2>4, ActiveHandlers
<1>14. CASE \E sig \in Signals : Deliver(sig)
  <2>1. PICK sig \in Signals : Deliver(sig)
    BY <1>14
  <2>2. /\ Alive /\ pending' = pending \ {sig} /\ UNCHANGED child
        /\ stack' = <<[sig |-> sig, pc |-> FirstPc(sig), pid |-> 0, slot |-> 0]>> \o stack
    BY <2>1 DEF Deliver
  <2>3. [sig |-> sig, pc |-> FirstPc(sig), pid |-> 0, slot |-> 0] \in Frame
    BY DEF Frame, FramePcs, FirstPc
  <2>4. sig \in Active' /\ Active \subseteq Active'
    <3>1. /\ 1 \in DOMAIN stack' /\ stack'[1].sig = sig
          /\ \A i \in DOMAIN stack : i + 1 \in DOMAIN stack' /\ stack'[i + 1] = stack[i]
      BY <1>1, <2>2, <2>3, FramePushed
    <3> QED BY <3>1 DEF Active
  <2>5. "CHLD" \in pending \cup Active
    BY <2>2 DEF NoReportLost
  <2> QED BY <2>2, <2>4, <2>5
<1>15. CASE Keystroke
  <2>1. Alive /\ owed /\ pending \subseteq pending' /\ UNCHANGED stack
    BY <1>15 DEF Keystroke
  <2> QED BY <1>3, <2>1 DEF Active
<1>16. CASE \E p \in Pids : ChildStarts(p) \/ ChildDies(p) \/ ChildStops(p)
  <2>1. PICK p \in Pids : ChildStarts(p) \/ ChildDies(p) \/ ChildStops(p)
    BY <1>16
  <2>2. Alive /\ pending \subseteq pending' /\ UNCHANGED stack
    BY <2>1 DEF ChildStarts, ChildDies, ChildStops, ChildBecomes
  <2>3. "CHLD" \in pending' \/ owed
    BY <1>1, <2>1 DEF ChildStarts, ChildDies, ChildStops, ChildBecomes
  <2> QED BY <1>3, <2>2, <2>3 DEF Active
<1>17. CASE UNCHANGED vars
  BY <1>4, <1>17 DEF vars, Alive
<1> QED BY <1>5, <1>6, <1>7, <1>9, <1>10, <1>11, <1>12, <1>13, <1>14, <1>15, <1>16, <1>17
        DEF Next, MainStep, HandlerStep

\* SIGCHLD does not queue, and no report is lost: whenever a child has something
\* to report, SIGCHLD is pending or sigchld_handler is in its waitpid loop.
THEOREM NoReportIsLost == Spec => []NoReportLost
<1>1. Init => NoReportLost
  BY DEF Init, NoReportLost
<1>2. IInv /\ NoReportLost /\ [Next]_vars => NoReportLost'
  BY StepKeepsReports
<1> QED BY <1>1, <1>2, IInvHolds, PTL DEF Spec

----------------------------------------------------------------------------
\* The pointer that do_bgfg holds

\* deletejob leaves an entry as it is, or clears it if it is the job's.
LEMMA DeletedEntries ==
    ASSUME IInv, ChldDelete, NEW s \in Slots
    PROVE  /\ jobs'[s] \in {jobs[s], NoJob} /\ jobs'[s].pid \in {0, jobs[s].pid}
           /\ jobs'[s] = jobs[s] \/ jobs[s].pid = stack[1].pid
<1> DEFINE p == stack[1].pid
           deleted == deletejob(jobs, nextjid, p)
<1>1. jobs \in [Slots -> Job] /\ nextjid \in Nat /\ stack \in Seq(Frame) /\ stack # <<>>
  BY DEF IInv, TypeOK, ChldDelete, HandlerAt
<1>2. p \in Pids \cup {0}
  <2>1. 1 \in DOMAIN stack /\ stack[1] \in Frame
    BY <1>1
  <2> QED BY <2>1 DEF Frame
<1>3. jobs' = deleted.jobs
  BY DEF ChldDelete
<1>4. \A q \in Pids \cup {0} :
          LET d == deletejob(jobs, nextjid, q)
          IN  /\ d.nextjid \in Nat
              /\ \/ d.jobs = jobs /\ (q = 0 \/ \A t \in Slots : jobs[t].pid # q)
                 \/ \E t \in Slots :
                       /\ q # 0
                       /\ jobs[t].pid = q
                       /\ d.jobs = [jobs EXCEPT ![t] = NoJob]
  BY <1>1, DeletejobEffect
<1>5. jobs' = jobs \/ \E t \in Slots : jobs[t].pid = p /\ jobs' = [jobs EXCEPT ![t] = NoJob]
  <2> HIDE DEF p
  <2>1. \/ deleted.jobs = jobs
        \/ \E t \in Slots : jobs[t].pid = p /\ deleted.jobs = [jobs EXCEPT ![t] = NoJob]
    BY <1>2, <1>4
  <2> HIDE DEF deleted
  <2> QED BY <1>3, <2>1
<1>6. NoJob.pid = 0
  BY DEF NoJob
<1> QED BY <1>1, <1>5, <1>6

\* What a frame of sigtstp_handler may rely on: the pointer it holds denotes its
\* job or an entry cleared since, and its job is on the list unless it has been
\* reaped, or none was found.
Targeted(frame) ==
    /\ frame.slot # 0 => jobs[frame.slot].pid \in {0, frame.pid}
    /\ frame.sig = "TSTP" =>
          \/ frame.pid = 0
          \/ child[frame.pid] = "none"
          \/ Listed(frame.pid) /\ ~(frame.pc = "mark" /\ frame.slot = 0)

TargetsAreKnown == \A i \in DOMAIN stack : Targeted(stack[i])

\* While handlers run entries are cleared and never filled, nobody is forked, and
\* only the job of a reaped child is taken off the list.
LEMMA TargetKept ==
    ASSUME NEW frame \in Frame, Targeted(frame),
           \A s \in Slots : jobs'[s].pid \in {0, jobs[s].pid},
           \A p \in Pids : child[p] = "none" => child'[p] = "none",
           \A p \in Pids : Listed(p) => Listed(p)' \/ child'[p] = "none"
    PROVE  Targeted(frame)'
<1>1. frame.slot \in Slots \cup {0} /\ frame.pid \in Pids \cup {0}
  BY DEF Frame
<1>2. frame.slot # 0 => jobs'[frame.slot].pid \in {0, frame.pid}
  BY <1>1 DEF Targeted
<1>3. frame.sig = "TSTP" =>
          \/ frame.pid = 0
          \/ child'[frame.pid] = "none"
          \/ Listed(frame.pid)' /\ ~(frame.pc = "mark" /\ frame.slot = 0)
  BY <1>1 DEF Targeted
<1> QED BY <1>2, <1>3 DEF Targeted

\* The same for the frames below the running one, which either stays on top with
\* new contents or goes.
LEMMA TargetsKept ==
    ASSUME IInv, TargetsAreKnown, stack # <<>>,
           \A s \in Slots : jobs'[s].pid \in {0, jobs[s].pid},
           \A p \in Pids : child[p] = "none" => child'[p] = "none",
           \A p \in Pids : Listed(p) => Listed(p)' \/ child'[p] = "none",
           \/ Return
           \/ \E pc \in FramePcs, pid \in Pids \cup {0}, slot \in Slots \cup {0} :
                 /\ Continue(pc, pid, slot)
                 /\ slot # 0 => jobs'[slot].pid \in {0, pid}
                 /\ stack[1].sig = "TSTP" =>
                       \/ pid = 0
                       \/ child'[pid] = "none"
                       \/ Listed(pid)' /\ ~(pc = "mark" /\ slot = 0)
    PROVE  TargetsAreKnown'
<1>1. stack \in Seq(Frame)
  BY DEF IInv, TypeOK
<1>2. \A j \in DOMAIN stack : stack[j] \in Frame /\ Targeted(stack[j])
  BY <1>1 DEF TargetsAreKnown
<1>3. ASSUME NEW frame \in Frame, Targeted(frame) PROVE Targeted(frame)'
  BY <1>3, TargetKept
<1>4. CASE Return
  <2>1. \A i \in DOMAIN stack' : i + 1 \in DOMAIN stack /\ stack'[i] = stack[i + 1]
    BY <1>1, <1>4, TopFramePopped DEF Return
  <2> SUFFICES ASSUME NEW i \in DOMAIN stack' PROVE Targeted(stack[i])'
    BY DEF TargetsAreKnown
  <2>2. PICK frame \in Frame : stack'[i] = frame /\ Targeted(frame)
    BY <1>2, <2>1
  <2>3. Targeted(frame)'
    BY <1>3, <2>2
  <2> QED BY <2>2, <2>3 DEF Targeted, Listed
<1>5. ASSUME NEW pc \in FramePcs, NEW pid \in Pids \cup {0}, NEW slot \in Slots \cup {0},
             Continue(pc, pid, slot),
             slot # 0 => jobs'[slot].pid \in {0, pid},
             stack[1].sig = "TSTP" =>
                 \/ pid = 0
                 \/ child'[pid] = "none"
                 \/ Listed(pid)' /\ ~(pc = "mark" /\ slot = 0)
      PROVE  TargetsAreKnown'
  <2>1. /\ DOMAIN stack' = DOMAIN stack
        /\ stack'[1] = [sig |-> stack[1].sig, pc |-> pc, pid |-> pid, slot |-> slot]
        /\ \A i \in DOMAIN stack : i # 1 => stack'[i] = stack[i]
    <3>1. stack' = [stack EXCEPT ![1].pc = pc, ![1].pid = pid, ![1].slot = slot]
      BY <1>5 DEF Continue
    <3>2. \A st \in Seq(Frame) : st # <<>> =>
              LET new == [st EXCEPT ![1].pc = pc, ![1].pid = pid, ![1].slot = slot]
              IN  /\ new \in Seq(Frame)
                  /\ DOMAIN new = DOMAIN st
                  /\ 1 \in DOMAIN st
                  /\ new[1] = [sig |-> st[1].sig, pc |-> pc, pid |-> pid, slot |-> slot]
                  /\ \A i \in DOMAIN st : i # 1 => new[i] = st[i]
      BY TopFrameChanged, Zenon
    <3> QED BY <1>1, <3>1, <3>2, Zenon
  <2> SUFFICES ASSUME NEW i \in DOMAIN stack' PROVE Targeted(stack[i])'
    BY DEF TargetsAreKnown
  <2>2. CASE i = 1
    <3>1. /\ stack'[i].sig = stack[1].sig /\ stack'[i].pc = pc
          /\ stack'[i].pid = pid /\ stack'[i].slot = slot
      BY <2>1, <2>2
    <3> QED BY <1>5, <3>1 DEF Targeted, Listed
  <2>3. CASE i # 1
    <3>1. PICK frame \in Frame : stack'[i] = frame /\ Targeted(frame)
      BY <1>2, <2>1, <2>3
    <3>2. Targeted(frame)'
      BY <1>3, <3>1
    <3> QED BY <3>1, <3>2 DEF Targeted, Listed
  <2> QED BY <2>2, <2>3
<1> QED BY <1>4, <1>5

LEMMA StepKeepsTargets == IInv /\ TargetsAreKnown /\ [Next]_vars => TargetsAreKnown'
<1> SUFFICES ASSUME IInv, TargetsAreKnown, [Next]_vars, stack' # <<>>
             PROVE  TargetsAreKnown'
  BY DEF TargetsAreKnown
<1> DEFINE kept == /\ \A s \in Slots : jobs'[s].pid \in {0, jobs[s].pid}
                   /\ \A p \in Pids : child[p] = "none" => child'[p] = "none"
                   /\ \A p \in Pids : Listed(p) => Listed(p)' \/ child'[p] = "none"
           moved(pc, pid, slot) ==
                   /\ Continue(pc, pid, slot)
                   /\ slot # 0 => jobs'[slot].pid \in {0, pid}
                   /\ stack[1].sig = "TSTP" =>
                         \/ pid = 0
                         \/ child'[pid] = "none"
                         \/ Listed(pid)' /\ ~(pc = "mark" /\ slot = 0)
<1>1. /\ TypeOK /\ jobs \in [Slots -> Job] /\ child \in [Pids -> ChildStates]
      /\ stack \in Seq(Frame) /\ FramesAreSound
  BY DEF IInv, TypeOK
<1>2. ASSUME \A s \in Slots : jobs'[s].pid = jobs[s].pid,
             \A p \in Pids : child[p] = "none" => child'[p] = "none"
      PROVE  kept
  BY <1>2 DEF Listed
<1>3. ASSUME stack # <<>>
      PROVE  /\ stack[1] \in Frame /\ stack[1].pid \in Pids \cup {0}
             /\ stack[1].slot \in Slots \cup {0} /\ Targeted(stack[1])
  <2>1. 1 \in DOMAIN stack /\ stack[1] \in Frame
    BY <1>1, <1>3
  <2> QED BY <2>1 DEF Frame, TargetsAreKnown
<1>4. ASSUME stack # <<>>, kept,
             Return \/ \E pc \in FramePcs, pid \in Pids \cup {0}, slot \in Slots \cup {0} :
                           moved(pc, pid, slot)
      PROVE  TargetsAreKnown'
  BY <1>4, TargetsKept
<1>5. CASE \/ Quit \/ Sigquit \/ ReadCommand \/ ReadBgfg \/ MainStep
  BY <1>5 DEF Quit, Sigquit, Ends, MainStep, ReadCommand, ReadBgfg, Fork, AddJob, Unmask,
     WaitfgEnter, WaitfgReturn, TakePid, SetState, SendCont, RereadPid, MainAt
<1>6. CASE LookFg("INT") \/ LookFg("TSTP")
  <2>1. stack # <<>> /\ Continue("kill", fgpid(jobs), 0) /\ UNCHANGED <<jobs, child>>
    BY <1>6 DEF LookFg, HandlerAt
  <2>2. fgpid(jobs) \in Pids \cup {0} /\ "kill" \in FramePcs /\ 0 \in Slots \cup {0}
    BY <1>1, FgpidType DEF FramePcs
  <2>3. fgpid(jobs) = 0 \/ Listed(fgpid(jobs))'
    BY <2>1, FgpidFinds DEF Listed
  <2>4. moved("kill", fgpid(jobs), 0)
    BY <2>1, <2>3
  <2>5. kept
    BY <1>2, <2>1
  <2> HIDE DEF moved, kept
  <2> QED BY <1>4, <2>1, <2>2, <2>4, <2>5
<1>7. CASE IntKill \/ TstpKill
  <2>1. /\ stack # <<>> /\ stack[1].pc = "kill" /\ UNCHANGED jobs
        /\ Kill(stack[1].pid, "INT") \/ Kill(stack[1].pid, "TSTP")
        /\ Return \/ Continue("lookup", stack[1].pid, 0)
        /\ "lookup" \in FramePcs /\ {"INT", "TSTP"} \subseteq Signals /\ 0 \in Slots \cup {0}
    BY <1>7 DEF IntKill, TstpKill, HandlerAt, FramePcs, Signals
  <2>2. \A p \in Pids : child[p] = "none" => child'[p] = "none"
    BY <1>1, <1>3, <2>1, KillEffect
  <2>3. kept
    BY <1>2, <2>1, <2>2
  <2>4. CASE Return
    <3> HIDE DEF kept
    <3> QED BY <1>4, <2>1, <2>3, <2>4
  <2>5. CASE Continue("lookup", stack[1].pid, 0)
    <3>1. PICK pid \in Pids \cup {0} : pid = stack[1].pid
      BY <1>3, <2>1
    <3>2. stack[1].sig = "TSTP" => pid = 0 \/ child'[pid] = "none" \/ Listed(pid)'
      BY <1>3, <2>1, <2>3, <3>1 DEF Targeted
    <3>3. moved("lookup", pid, 0)
      BY <2>5, <3>1, <3>2
    <3> HIDE DEF moved, kept
    <3> QED BY <1>4, <2>1, <2>3, <3>3
  <2> QED BY <2>1, <2>4, <2>5
<1>8. CASE TstpLookup
  <2>1. stack # <<>> /\ stack[1].pc = "lookup" /\ UNCHANGED <<jobs, child>> /\ "mark" \in FramePcs
    BY <1>8 DEF TstpLookup, HandlerAt, FramePcs
  <2>2. PICK pid \in Pids \cup {0} : pid = stack[1].pid
    BY <1>3, <2>1
  <2>3. PICK slot : slot = getjobpid(jobs, pid)
    OBVIOUS
  <2>4. \/ slot = 0 /\ (pid = 0 \/ ~Listed(pid))
        \/ slot \in Slots /\ slot # 0 /\ jobs[slot].pid = pid
    BY <2>3, GetjobpidFinds DEF Listed, Slots
  <2>5. kept
    BY <1>2, <2>1
  <2>6. stack[1].sig = "TSTP" => pid = 0 \/ child'[pid] = "none" \/ (Listed(pid)' /\ slot # 0)
    BY <1>3, <2>1, <2>2, <2>4, <2>5 DEF Targeted, Listed
  <2>7. Continue("mark", pid, slot)
    BY <1>8, <2>2, <2>3 DEF TstpLookup
  <2>8. moved("mark", pid, slot)
    BY <2>1, <2>4, <2>6, <2>7
  <2> HIDE DEF moved, kept
  <2> QED BY <1>4, <2>1, <2>4, <2>5, <2>8
<1>9. CASE TstpMark
  <2>1. /\ stack # <<>> /\ MarkStopped(stack[1].slot) /\ UNCHANGED child
        /\ Return
    BY <1>9 DEF TstpMark, HandlerAt, Ends
  <2>2. kept
    BY <1>1, <1>2, <1>3, <2>1, MarkStoppedEffect
  <2> HIDE DEF kept
  <2> QED BY <1>4, <2>1, <2>2
<1>10. ASSUME stack # <<>>, stack[1].sig = "CHLD", kept,
              Return \/ \E pc \in FramePcs, pid \in Pids \cup {0} : Continue(pc, pid, 0)
       PROVE  TargetsAreKnown'
  <2>1. CASE Return
    <3> HIDE DEF kept
    <3> QED BY <1>4, <1>10, <2>1
  <2>2. ASSUME NEW pc \in FramePcs, NEW pid \in Pids \cup {0}, Continue(pc, pid, 0)
        PROVE  TargetsAreKnown'
    <3>1. moved(pc, pid, 0) /\ 0 \in Slots \cup {0}
      BY <1>10, <2>2
    <3> HIDE DEF moved, kept
    <3> QED BY <1>4, <1>10, <3>1
  <2> QED BY <1>10, <2>1, <2>2
<1>11. CASE Waitpid
  <2>1. /\ stack # <<>> /\ stack[1].sig = "CHLD" /\ UNCHANGED jobs
        /\ {"delete", "stopped"} \subseteq FramePcs
    BY <1>11 DEF Waitpid, HandlerAt, FramePcs
  <2>2. \A p \in Pids : child[p] = "none" => child'[p] = "none"
    BY <1>1, <1>11 DEF Waitpid
  <2>3. kept
    BY <1>2, <2>1, <2>2
  <2>4. Return \/ \E pc \in FramePcs, pid \in Pids \cup {0} : Continue(pc, pid, 0)
    BY <1>11, <2>1 DEF Waitpid
  <2> HIDE DEF kept
  <2> QED BY <1>10, <2>1, <2>3, <2>4
<1>12. CASE ChldDelete
  <2>1. /\ Alive /\ stack # <<>> /\ stack[1].sig = "CHLD" /\ stack[1].pc = "delete"
        /\ UNCHANGED child /\ Continue("waitpid", 0, 0) /\ "waitpid" \in FramePcs
    BY <1>12 DEF ChldDelete, HandlerAt, FramePcs
  <2>2. child[stack[1].pid] = "none"
    <3>1. 1 \in DOMAIN stack
      BY <1>1, <2>1
    <3> QED BY <1>1, <2>1, <3>1 DEF FramesAreSound
  <2>3. \A s \in Slots : /\ jobs'[s].pid \in {0, jobs[s].pid}
                         /\ jobs'[s] = jobs[s] \/ jobs[s].pid = stack[1].pid
    BY <1>12, DeletedEntries
  <2>4. \A p \in Pids : Listed(p) => Listed(p)' \/ child'[p] = "none"
    BY <2>1, <2>2, <2>3 DEF Listed
  <2>5. kept
    BY <2>1, <2>3, <2>4
  <2> HIDE DEF kept
  <2> QED BY <1>10, <2>1, <2>5
<1>13. CASE ChldStopped
  <2>1. /\ stack # <<>> /\ stack[1].sig = "CHLD" /\ UNCHANGED child
        /\ MarkStopped(getjobpid(jobs, stack[1].pid))
        /\ Continue("waitpid", 0, 0) /\ "waitpid" \in FramePcs
    BY <1>13 DEF ChldStopped, HandlerAt, Ends, FramePcs
  <2>2. getjobpid(jobs, stack[1].pid) \in Slots \cup {0}
    BY GetjobpidFinds
  <2>3. kept
    BY <1>1, <1>2, <2>1, <2>2, MarkStoppedEffect
  <2> HIDE DEF kept
  <2> QED BY <1>10, <2>1, <2>3
<1>14. CASE \E sig \in Signals : Deliver(sig)
  <2>1. PICK sig \in Signals : Deliver(sig)
    BY <1>14
  <2> DEFINE new == [sig |-> sig, pc |-> FirstPc(sig), pid |-> 0, slot |-> 0]
  <2>2. UNCHANGED <<jobs, child>> /\ stack' = <<new>> \o stack
    BY <2>1 DEF Deliver
  <2>3. new \in Frame /\ new.pid = 0 /\ new.slot = 0
    BY DEF Frame, FramePcs, FirstPc
  <2> HIDE DEF new
  <2>4. /\ stack'[1] = new
        /\ \A i \in DOMAIN stack' : i # 1 => i - 1 \in DOMAIN stack /\ stack'[i] = stack[i - 1]
    BY <1>1, <2>2, <2>3, FramePushed
  <2> SUFFICES ASSUME NEW i \in DOMAIN stack' PROVE Targeted(stack[i])'
    BY DEF TargetsAreKnown
  <2>5. CASE i = 1
    BY <2>3, <2>4, <2>5 DEF Targeted
  <2>6. CASE i # 1
    <3>1. Targeted(stack[i - 1]) /\ stack'[i] = stack[i - 1]
      BY <2>4, <2>6 DEF TargetsAreKnown
    <3> QED BY <2>2, <3>1 DEF Targeted, Listed
  <2> QED BY <2>5, <2>6
<1>15. CASE \/ Keystroke \/ UNCHANGED vars
            \/ \E p \in Pids : ChildStarts(p) \/ ChildDies(p) \/ ChildStops(p)
  <2>1. UNCHANGED <<jobs, stack>> /\ \A p \in Pids : child[p] = "none" => child'[p] = "none"
    BY <1>1, <1>15 DEF Keystroke, vars, ChildStarts, ChildDies, ChildStops, ChildBecomes
  <2>2. kept
    BY <1>2, <2>1
  <2> SUFFICES ASSUME NEW i \in DOMAIN stack PROVE Targeted(stack[i])'
    BY <2>1 DEF TargetsAreKnown
  <2>3. PICK frame \in Frame : stack[i] = frame /\ Targeted(frame)
    BY <1>1 DEF TargetsAreKnown
  <2>4. Targeted(frame)'
    BY <2>2, <2>3, TargetKept
  <2> QED BY <2>1, <2>3, <2>4 DEF Targeted, Listed
<1> QED BY <1>5, <1>6, <1>7, <1>8, <1>9, <1>11, <1>12, <1>13, <1>14, <1>15 DEF Next, HandlerStep

LEMMA TargetsHold == Spec => []TargetsAreKnown
<1>1. Init => TargetsAreKnown
  BY DEF Init, TargetsAreKnown
<1>2. IInv /\ TargetsAreKnown /\ [Next]_vars => TargetsAreKnown'
  BY StepKeepsTargets
<1> QED BY <1>1, <1>2, IInvHolds, PTL DEF Spec

\* do_bgfg's pointer: see JobPointerStable.
PointerIsHeld ==
    main.pc \in {"setstate", "sigcont"} => jobs[main.slot].pid \in {0, main.pid}

\* While do_bgfg holds the pointer no job is added: the entry can be cleared by
\* sigchld_handler, and never be given to another job.
LEMMA StepKeepsPointer == IInv /\ PointerIsHeld /\ [Next]_vars => PointerIsHeld'
<1> DEFINE held == main.pc \in {"setstate", "sigcont"}
<1> SUFFICES ASSUME IInv, PointerIsHeld, [Next]_vars, held'
             PROVE  jobs'[main'.slot].pid \in {0, main'.pid}
  BY DEF PointerIsHeld
<1>1. /\ TypeOK /\ main \in Main /\ jobs \in [Slots -> Job] /\ stack \in Seq(Frame)
      /\ held => main.slot \in Slots /\ jobs[main.slot].pid \in {0, main.pid}
  BY DEF IInv, TypeOK, SlotIsHeld, PointerIsHeld
<1>2. ASSUME UNCHANGED main, \A s \in Slots : jobs'[s].pid \in {0, jobs[s].pid}
      PROVE  jobs'[main'.slot].pid \in {0, main'.pid}
  BY <1>1, <1>2
<1>3. CASE UNCHANGED <<jobs, main>>
  BY <1>1, <1>3
<1>4. CASE Quit \/ Sigquit \/ ReadCommand \/ ReadBgfg \/ Fork \/ AddJob \/ Unmask
           \/ WaitfgEnter \/ WaitfgReturn \/ SendCont \/ RereadPid
  <2>1. CASE Quit \/ Sigquit
    BY <2>1 DEF Quit, Sigquit, Ends, AtPrompt
  <2>2. CASE ReadCommand \/ ReadBgfg
    BY <2>2 DEF ReadCommand, ReadBgfg, AtPrompt
  <2>3. CASE Fork \/ AddJob \/ RereadPid
    BY <1>1, <2>3 DEF Fork, AddJob, RereadPid, Main
  <2>4. CASE Unmask \/ WaitfgEnter \/ WaitfgReturn \/ SendCont
    BY <1>1, <2>4 DEF Unmask, WaitfgEnter, WaitfgReturn, SendCont, AtPrompt, Main
  <2> QED BY <1>4, <2>1, <2>2, <2>3, <2>4
<1>5. CASE TakePid
  <2>1. main' = [main EXCEPT !.pc = "setstate", !.pid = jobs[main.slot].pid] /\ UNCHANGED jobs
    BY <1>5 DEF TakePid
  <2> QED BY <1>1, <2>1 DEF Main
<1>6. CASE SetState
  <2>1. /\ main.pc = "setstate" /\ main' = [main EXCEPT !.pc = "sigcont"]
        /\ jobs' = [jobs EXCEPT ![main.slot].state = IF main.cmd = "fg" THEN "FG" ELSE "BG"]
    BY <1>6 DEF SetState, MainAt
  <2>2. main.slot \in Slots /\ jobs[main.slot].pid \in {0, main.pid}
    BY <1>1, <2>1
  <2>3. main'.slot = main.slot /\ main'.pid = main.pid
    BY <1>1, <2>1 DEF Main
  <2>4. jobs'[main.slot].pid = jobs[main.slot].pid
    BY <1>1, <2>1, <2>2 DEF Job
  <2> QED BY <2>2, <2>3, <2>4
<1>7. CASE LookFg("INT") \/ LookFg("TSTP") \/ IntKill \/ TstpKill \/ TstpLookup \/ Waitpid
           \/ (\E sig \in Signals : Deliver(sig)) \/ Keystroke
           \/ (\E p \in Pids : ChildStarts(p) \/ ChildDies(p) \/ ChildStops(p)) \/ UNCHANGED vars
  BY <1>3, <1>7 DEF LookFg, IntKill, TstpKill, TstpLookup, Waitpid, Deliver, Keystroke,
     ChildStarts, ChildDies, ChildStops, ChildBecomes, vars
<1>8. CASE ChldDelete
  <2>1. UNCHANGED main
    BY <1>8 DEF ChldDelete
  <2> QED BY <1>2, <1>8, <2>1, DeletedEntries
<1>9. CASE TstpMark \/ ChldStopped
  <2>1. /\ stack # <<>> /\ UNCHANGED main
        /\ MarkStopped(stack[1].slot) \/ MarkStopped(getjobpid(jobs, stack[1].pid))
    BY <1>9 DEF TstpMark, ChldStopped, HandlerAt, Ends, AtPrompt
  <2>2. stack[1].slot \in Slots \cup {0} /\ getjobpid(jobs, stack[1].pid) \in Slots \cup {0}
    <3>1. 1 \in DOMAIN stack /\ stack[1] \in Frame
      BY <1>1, <2>1
    <3> QED BY <3>1, GetjobpidFinds DEF Frame
  <2>3. \A s \in Slots : jobs'[s].pid = jobs[s].pid
    BY <1>1, <2>1, <2>2, MarkStoppedEffect
  <2> QED BY <1>2, <2>1, <2>3
<1> QED BY <1>4, <1>5, <1>6, <1>7, <1>8, <1>9 DEF Next, MainStep, HandlerStep

\* Neither do_bgfg nor sigtstp_handler ever writes the state of a job other than
\* the one it looked up.
THEOREM PointerIsStable == Spec => []JobPointerStable
<1>1. Init => PointerIsHeld
  BY DEF Init, PointerIsHeld, AtPrompt
<1>2. IInv /\ PointerIsHeld /\ [Next]_vars => PointerIsHeld'
  BY StepKeepsPointer
<1>3. PointerIsHeld /\ TargetsAreKnown => JobPointerStable
  BY DEF PointerIsHeld, TargetsAreKnown, Targeted, JobPointerStable
<1> QED BY <1>1, <1>2, <1>3, IInvHolds, TargetsHold, PTL DEF Spec

----------------------------------------------------------------------------
\* The frames that the steps of a handler leave

\* Continue replaces the running frame and Return drops it; no other frame
\* comes, goes or changes.
LEMMA FrameMoves ==
    ASSUME IInv, stack # <<>>
    PROVE  /\ \A pc \in FramePcs, pid \in Pids \cup {0}, slot \in Slots \cup {0} :
                  Continue(pc, pid, slot) =>
                  /\ FrameAt(pc, pid)'
                  /\ \A q, x : FrameAt(q, x)' => FrameAt(q, x) \/ (q = pc /\ x = pid)
                  /\ \A q, x : FrameAt(q, x) =>
                         FrameAt(q, x)' \/ (q = stack[1].pc /\ x = stack[1].pid)
           /\ Return =>
                  /\ \A q, x : FrameAt(q, x)' => FrameAt(q, x)
                  /\ \A q, x : FrameAt(q, x) =>
                         FrameAt(q, x)' \/ (q = stack[1].pc /\ x = stack[1].pid)
<1>1. stack \in Seq(Frame)
  BY DEF IInv, TypeOK
<1>2. ASSUME NEW pc \in FramePcs, NEW pid \in Pids \cup {0},
             NEW slot \in Slots \cup {0}, Continue(pc, pid, slot)
      PROVE  /\ FrameAt(pc, pid)'
             /\ \A q, x : FrameAt(q, x)' => FrameAt(q, x) \/ (q = pc /\ x = pid)
             /\ \A q, x : FrameAt(q, x) =>
                    FrameAt(q, x)' \/ (q = stack[1].pc /\ x = stack[1].pid)
  <2>1. stack' = [stack EXCEPT ![1].pc = pc, ![1].pid = pid, ![1].slot = slot]
    BY <1>2 DEF Continue
  <2>2. /\ DOMAIN stack' = DOMAIN stack /\ 1 \in DOMAIN stack
        /\ stack'[1] = [sig |-> stack[1].sig, pc |-> pc, pid |-> pid, slot |-> slot]
        /\ \A i \in DOMAIN stack : i # 1 => stack'[i] = stack[i]
    <3>1. \A st \in Seq(Frame) : st # <<>> =>
              LET new == [st EXCEPT ![1].pc = pc, ![1].pid = pid, ![1].slot = slot]
              IN  /\ new \in Seq(Frame)
                  /\ DOMAIN new = DOMAIN st
                  /\ 1 \in DOMAIN st
                  /\ new[1] = [sig |-> st[1].sig, pc |-> pc, pid |-> pid, slot |-> slot]
                  /\ \A i \in DOMAIN st : i # 1 => new[i] = st[i]
      BY TopFrameChanged, Zenon
    <3> QED BY <1>1, <2>1, <3>1, Zenon
  <2>3. FrameAt(pc, pid)'
    BY <2>2 DEF FrameAt
  <2>4. \A q, x : FrameAt(q, x)' => FrameAt(q, x) \/ (q = pc /\ x = pid)
    BY <2>2 DEF FrameAt
  <2>5. \A q, x : FrameAt(q, x) => FrameAt(q, x)' \/ (q = stack[1].pc /\ x = stack[1].pid)
    BY <2>2 DEF FrameAt
  <2> QED BY <2>3, <2>4, <2>5
<1>3. ASSUME Return
      PROVE  /\ \A q, x : FrameAt(q, x)' => FrameAt(q, x)
             /\ \A q, x : FrameAt(q, x) =>
                    FrameAt(q, x)' \/ (q = stack[1].pc /\ x = stack[1].pid)
  <2>1. /\ \A i \in DOMAIN stack' : i + 1 \in DOMAIN stack /\ stack'[i] = stack[i + 1]
        /\ \A i \in DOMAIN stack : i # 1 => i - 1 \in DOMAIN stack' /\ stack'[i - 1] = stack[i]
    BY <1>1, <1>3, TopFramePopped DEF Return
  <2> QED BY <2>1 DEF FrameAt
<1> QED BY <1>2, <1>3

\* Deliver adds the frame of the new handler.
LEMMA FrameDelivered ==
    ASSUME IInv, NEW sig \in Signals, Deliver(sig)
    PROVE  /\ \A q, x : FrameAt(q, x) => FrameAt(q, x)'
           /\ \A q, x : FrameAt(q, x)' => FrameAt(q, x) \/ q \in {"fgpid", "waitpid"}
<1> DEFINE frame == [sig |-> sig, pc |-> FirstPc(sig), pid |-> 0, slot |-> 0]
<1>1. stack \in Seq(Frame) /\ stack' = <<frame>> \o stack
  BY DEF IInv, TypeOK, Deliver
<1>2. frame \in Frame /\ frame.pc \in {"fgpid", "waitpid"}
  BY DEF Frame, FramePcs, FirstPc
<1> HIDE DEF frame
<1>3. /\ 1 \in DOMAIN stack' /\ stack'[1] = frame
      /\ \A i \in DOMAIN stack' : i # 1 => i - 1 \in DOMAIN stack /\ stack'[i] = stack[i - 1]
      /\ \A i \in DOMAIN stack : i + 1 \in DOMAIN stack' /\ stack'[i + 1] = stack[i]
  BY <1>1, <1>2, FramePushed
<1> QED BY <1>2, <1>3 DEF FrameAt

\* There is one sigchld_handler at a time: while it runs on top no frame below
\* is at one of its program counters.
LEMMA OneReaper ==
    ASSUME IInv, stack # <<>>, stack[1].sig = "CHLD",
           NEW q \in ReapPcs, NEW x, FrameAt(q, x)
    PROVE  q = stack[1].pc /\ x = stack[1].pid
<1>1. FramesAreSound /\ 1 \in DOMAIN stack
  BY DEF IInv, TypeOK
<1>2. PICK i \in DOMAIN stack : stack[i].pc = q /\ stack[i].pid = x
  BY DEF FrameAt
<1>3. stack[i].sig = "CHLD"
  BY <1>1, <1>2 DEF FramesAreSound
<1>4. i = 1
  BY <1>1, <1>2, <1>3 DEF FramesAreSound
<1> QED BY <1>2, <1>4

\* The frame on top is one of the frames.
LEMMA RunningFrame ==
    ASSUME IInv, stack # <<>>
    PROVE  /\ stack[1] \in Frame /\ stack[1].pid \in Pids \cup {0}
           /\ FrameAt(stack[1].pc, stack[1].pid)
<1>1. stack \in Seq(Frame)
  BY DEF IInv, TypeOK
<1>2. 1 \in DOMAIN stack /\ stack[1] \in Frame
  BY <1>1
<1> QED BY <1>2 DEF Frame, FrameAt

----------------------------------------------------------------------------
\* A stop report ends the shell only when the child has no entry

\* The child whose stop sigchld_handler is about to record has not been reaped.
StoppedFramesAreSound ==
    Alive => \A p \in Pids \cup {0} : FrameAt("stopped", p) => p \in Pids /\ child[p] # "none"

\* Between waitpid's report and the use of it only other handlers run, and
\* those reap nobody.
LEMMA StepKeepsStoppedFrames == IInv /\ StoppedFramesAreSound /\ [Next]_vars => StoppedFramesAreSound'
<1> SUFFICES ASSUME IInv, StoppedFramesAreSound, [Next]_vars, Alive',
                    NEW p \in Pids \cup {0}, FrameAt("stopped", p)'
             PROVE  p \in Pids /\ child'[p] # "none"
  BY DEF StoppedFramesAreSound
<1>1. /\ TypeOK /\ jobs \in [Slots -> Job] /\ child \in [Pids -> ChildStates]
      /\ "stopped" \in ReapPcs
  BY DEF IInv, TypeOK, ReapPcs
<1>2. ASSUME Alive, FrameAt("stopped", p), \A q \in Pids : child'[q] = "none" => child[q] = "none"
      PROVE  p \in Pids /\ child'[p] # "none"
  BY <1>2 DEF StoppedFramesAreSound
<1>3. stack' # <<>>
  BY DEF FrameAt
<1>4. CASE Quit \/ Sigquit
  BY <1>4 DEF Quit, Sigquit, Ends, AtPrompt, Alive, Halted
<1>5. CASE ReadCommand \/ ReadBgfg \/ MainStep
  BY <1>3, <1>5 DEF MainStep, ReadCommand, ReadBgfg, Fork, AddJob, Unmask, WaitfgEnter,
     WaitfgReturn, TakePid, SetState, SendCont, RereadPid, MainAt
<1>6. CASE LookFg("INT") \/ LookFg("TSTP")
  <2>1. /\ Alive /\ stack # <<>> /\ Continue("kill", fgpid(jobs), 0) /\ UNCHANGED child
        /\ fgpid(jobs) \in Pids \cup {0} /\ "kill" \in FramePcs
    BY <1>1, <1>6, FgpidType DEF LookFg, HandlerAt, FramePcs
  <2>2. FrameAt("stopped", p)
    BY <2>1, FrameMoves
  <2> QED BY <1>2, <2>1, <2>2
<1>7. CASE IntKill \/ TstpKill
  <2>1. /\ Alive /\ stack # <<>>
        /\ Return \/ Continue("lookup", stack[1].pid, 0)
        /\ Kill(stack[1].pid, "INT") \/ Kill(stack[1].pid, "TSTP")
        /\ "lookup" \in FramePcs /\ {"INT", "TSTP"} \subseteq Signals
    BY <1>7 DEF IntKill, TstpKill, HandlerAt, FramePcs, Signals
  <2>2. stack[1].pid \in Pids \cup {0}
    BY <2>1, RunningFrame
  <2>3. FrameAt("stopped", p)
    BY <2>1, <2>2, FrameMoves
  <2>4. \A q \in Pids : child'[q] = "none" => child[q] = "none"
    BY <1>1, <2>1, <2>2, KillEffect
  <2> QED BY <1>2, <2>1, <2>3, <2>4
<1>8. CASE TstpLookup \/ TstpMark
  <2>1. /\ Alive /\ stack # <<>> /\ UNCHANGED child
        /\ \/ Return
           \/ Continue("mark", stack[1].pid, getjobpid(jobs, stack[1].pid))
    BY <1>8 DEF TstpLookup, TstpMark, HandlerAt, Ends, AtPrompt, Alive, Halted
  <2>2. FrameAt("stopped", p)
    <3>1. "mark" \in FramePcs /\ stack[1].pid \in Pids \cup {0}
      BY <2>1, RunningFrame DEF FramePcs
    <3>2. getjobpid(jobs, stack[1].pid) \in Slots \cup {0}
      BY GetjobpidFinds
    <3> QED BY <2>1, <3>1, <3>2, FrameMoves
  <2> QED BY <1>2, <2>1, <2>2
<1>9. CASE Waitpid
  <2>1. Alive /\ stack # <<>> /\ stack[1].sig = "CHLD" /\ stack[1].pc = "waitpid"
    BY <1>9 DEF Waitpid, HandlerAt
  <2>2. ~FrameAt("stopped", p)
    BY <1>1, <2>1, OneReaper
  <2>3. {"delete", "stopped"} \subseteq FramePcs
    BY DEF FramePcs
  <2>4. \E q \in Pids : child'[q] = "stopped" /\ Continue("stopped", q, 0)
    BY <1>1, <1>9, <2>1, <2>2, <2>3, FrameMoves DEF Waitpid
  <2> QED BY <2>1, <2>2, <2>3, <2>4, FrameMoves
<1>10. CASE ChldDelete \/ ChldStopped
  <2>1. /\ Alive /\ stack # <<>> /\ UNCHANGED child /\ Continue("waitpid", 0, 0)
        /\ "waitpid" \in FramePcs
    BY <1>10 DEF ChldDelete, ChldStopped, HandlerAt, Ends, AtPrompt, Alive, Halted, FramePcs
  <2>2. FrameAt("stopped", p)
    BY <2>1, FrameMoves
  <2> QED BY <1>2, <2>1, <2>2
<1>11. CASE \E sig \in Signals : Deliver(sig)
  <2>1. PICK sig \in Signals : Deliver(sig)
    BY <1>11
  <2>2. \A q, x : FrameAt(q, x)' => FrameAt(q, x) \/ q \in {"fgpid", "waitpid"}
    BY <2>1, FrameDelivered
  <2>3. Alive /\ UNCHANGED child /\ FrameAt("stopped", p)
    BY <2>1, <2>2 DEF Deliver
  <2> QED BY <1>2, <2>3
<1>12. CASE Keystroke \/ \E q \in Pids : ChildStarts(q) \/ ChildDies(q) \/ ChildStops(q)
  <2>1. Alive /\ UNCHANGED stack /\ \A q \in Pids : child'[q] = "none" => child[q] = "none"
    BY <1>1, <1>12 DEF Keystroke, ChildStarts, ChildDies, ChildStops, ChildBecomes
  <2> QED BY <1>2, <2>1 DEF FrameAt
<1>13. CASE UNCHANGED vars
  BY <1>2, <1>13 DEF vars, FrameAt, Alive
<1> QED BY <1>4, <1>5, <1>6, <1>7, <1>8, <1>9, <1>10, <1>11, <1>12, <1>13 DEF Next, HandlerStep

LEMMA StoppedFramesHold == Spec => []StoppedFramesAreSound
<1>1. Init => StoppedFramesAreSound
  BY DEF Init, StoppedFramesAreSound, FrameAt
<1>2. IInv /\ StoppedFramesAreSound /\ [Next]_vars => StoppedFramesAreSound'
  BY StepKeepsStoppedFrames
<1> QED BY <1>1, <1>2, IInvHolds, PTL DEF Spec

\* The null pointer of getjobpid is written through in sigchld_handler only for
\* a child that addjob had no room for: the others are on the list when they
\* are reported stopped, and no handler takes them off before.  In
\* sigtstp_handler it is so only when there was no foreground job, or when the
\* job has been reaped since.
THEOREM ListedStopsDoNotCrash == Spec => ListedStopsAreSafe
<1> DEFINE safe == main'.pc = "crashed" /\ Alive =>
                       IF stack[1].sig = "TSTP"
                       THEN stack[1].pid = 0 \/ child[stack[1].pid] = "none"
                       ELSE stack[1].pid \in dropped
<1>1. IInv /\ StoppedFramesAreSound /\ TargetsAreKnown /\ [Next]_vars => [safe]_vars
  <2> SUFFICES ASSUME IInv, StoppedFramesAreSound, TargetsAreKnown, Next,
                      main'.pc = "crashed", Alive
               PROVE  IF stack[1].sig = "TSTP"
                      THEN stack[1].pid = 0 \/ child[stack[1].pid] = "none"
                      ELSE stack[1].pid \in dropped
    OBVIOUS
  <2>1. /\ TypeOK /\ main \in Main /\ SignalsHeldBack /\ ChildrenAreListed
    BY DEF IInv, TypeOK
  <2>2. ChldStopped \/ TstpMark
    <3>1. main.pc # "crashed"
      BY DEF Alive, Halted
    <3>2. ~UNCHANGED main
      BY <3>1
    <3>3. ~(Quit \/ Sigquit \/ ReadCommand \/ ReadBgfg)
      BY DEF Quit, Sigquit, ReadCommand, ReadBgfg, Ends, AtPrompt
    <3>4. ~(Fork \/ AddJob \/ TakePid \/ SetState \/ RereadPid)
      BY <2>1 DEF Fork, AddJob, TakePid, SetState, RereadPid, Main
    <3>5. ~(Unmask \/ WaitfgEnter \/ WaitfgReturn \/ SendCont)
      BY <2>1 DEF Unmask, WaitfgEnter, WaitfgReturn, SendCont, AtPrompt, Main
    <3>6. ~(LookFg("INT") \/ LookFg("TSTP") \/ IntKill \/ TstpKill \/ TstpLookup \/ Waitpid
            \/ ChldDelete)
      BY <3>2 DEF LookFg, IntKill, TstpKill, TstpLookup, Waitpid, ChldDelete
    <3>7. ~((\E sig \in Signals : Deliver(sig)) \/ Keystroke)
      BY <3>2 DEF Deliver, Keystroke
    <3>8. ~\E p \in Pids : ChildStarts(p) \/ ChildDies(p) \/ ChildStops(p)
      BY <3>2 DEF ChildStarts, ChildDies, ChildStops, ChildBecomes
    <3> QED BY <3>3, <3>4, <3>5, <3>6, <3>7, <3>8 DEF Next, MainStep, HandlerStep
  <2>3. CASE TstpMark
    <3>1. /\ stack # <<>> /\ stack[1].sig = "TSTP" /\ stack[1].pc = "mark"
          /\ stack[1].slot = 0
      BY <2>3 DEF TstpMark, HandlerAt, Alive, Halted
    <3>2. Targeted(stack[1])
      <4>1. 1 \in DOMAIN stack
        BY <2>1, <3>1 DEF TypeOK
      <4> QED BY <4>1 DEF TargetsAreKnown
    <3> QED BY <3>1, <3>2 DEF Targeted
  <2>4. CASE ChldStopped
    <3>1. /\ stack # <<>> /\ stack[1].sig = "CHLD" /\ stack[1].pc = "stopped"
          /\ getjobpid(jobs, stack[1].pid) = 0
      BY <2>4 DEF ChldStopped, HandlerAt, Alive, Halted
    <3>2. stack[1].pid \in Pids /\ child[stack[1].pid] # "none"
      BY <3>1, RunningFrame DEF StoppedFramesAreSound
    <3>3. ~Listed(stack[1].pid)
      <4>1. stack[1].pid # 0
        BY <3>2, PidsAssumption
      <4>2. 0 \notin Slots
        BY DEF Slots
      <4> QED BY <3>1, <4>1, <4>2, GetjobpidFinds DEF Listed
    <3>4. main.pc # "addjob"
      BY <2>1, <3>1 DEF SignalsHeldBack
    <3>5. stack[1].pid \in dropped
      BY <2>1, <3>2, <3>3, <3>4 DEF ChildrenAreListed
    <3> QED BY <3>1, <3>5
  <2> QED BY <2>2, <2>3, <2>4
<1> QED BY <1>1, IInvHolds, StoppedFramesHold, TargetsHold, PTL DEF Spec, ListedStopsAreSafe

----------------------------------------------------------------------------
\* What the steps do to an entry of the list

\* addjob writes one unused entry, for the child just forked.
LEMMA AddedEntries ==
    ASSUME IInv, AddJob, NEW s \in Slots
    PROVE  \/ jobs'[s] = jobs[s]
           \/ /\ main.pid # 0 /\ jobs'[s].pid = main.pid
              /\ jobs'[s].state = IF main.cmd = "fg" THEN "FG" ELSE "BG"
<1> DEFINE state == IF main.cmd = "fg" THEN "FG" ELSE "BG"
           added == addjob(jobs, nextjid, main.pid, state)
<1>1. jobs \in [Slots -> Job] /\ nextjid \in Nat /\ main.pid \in Pids \cup {0}
  BY DEF IInv, TypeOK, Main
<1>2. jobs' = added.jobs
  BY DEF AddJob
<1>3. state \in {"FG", "BG"}
  OBVIOUS
<1> HIDE DEF state
<1>4. \/ added.jobs = jobs
      \/ main.pid # 0 /\ \E t \in Slots :
            added.jobs = [jobs EXCEPT ![t] = [pid |-> main.pid, jid |-> nextjid, state |-> state]]
  BY <1>1, <1>3, AddjobEffect
<1> HIDE DEF added
<1>5. \/ jobs' = jobs
      \/ main.pid # 0 /\ \E t \in Slots :
            jobs' = [jobs EXCEPT ![t] = [pid |-> main.pid, jid |-> nextjid, state |-> state]]
  BY <1>2, <1>4
<1>6. jobs'[s] = jobs[s] \/ (main.pid # 0 /\ jobs'[s].pid = main.pid /\ jobs'[s].state = state)
  BY <1>1, <1>5
<1> QED BY <1>6 DEF state

\* Of the entries, getjobpid(jobs, pid)->state = ST changes the only one of pid.
LEMMA MarkedEntries ==
    ASSUME IInv, NEW pid \in Pids \cup {0}, MarkStopped(getjobpid(jobs, pid)), NEW s \in Slots
    PROVE  /\ jobs'[s].pid = jobs[s].pid
           /\ jobs'[s].state \in {jobs[s].state, "ST"}
           /\ pid # 0 /\ jobs[s].pid = pid => jobs'[s].state = "ST"
<1>1. jobs \in [Slots -> Job] /\ JobsAreChildren
  BY DEF IInv, TypeOK
<1> DEFINE t == getjobpid(jobs, pid)
<1>2. \/ t = 0 /\ (pid = 0 \/ \A u \in Slots : jobs[u].pid # pid)
      \/ t \in Slots /\ pid # 0 /\ jobs[t].pid = pid
  BY GetjobpidFinds
<1>3. IF t = 0 THEN UNCHANGED jobs ELSE jobs' = [jobs EXCEPT ![t].state = "ST"]
  BY DEF MarkStopped
<1> HIDE DEF t
<1>4. CASE t = 0
  BY <1>2, <1>3, <1>4 DEF Slots
<1>5. CASE t # 0
  <2>1. t \in Slots /\ pid # 0 /\ jobs[t].pid = pid /\ jobs' = [jobs EXCEPT ![t].state = "ST"]
    BY <1>2, <1>3, <1>5
  <2>2. jobs[s].pid = pid => s = t
    BY <1>1, <2>1 DEF JobsAreChildren
  <2>3. jobs'[t].state = "ST" /\ jobs'[t].pid = jobs[t].pid /\ (s # t => jobs'[s] = jobs[s])
    BY <1>1, <2>1 DEF Job
  <2> QED BY <2>2, <2>3
<1> QED BY <1>4, <1>5

----------------------------------------------------------------------------
\* A job that is reported stopped is marked so

\* While eval holds SIGCHLD back nobody has reported the child it has forked.
NewChildUnreported ==
    Alive /\ main.pc = "addjob" /\ main.pid # 0 => child[main.pid] # "stopped"

\* No handler, so no waitpid, runs between fork and addjob.
LEMMA StepKeepsNewChild == IInv /\ NewChildUnreported /\ [Next]_vars => NewChildUnreported'
<1> SUFFICES ASSUME IInv, NewChildUnreported, [Next]_vars, main'.pc = "addjob", main'.pid # 0
             PROVE  child'[main'.pid] # "stopped"
  BY DEF NewChildUnreported
<1>1. /\ TypeOK /\ main \in Main /\ child \in [Pids -> ChildStates] /\ SignalsHeldBack
  BY DEF IInv, TypeOK
<1>2. CASE Fork
  <2>1. PICK p \in Pids : /\ main' = [main EXCEPT !.pc = "addjob", !.pid = p]
                          /\ child' = [child EXCEPT ![p] = "forked"]
    BY <1>1, <1>2 DEF Fork, Main
  <2> QED BY <1>1, <2>1 DEF Main
<1>3. ASSUME ~Fork PROVE UNCHANGED main
  <2>1. ~(Quit \/ Sigquit \/ ReadCommand \/ ReadBgfg)
    BY DEF Quit, Sigquit, ReadCommand, ReadBgfg, Ends, AtPrompt
  <2>2. ~(AddJob \/ TakePid \/ SetState \/ RereadPid)
    BY <1>1 DEF AddJob, TakePid, SetState, RereadPid, Main
  <2>3. ~(Unmask \/ WaitfgEnter \/ WaitfgReturn \/ SendCont)
    BY <1>1 DEF Unmask, WaitfgEnter, WaitfgReturn, SendCont, AtPrompt, Main
  <2>4. \/ LookFg("INT") \/ LookFg("TSTP") \/ IntKill \/ TstpKill \/ TstpLookup
        \/ Waitpid \/ ChldDelete
        => UNCHANGED main
    BY DEF LookFg, IntKill, TstpKill, TstpLookup, Waitpid, ChldDelete
  <2>5. TstpMark \/ ChldStopped => UNCHANGED main
    BY DEF TstpMark, ChldStopped, Ends, AtPrompt
  <2>6. (\E sig \in Signals : Deliver(sig)) \/ Keystroke => UNCHANGED main
    BY DEF Deliver, Keystroke
  <2>7. (\E p \in Pids : ChildStarts(p) \/ ChildDies(p) \/ ChildStops(p)) => UNCHANGED main
    BY DEF ChildStarts, ChildDies, ChildStops, ChildBecomes
  <2>8. UNCHANGED vars => UNCHANGED main
    BY DEF vars
  <2> QED BY <1>3, <2>1, <2>2, <2>3, <2>4, <2>5, <2>6, <2>7, <2>8 DEF Next, MainStep, HandlerStep
<1>4. CASE UNCHANGED main
  <2>1. Alive /\ stack = <<>> /\ main.pid \in Pids /\ child[main.pid] # "stopped"
    BY <1>1, <1>4 DEF Alive, Halted, SignalsHeldBack, NewChildUnreported, Main
  <2>2. ~HandlerStep
    BY <2>1 DEF HandlerStep, LookFg, IntKill, TstpKill, TstpLookup, TstpMark, Waitpid, ChldDelete,
       ChldStopped, HandlerAt
  <2>3. ~(ReadCommand \/ ReadBgfg \/ Quit \/ Sigquit \/ MainStep)
    <3>1. main.pc = "addjob" /\ main'.pc = "addjob"
      BY <1>4
    <3>2. ~(Quit \/ Sigquit)
      BY <3>1 DEF Quit, Sigquit, Ends, AtPrompt
    <3>3. ~AddJob
      BY <1>1, <3>1 DEF AddJob, Main
    <3> QED BY <3>1, <3>2, <3>3 DEF ReadCommand, ReadBgfg, MainStep, Fork, Unmask, WaitfgEnter,
            WaitfgReturn, TakePid, SetState, SendCont, RereadPid, MainAt
  <2>4. CASE (\E sig \in Signals : Deliver(sig)) \/ Keystroke \/ UNCHANGED vars
    BY <1>4, <2>1, <2>4 DEF Deliver, Keystroke, vars
  <2>5. CASE \E p \in Pids : ChildStarts(p) \/ ChildDies(p) \/ ChildStops(p)
    BY <1>1, <1>4, <2>1, <2>5 DEF ChildStarts, ChildDies, ChildStops, ChildBecomes
  <2> QED BY <2>2, <2>3, <2>4, <2>5 DEF Next
<1> QED BY <1>2, <1>3, <1>4

LEMMA NewChildHolds == Spec => []NewChildUnreported
<1>1. Init => NewChildUnreported
  BY DEF Init, NewChildUnreported, AtPrompt
<1>2. IInv /\ NewChildUnreported /\ [Next]_vars => NewChildUnreported'
  BY StepKeepsNewChild
<1> QED BY <1>1, <1>2, IInvHolds, PTL DEF Spec

\* A stop report is either recorded or still to be recorded, whatever do_bgfg
\* does meanwhile: when its write hides the mark, its SIGCONT is to come.
LEMMA StepKeepsStops ==
    IInv /\ JobPointerStable /\ NewChildUnreported /\ StoppedIsKnown /\ [Next]_vars => StoppedIsKnown'
<1> SUFFICES ASSUME IInv, JobPointerStable, NewChildUnreported, StoppedIsKnown, [Next]_vars, Alive',
                    NEW s \in Slots, NEW p \in Pids, jobs'[s].pid = p, child'[p] = "stopped"
             PROVE  \/ jobs'[s].state = "ST"
                    \/ FrameAt("stopped", p)'
                    \/ main'.pc = "sigcont" /\ main'.pid = p
  BY DEF StoppedIsKnown
<1> DEFINE known == \/ jobs'[s].state = "ST"
                    \/ FrameAt("stopped", p)'
                    \/ main'.pc = "sigcont" /\ main'.pid = p
<1>1. /\ TypeOK /\ jobs \in [Slots -> Job] /\ child \in [Pids -> ChildStates]
      /\ main \in Main /\ main.pid \in Pids \cup {0} /\ p # 0
  BY PidsAssumption DEF IInv, TypeOK, Main
<1>2. ASSUME Alive, jobs[s].pid = p, jobs'[s].state \in {jobs[s].state, "ST"}, child[p] = "stopped",
             main.pc = "sigcont" => UNCHANGED main, FrameAt("stopped", p) => FrameAt("stopped", p)'
      PROVE  known
  BY <1>2 DEF StoppedIsKnown
<1>3. ASSUME Alive, UNCHANGED <<jobs, stack, child>>, main.pc # "sigcont" \/ UNCHANGED main
      PROVE  known
  <2>1. FrameAt("stopped", p) => FrameAt("stopped", p)'
    BY <1>3 DEF FrameAt
  <2> QED BY <1>2, <1>3, <2>1
<1>4. CASE Quit \/ Sigquit
  BY <1>4 DEF Quit, Sigquit, Ends, AtPrompt, Alive, Halted
<1>5. CASE ReadCommand \/ ReadBgfg \/ Unmask \/ WaitfgEnter \/ WaitfgReturn \/ TakePid \/ RereadPid
  BY <1>3, <1>5 DEF ReadCommand, ReadBgfg, Unmask, WaitfgEnter, WaitfgReturn, TakePid, RereadPid,
     MainAt, Alive, Halted
<1>6. CASE Fork
  <2>1. Alive /\ main.pc = "fork" /\ UNCHANGED <<jobs, stack>>
    BY <1>6 DEF Fork, MainAt, Alive, Halted
  <2>2. child[p] = "stopped"
    BY <1>1, <1>6 DEF Fork
  <2>3. FrameAt("stopped", p) => FrameAt("stopped", p)'
    BY <2>1 DEF FrameAt
  <2> QED BY <1>2, <2>1, <2>2, <2>3
<1>7. CASE AddJob
  <2>1. Alive /\ main.pc = "addjob" /\ UNCHANGED <<stack, child>>
    BY <1>7 DEF AddJob, MainAt, Alive, Halted
  <2>2. jobs'[s] = jobs[s]
    <3>1. main.pid # 0 => main.pid # p
      BY <2>1 DEF NewChildUnreported
    <3> QED BY <1>1, <1>7, <3>1, AddedEntries
  <2>3. FrameAt("stopped", p) => FrameAt("stopped", p)'
    BY <2>1 DEF FrameAt
  <2> QED BY <1>2, <2>1, <2>2, <2>3
<1>8. CASE SetState
  <2>1. /\ Alive /\ main.pc = "setstate" /\ main' = [main EXCEPT !.pc = "sigcont"]
        /\ jobs' = [jobs EXCEPT ![main.slot].state = IF main.cmd = "fg" THEN "FG" ELSE "BG"]
        /\ UNCHANGED <<stack, child>>
    BY <1>8 DEF SetState, MainAt, Alive, Halted
  <2>2. main.slot \in Slots /\ jobs[main.slot].pid \in {0, main.pid}
    BY <2>1 DEF IInv, SlotIsHeld, JobPointerStable
  <2>3. main'.pc = "sigcont" /\ main'.pid = main.pid
    BY <1>1, <2>1 DEF Main
  <2>4. CASE s = main.slot
    <3>1. jobs'[s].pid = jobs[s].pid
      BY <1>1, <2>1, <2>2, <2>4 DEF Job
    <3> QED BY <1>1, <2>2, <2>3, <2>4, <3>1
  <2>5. CASE s # main.slot
    <3>1. jobs'[s] = jobs[s]
      BY <1>1, <2>1, <2>5
    <3>2. FrameAt("stopped", p) => FrameAt("stopped", p)'
      BY <2>1 DEF FrameAt
    <3> QED BY <1>2, <2>1, <3>1, <3>2
  <2> QED BY <2>4, <2>5
<1>9. CASE SendCont
  <2>1. /\ Alive /\ main.pc = "sigcont" /\ Kill(main.pid, "CONT") /\ UNCHANGED <<jobs, stack>>
    BY <1>9 DEF SendCont, MainAt, Alive, Halted
  <2>2. child[p] = "stopped" /\ p # main.pid
    <3>1. CASE main.pid = 0
      BY <1>1, <2>1, <3>1 DEF Kill
    <3>2. CASE main.pid # 0
      <4>1. PICK state \in Killed(main.pid, "CONT") : child' = [child EXCEPT ![main.pid] = state]
        BY <2>1, <3>2 DEF Kill
      <4>2. main.pid \in Pids /\ state # "stopped"
        BY <1>1, <3>2, <4>1 DEF Killed
      <4> QED BY <1>1, <4>1, <4>2
    <3> QED BY <3>1, <3>2
  <2>3. jobs[s].state = "ST" \/ FrameAt("stopped", p)
    BY <2>1, <2>2 DEF StoppedIsKnown
  <2> QED BY <2>1, <2>3 DEF FrameAt
<1>10. CASE LookFg("INT") \/ LookFg("TSTP")
  <2>1. /\ Alive /\ stack # <<>> /\ stack[1].pc = "fgpid" /\ Continue("kill", fgpid(jobs), 0)
        /\ UNCHANGED <<jobs, main, child>> /\ fgpid(jobs) \in Pids \cup {0} /\ "kill" \in FramePcs
    BY <1>1, <1>10, FgpidType DEF LookFg, HandlerAt, FramePcs
  <2>2. FrameAt("stopped", p) => FrameAt("stopped", p)'
    BY <2>1, FrameMoves
  <2> QED BY <1>2, <2>1, <2>2
<1>11. CASE IntKill \/ TstpKill
  <2>1. /\ Alive /\ stack # <<>> /\ stack[1].pc = "kill" /\ UNCHANGED <<jobs, main>>
        /\ Return \/ Continue("lookup", stack[1].pid, 0)
        /\ Kill(stack[1].pid, "INT") \/ Kill(stack[1].pid, "TSTP")
        /\ "lookup" \in FramePcs /\ stack[1].pid \in Pids \cup {0}
    BY <1>11, RunningFrame DEF IntKill, TstpKill, HandlerAt, FramePcs
  <2>2. FrameAt("stopped", p) => FrameAt("stopped", p)'
    BY <2>1, FrameMoves
  <2>3. child[p] = "stopped"
    <3>1. CASE stack[1].pid = 0
      BY <1>1, <2>1, <3>1 DEF Kill
    <3>2. ASSUME stack[1].pid # 0, NEW sig \in {"INT", "TSTP"}, Kill(stack[1].pid, sig)
          PROVE  child[p] = "stopped"
      <4>1. PICK state \in Killed(stack[1].pid, sig) : child' = [child EXCEPT ![stack[1].pid] = state]
        BY <3>2 DEF Kill
      <4>2. stack[1].pid \in Pids /\ (state = "stopped" => child[stack[1].pid] = "stopped")
        BY <2>1, <3>2, <4>1 DEF Killed
      <4> QED BY <1>1, <4>1, <4>2
    <3> QED BY <2>1, <3>1, <3>2
  <2> QED BY <1>2, <2>1, <2>2, <2>3
<1>12. CASE TstpLookup \/ TstpMark
  <2>1. /\ Alive /\ stack # <<>> /\ stack[1].pc \in {"lookup", "mark"} /\ UNCHANGED <<main, child>>
        /\ \/ Return /\ MarkStopped(stack[1].slot)
           \/ /\ Continue("mark", stack[1].pid, getjobpid(jobs, stack[1].pid))
              /\ UNCHANGED jobs
        /\ stack[1] \in Frame
    BY <1>12, RunningFrame DEF TstpLookup, TstpMark, HandlerAt, Ends, AtPrompt, Alive, Halted
  <2>2. /\ "mark" \in FramePcs /\ stack[1].pid \in Pids \cup {0}
        /\ stack[1].slot \in Slots \cup {0}
        /\ getjobpid(jobs, stack[1].pid) \in Slots \cup {0}
    BY <2>1, GetjobpidFinds DEF Frame, FramePcs
  <2>3. FrameAt("stopped", p) => FrameAt("stopped", p)'
    BY <2>1, <2>2, FrameMoves
  <2>4. jobs'[s].pid = jobs[s].pid /\ jobs'[s].state \in {jobs[s].state, "ST"}
    BY <1>1, <2>1, <2>2, MarkStoppedEffect
  <2> QED BY <1>2, <2>1, <2>3, <2>4
<1>13. CASE Waitpid
  <2>1. /\ Alive /\ stack # <<>> /\ stack[1].pc = "waitpid" /\ UNCHANGED <<jobs, main>>
        /\ {"delete", "stopped"} \subseteq FramePcs
    BY <1>13 DEF Waitpid, HandlerAt, FramePcs
  <2>2. FrameAt("stopped", p) => FrameAt("stopped", p)'
    BY <1>13, <2>1, FrameMoves DEF Waitpid
  <2>3. CASE child[p] = "stopped"
    BY <1>2, <2>1, <2>2, <2>3
  <2>4. CASE child[p] # "stopped"
    <3>1. Continue("stopped", p, 0)
      BY <1>1, <1>13, <2>4 DEF Waitpid
    <3> QED BY <2>1, <3>1, FrameMoves
  <2> QED BY <2>3, <2>4
<1>14. CASE ChldDelete
  <2>1. /\ Alive /\ stack # <<>> /\ stack[1].pc = "delete" /\ UNCHANGED <<main, child>>
        /\ Continue("waitpid", 0, 0) /\ "waitpid" \in FramePcs
    BY <1>14 DEF ChldDelete, HandlerAt, FramePcs
  <2>2. FrameAt("stopped", p) => FrameAt("stopped", p)'
    BY <2>1, FrameMoves
  <2>3. jobs'[s] = jobs[s]
    BY <1>1, <1>14, DeletedEntries DEF NoJob
  <2> QED BY <1>2, <2>1, <2>2, <2>3
<1>15. CASE ChldStopped
  <2>1. /\ Alive /\ stack # <<>> /\ stack[1].pc = "stopped" /\ UNCHANGED <<main, child>>
        /\ Continue("waitpid", 0, 0) /\ "waitpid" \in FramePcs
        /\ MarkStopped(getjobpid(jobs, stack[1].pid)) /\ stack[1].pid \in Pids \cup {0}
    BY <1>15, RunningFrame DEF ChldStopped, HandlerAt, Ends, AtPrompt, Alive, Halted, FramePcs
  <2>2. FrameAt("stopped", p) => FrameAt("stopped", p)' \/ p = stack[1].pid
    <3>1. \A q, x : FrameAt(q, x) => FrameAt(q, x)' \/ (q = stack[1].pc /\ x = stack[1].pid)
      BY <2>1, FrameMoves
    <3> QED BY <3>1
  <2>3. CASE p = stack[1].pid
    BY <1>1, <2>1, <2>3, MarkedEntries
  <2> QED BY <1>2, <2>1, <2>2, <2>3, MarkedEntries
<1>16. CASE \E sig \in Signals : Deliver(sig)
  <2>1. /\ Alive /\ UNCHANGED <<jobs, main, child>>
        /\ FrameAt("stopped", p) => FrameAt("stopped", p)'
    BY <1>16, FrameDelivered DEF Deliver
  <2> QED BY <1>2, <2>1
<1>17. CASE Keystroke \/ UNCHANGED vars
  BY <1>3, <1>17 DEF Keystroke, vars, Alive
<1>18. CASE \E q \in Pids : ChildStarts(q) \/ ChildDies(q) \/ ChildStops(q)
  <2>1. Alive /\ UNCHANGED <<jobs, main, stack>> /\ child[p] = "stopped"
    BY <1>1, <1>18 DEF ChildStarts, ChildDies, ChildStops, ChildBecomes
  <2>2. FrameAt("stopped", p) => FrameAt("stopped", p)'
    BY <2>1 DEF FrameAt
  <2> QED BY <1>2, <2>1, <2>2
<1> QED BY <1>4, <1>5, <1>6, <1>7, <1>8, <1>9, <1>10, <1>11, <1>12, <1>13, <1>14, <1>15, <1>16,
           <1>17, <1>18 DEF Next, MainStep, HandlerStep

\* No order of the handlers and do_bgfg leaves a job that was reported stopped
\* shown as running.
THEOREM StopsAreRecorded == Spec => []StoppedIsKnown
<1>1. Init => StoppedIsKnown
  BY DEF Init, StoppedIsKnown
<1>2. /\ IInv /\ JobPointerStable /\ NewChildUnreported /\ StoppedIsKnown /\ [Next]_vars
      => StoppedIsKnown'
  BY StepKeepsStops
<1> QED BY <1>1, <1>2, IInvHolds, PointerIsStable, NewChildHolds, PTL DEF Spec

----------------------------------------------------------------------------
\* A foreground entry is the job that main is busy with

\* An entry is in the foreground because main made it so for a command that
\* asks for the foreground; a cleared one is not.
ForegroundIsOwed ==
    Alive /\ ~raced => \A s \in Slots : jobs[s].state = "FG" =>
        /\ jobs[s].pid # 0
        /\ main.pc \in {"unmask", "sigcont"} => main.cmd = "fg"

\* The handlers only ever take an entry out of the foreground, and main leaves
\* waitfg only when there is none in it.
LEMMA StepKeepsForeground ==
    IInv /\ ForegroundIsOwed /\ ForegroundIsAwaited /\ [Next]_vars
        => ForegroundIsOwed' /\ ForegroundIsAwaited'
<1> DEFINE starting(s) == main.pc \in {"unmask", "waitfg", "poll"} /\ main.pid = jobs[s].pid
           resuming(s) == /\ main.pc \in {"takepid", "setstate", "sigcont", "rereadpid"}
                          /\ main.slot = s
           asked == main.pc \in {"unmask", "sigcont"} => main.cmd = "fg"
           sound(s) == jobs[s].pid # 0 /\ asked /\ (starting(s) \/ resuming(s))
<1> SUFFICES ASSUME IInv, ForegroundIsOwed, ForegroundIsAwaited, [Next]_vars, Alive', ~raced',
                    NEW s \in Slots, jobs'[s].state = "FG"
             PROVE  sound(s)'
  BY DEF ForegroundIsOwed, ForegroundIsAwaited
<1>1. /\ TypeOK /\ jobs \in [Slots -> Job] /\ child \in [Pids -> ChildStates]
      /\ main \in Main /\ main.pid \in Pids \cup {0}
  BY DEF IInv, TypeOK, Main
<1>2. Alive /\ ~raced => \A t \in Slots : jobs[t].state = "FG" => sound(t)
  BY DEF ForegroundIsOwed, ForegroundIsAwaited
<1>3. ASSUME Alive, ~raced, UNCHANGED main, jobs'[s] = jobs[s]
      PROVE  sound(s)'
  BY <1>2, <1>3
<1>4. CASE Quit \/ Sigquit
  BY <1>4 DEF Quit, Sigquit, Ends, AtPrompt, Alive, Halted
<1>5. CASE ReadCommand \/ ReadBgfg \/ Fork
  <2>1. Alive /\ ~raced /\ main.pc \in {"read", "fork"} /\ UNCHANGED jobs
    <3>1. CASE ReadCommand \/ ReadBgfg
      <4>1. main.pc = "read" /\ UNCHANGED <<jobs, raced>>
        BY <3>1 DEF ReadCommand, ReadBgfg, MainAt
      <4> QED BY <4>1 DEF Alive, Halted
    <3>2. CASE Fork
      BY <3>2 DEF Fork, MainAt, Alive, Halted
    <3> QED BY <1>5, <3>1, <3>2
  <2> QED BY <1>2, <2>1
<1>6. CASE AddJob
  <2>1. Alive /\ ~raced /\ main.pc = "addjob" /\ main' = [main EXCEPT !.pc = "unmask"]
    BY <1>6 DEF AddJob, MainAt, Alive, Halted
  <2>2. main.pid # 0 /\ jobs'[s].pid = main.pid /\ main.cmd = "fg"
    BY <1>2, <1>6, <2>1, AddedEntries
  <2>3. main'.pc = "unmask" /\ main'.pid = main.pid /\ main'.cmd = main.cmd
    BY <1>1, <2>1 DEF Main
  <2> QED BY <2>2, <2>3
<1>7. CASE Unmask
  <2>1. Alive /\ ~raced /\ main.pc = "unmask" /\ UNCHANGED jobs
    BY <1>7 DEF Unmask, MainAt, Alive, Halted
  <2>2. jobs[s].pid # 0 /\ main.cmd = "fg" /\ main.pid = jobs[s].pid
    BY <1>2, <2>1
  <2>3. main' = [main EXCEPT !.pc = "waitfg"]
    BY <1>7, <2>2 DEF Unmask
  <2> QED BY <1>1, <2>1, <2>2, <2>3 DEF Main
<1>8. CASE WaitfgEnter
  <2>1. Alive /\ ~raced /\ main.pc = "waitfg" /\ UNCHANGED jobs
    BY <1>8 DEF WaitfgEnter, MainAt, Alive, Halted
  <2>2. jobs[s].pid # 0 /\ main.pid = jobs[s].pid
    BY <1>2, <2>1
  <2>3. getjobpid(jobs, main.pid) # 0
    BY <2>2, GetjobpidFinds DEF Slots
  <2>4. main' = [main EXCEPT !.pc = "poll"]
    BY <1>8, <2>3 DEF WaitfgEnter
  <2> QED BY <1>1, <2>1, <2>2, <2>4 DEF Main
<1>9. CASE WaitfgReturn
  <2>1. Alive /\ ~raced /\ main.pc = "poll" /\ UNCHANGED jobs /\ main.pid # fgpid(jobs)
    BY <1>9 DEF WaitfgReturn, MainAt, Alive, Halted
  <2>2. PICK t \in Slots : jobs[t].state = "FG" /\ fgpid(jobs) = jobs[t].pid
    BY <2>1, FgpidFinds
  <2> QED BY <1>2, <2>1, <2>2
<1>10. CASE TakePid
  <2>1. /\ Alive /\ ~raced /\ main.pc = "takepid" /\ UNCHANGED jobs
        /\ main' = [main EXCEPT !.pc = "setstate", !.pid = jobs[main.slot].pid]
    BY <1>10 DEF TakePid, MainAt, Alive, Halted
  <2>2. main'.pc = "setstate" /\ main'.slot = main.slot
    BY <1>1, <2>1 DEF Main
  <2> QED BY <1>2, <2>1, <2>2
<1>11. CASE SetState
  <2>1. /\ Alive /\ ~raced /\ main.pc = "setstate" /\ main' = [main EXCEPT !.pc = "sigcont"]
        /\ jobs' = [jobs EXCEPT ![main.slot].state = IF main.cmd = "fg" THEN "FG" ELSE "BG"]
        /\ jobs[main.slot].pid # 0
    BY <1>11 DEF SetState, MainAt, Alive, Halted
  <2>2. main'.pc = "sigcont" /\ main'.slot = main.slot /\ main'.cmd = main.cmd
    BY <1>1, <2>1 DEF Main
  <2>3. s = main.slot
    BY <1>1, <1>2, <2>1
  <2>4. /\ jobs'[s].pid = jobs[s].pid
        /\ jobs'[s].state = IF main.cmd = "fg" THEN "FG" ELSE "BG"
    BY <1>1, <2>1, <2>3 DEF Job
  <2> QED BY <2>1, <2>2, <2>3, <2>4
<1>12. CASE SendCont
  <2>1. Alive /\ ~raced /\ main.pc = "sigcont" /\ UNCHANGED jobs
    BY <1>12 DEF SendCont, MainAt, Alive, Halted
  <2>2. jobs[s].pid # 0 /\ main.cmd = "fg" /\ main.slot = s
    BY <1>2, <2>1
  <2>3. main' = [main EXCEPT !.pc = "rereadpid"]
    BY <1>12, <2>2 DEF SendCont
  <2> QED BY <1>1, <2>1, <2>2, <2>3 DEF Main
<1>13. CASE RereadPid
  <2>1. /\ Alive /\ ~raced /\ main.pc = "rereadpid" /\ UNCHANGED jobs
        /\ main' = [main EXCEPT !.pc = "waitfg", !.pid = jobs[main.slot].pid, !.slot = 0]
    BY <1>13 DEF RereadPid, MainAt, Alive, Halted
  <2>2. jobs[s].pid # 0 /\ main.slot = s
    BY <1>2, <2>1
  <2> QED BY <1>1, <2>1, <2>2 DEF Main
<1>14. CASE LookFg("INT") \/ LookFg("TSTP") \/ IntKill \/ TstpKill \/ TstpLookup \/ Waitpid
            \/ (\E sig \in Signals : Deliver(sig)) \/ Keystroke
            \/ (\E p \in Pids : ChildStarts(p) \/ ChildDies(p) \/ ChildStops(p)) \/ UNCHANGED vars
  <2>1. Alive /\ ~raced /\ UNCHANGED <<jobs, main>>
    <3>1. LookFg("INT") \/ LookFg("TSTP") \/ IntKill \/ TstpKill \/ TstpLookup \/ Waitpid
          => Alive /\ UNCHANGED <<jobs, main, raced>>
      BY DEF LookFg, IntKill, TstpKill, TstpLookup, Waitpid, HandlerAt
    <3>2. (\E sig \in Signals : Deliver(sig)) \/ Keystroke => Alive /\ UNCHANGED <<jobs, main, raced>>
      BY DEF Deliver, Keystroke
    <3>3. (\E p \in Pids : ChildStarts(p) \/ ChildDies(p) \/ ChildStops(p))
          => Alive /\ UNCHANGED <<jobs, main, raced>>
      BY DEF ChildStarts, ChildDies, ChildStops, ChildBecomes
    <3>4. UNCHANGED vars => Alive /\ UNCHANGED <<jobs, main, raced>>
      BY DEF vars, Alive
    <3> QED BY <1>14, <3>1, <3>2, <3>3, <3>4
  <2> QED BY <1>3, <2>1
<1>15. CASE TstpMark \/ ChldStopped
  <2>1. /\ Alive /\ ~raced /\ stack # <<>> /\ UNCHANGED main /\ stack[1] \in Frame
        /\ \/ MarkStopped(stack[1].slot)
           \/ MarkStopped(getjobpid(jobs, stack[1].pid))
    BY <1>15, RunningFrame DEF TstpMark, ChldStopped, HandlerAt, Ends, AtPrompt, Alive, Halted
  <2>2. stack[1].slot \in Slots \cup {0} /\ getjobpid(jobs, stack[1].pid) \in Slots \cup {0}
    BY <2>1, GetjobpidFinds DEF Frame
  <2>3. jobs'[s].pid = jobs[s].pid /\ jobs[s].state = "FG"
    BY <1>1, <2>1, <2>2, MarkStoppedEffect
  <2> QED BY <1>2, <2>1, <2>3
<1>16. CASE ChldDelete
  <2>1. Alive /\ ~raced /\ UNCHANGED main
    BY <1>16 DEF ChldDelete, HandlerAt
  <2>2. jobs'[s] = jobs[s]
    BY <1>16, DeletedEntries DEF NoJob
  <2> QED BY <1>3, <2>1, <2>2
<1> QED BY <1>4, <1>5, <1>6, <1>7, <1>8, <1>9, <1>10, <1>11, <1>12, <1>13, <1>14, <1>15, <1>16
        DEF Next, MainStep, HandlerStep

\* As long as do_bgfg has not written to an entry cleared under it, a job in the
\* foreground is the one the shell is starting, resuming or waiting for: none is
\* left behind at the prompt.
THEOREM NoForegroundAtPrompt == Spec => []ForegroundIsAwaited
<1>1. Init => ForegroundIsOwed /\ ForegroundIsAwaited
  BY DEF Init, ForegroundIsOwed, ForegroundIsAwaited, initjobs, NoJob
<1>2. IInv /\ ForegroundIsOwed /\ ForegroundIsAwaited /\ [Next]_vars
      => ForegroundIsOwed' /\ ForegroundIsAwaited'
  BY StepKeepsForeground
<1> QED BY <1>1, <1>2, IInvHolds, PTL DEF Spec
=============================================================================
