------------------------------ MODULE JobList ------------------------------
(* The job list of the shell: the array jobs[MAXJOBS] with its counter      *)
(* nextjid, and the helper routines that read and change it.  A routine is  *)
(* an operator on the value of the array; the command line a job keeps for  *)
(* printing is left out.                                                    *)
EXTENDS Integers, FiniteSets

CONSTANTS
    Pids,       \* the process ids that fork may return
    MAXJOBS     \* number of entries of the array jobs

LOCAL Sets == INSTANCE FiniteSetsExt

ASSUME PidsAssumption == 0 \notin Pids

ASSUME MaxJobsAssumption == MAXJOBS \in Nat

\* The indices of jobs; 0 stands for the pointer NULL.
Slots == 1..MAXJOBS

JobStates == {"UNDEF", "FG", "BG", "ST"}

Job == [pid : Pids \cup {0}, jid : Nat, state : JobStates]

\* clearjob: what an unused entry holds.
NoJob == [pid |-> 0, jid |-> 0, state |-> "UNDEF"]

initjobs == [s \in Slots |-> NoJob]

\* Every lookup scans the array upwards and stops at the first hit.
FirstOf(S) == IF S = {} THEN 0 ELSE Sets!Min(S)

getjobpid(jobs, pid) == FirstOf({s \in Slots : pid # 0 /\ jobs[s].pid = pid})

getjobjid(jobs, jid) == FirstOf({s \in Slots : jid # 0 /\ jobs[s].jid = jid})

fgpid(jobs) ==
    LET s == FirstOf({t \in Slots : jobs[t].state = "FG"})
    IN  IF s = 0 THEN 0 ELSE jobs[s].pid

maxjid(jobs) == Sets!Max({0} \cup {jobs[s].jid : s \in Slots})

\* addjob's test for a full table is made on the same scan that finds a slot.
freeslot(jobs) == FirstOf({s \in Slots : jobs[s].pid = 0})

IsFull(jobs) == freeslot(jobs) = 0

\* The array and the counter as addjob(jobs, pid, state) leaves them.
addjob(jobs, nextjid, pid, state) ==
    IF pid = 0 \/ IsFull(jobs)
    THEN [jobs |-> jobs, nextjid |-> nextjid]
    ELSE [jobs    |-> [jobs EXCEPT ![freeslot(jobs)] =
                          [pid |-> pid, jid |-> nextjid, state |-> state]],
          nextjid |-> IF nextjid + 1 > MAXJOBS THEN 1 ELSE nextjid + 1]

\* Mutant: give back the last id handed out, whichever job ends.
deletejobDecrement(jobs, nextjid, pid) ==
    LET s == getjobpid(jobs, pid)
    IN  IF s = 0
        THEN [jobs |-> jobs, nextjid |-> nextjid]
        ELSE [jobs |-> [jobs EXCEPT ![s] = NoJob], nextjid |-> nextjid - 1]

\* Mutant: close the gap by moving the later entries down.
deletejobCompact(jobs, nextjid, pid) ==
    LET s == getjobpid(jobs, pid)
        moved == [t \in Slots |-> IF t < s THEN jobs[t]
                                  ELSE IF t < MAXJOBS THEN jobs[t + 1] ELSE NoJob]
    IN  IF s = 0
        THEN [jobs |-> jobs, nextjid |-> nextjid]
        ELSE [jobs |-> moved, nextjid |-> maxjid(moved) + 1]

\* The array and the counter as deletejob(jobs, pid) leaves them.
deletejob(jobs, nextjid, pid) ==
    LET s == getjobpid(jobs, pid)
        cleared == [jobs EXCEPT ![s] = NoJob]
    IN  IF s = 0
        THEN [jobs |-> jobs, nextjid |-> nextjid]
        ELSE [jobs |-> cleared, nextjid |-> maxjid(cleared) + 1]
=============================================================================
