--------------------------- MODULE JobAdmission ---------------------------
(***************************************************************************)
(* What the lock files of sbackup promise, with the files abstracted away: *)
(* a process is admitted to back up a job only while no other process is   *)
(* backing up that job and fewer than MaxParallelJobs processes are        *)
(* backing up anything.  BackupRun implements this with flock(2) files.    *)
(***************************************************************************)
EXTENDS Integers, FiniteSets

CONSTANTS Process,          \* invocations of sbackup that run jobs
          Job,              \* configured jobs
          MaxParallelJobs,  \* global.max_parallel_jobs
          None

VARIABLE active             \* the job each process is backing up, or None

Init == active = [p \in Process |-> None]

Admit(p, j) ==
  /\ active[p] = None
  /\ \A q \in Process : active[q] # j
  /\ Cardinality({q \in Process : active[q] # None}) < MaxParallelJobs
  /\ active' = [active EXCEPT ![p] = j]

Leave(p) ==
  /\ active[p] # None
  /\ active' = [active EXCEPT ![p] = None]

Next == \E p \in Process : Leave(p) \/ \E j \in Job : Admit(p, j)

Spec == Init /\ [][Next]_active
=============================================================================
