----------------------------- MODULE BackupRun -----------------------------
(***************************************************************************)
(* Concurrent invocations of backup.Service.RunWithMode on one host: the   *)
(* per-job lock and the global slots (internal/lock), the phases of a run, *)
(* its row in the runs table (internal/store), its JSONL log, its staging  *)
(* directory, the Restic snapshots it makes and forgets, the completion    *)
(* callback, crashes, task timeouts, retention applied by hand, and the    *)
(* removal of a job together with its history.                             *)
(*                                                                         *)
(* Run identifiers are store.NewID values; they are numbered in the order  *)
(* the runs started, which is the order of runs.started_at.                *)
(***************************************************************************)
EXTENDS Integers, FiniteSets

CONSTANTS Process,           \* invocations of sbackup: timers, CLI, menu
          Job,
          MaxParallelJobs,   \* global.max_parallel_jobs
          WithDatabases,     \* jobs with sources.databases
          WithRetention,     \* jobs with retention.forget_after_backup
          WithVerification,  \* jobs with verification.metadata_after_backup
          WithMail,          \* jobs that notify by SMTP
          Removable,         \* bound: jobs the administrator may delete
          ByHand,            \* bound: jobs whose retention is applied by hand
          MaxRuns,           \* bound: runs recorded in one behaviour
          None

ASSUME BackupRunAssumption ==
  /\ IsFiniteSet(Process)
  /\ None \notin Process \cup Job
  /\ MaxParallelJobs \in Nat \ {0}
  /\ MaxRuns \in Nat \ {0}

RunId == 1 .. MaxRuns

\* Mutation: the scan of AcquireSlot runs to limit inclusive
SlotInclusive == 0 .. MaxParallelJobs
Slot == 0 .. MaxParallelJobs - 1

Phase == {"preflight", "preparing_sources", "backing_up", "retention",
          "verifying_metadata", "completed"}
Status == {"running", "success", "warning", "failed"}
\* "NOT_PREPARED" stands for CONFIG_ERROR, MISSING_RUNTIME, TEMP_DIR_FAILED,
\* SOURCE_NOT_READABLE and DATABASE_DUMP_FAILED; "RESTIC_FAILED" for
\* RESTIC_BACKUP_FAILED and RESTIC_INVALID_OUTPUT
ErrorCode == {"", "NOT_PREPARED", "RESTIC_FAILED", "TASK_TIMEOUT",
              "STATE_SAVE_FAILED"}

(* What a process holds in its local variables: r of RunWithMode, the slot *)
(* it holds or probes, whether warnings is non-empty, whether runCtx ended *)
LocalRun == [id : 0 .. MaxRuns, job : Job \cup {None}, slot : Nat,
             phase : Phase, status : Status, snap : BOOLEAN,
             code : ErrorCode, warned : BOOLEAN, expired : BOOLEAN]
Row == [job : Job, phase : Phase, status : Status, snap : BOOLEAN,
        code : ErrorCode]
Snapshot == [id : RunId, job : Job]
Location == {"idle", "locking", "slotting", "beginning", "announcing",
             "preflight", "saving", "working", "failing", "notifying",
             "cleaning", "releasing", "unlocking"}
Notice == {"success", "recovery", "warning", "failure"}

ASSUME NoneIsNoRow == None \notin Row \cup Notice

VARIABLES
  pc,         \* where each process is in RunWithMode
  run,        \* its local variables
  jobLock,    \* holder of job-<id>.lock, or None
  slotLock,   \* holder of global-<i>.lock, or None
  runs,       \* the runs table: a row or None for every run
  lastId,     \* the last run identifier handed out
  logs,       \* runs with a JSONL log file
  staged,     \* runs with a staging directory
  snapshots,  \* snapshots in the repository, tagged sbackup-job=<job>
  orphans,    \* Restic commands that outlived the process that started them
  announced,  \* runs OnRunStarted was called for
  notice,     \* what OnRunFinished sent for a run, or None
  removed,    \* jobs deleted from the configuration
  purge,      \* a DeleteJobRuns in progress, or None
  thinned,    \* history: jobs whose retention was applied by hand
  crashed,    \* history: runs whose process died
  unsaved,    \* history: runs whose failure could not be saved
  unread,     \* history: successes told although the row before was not read
  deleted     \* history: runs whose row DeleteJobRuns removed

lockVars  == <<jobLock, slotLock>>
adminVars == <<removed, purge, thinned, deleted>>
history   == <<announced, notice, crashed, unsaved, unread>>
vars == <<pc, run, lockVars, runs, lastId, logs, staged, snapshots, orphans,
          history, adminVars>>

NoRun == [id |-> 0, job |-> None, slot |-> 0, phase |-> "preflight",
          status |-> "running", snap |-> FALSE, code |-> "",
          warned |-> FALSE, expired |-> FALSE]

Init ==
  /\ pc = [p \in Process |-> "idle"]
  /\ run = [p \in Process |-> NoRun]
  /\ jobLock = [j \in Job |-> None]
  /\ slotLock = [i \in Slot |-> None]
  /\ runs = [id \in RunId |-> None]
  /\ lastId = 0
  /\ logs = {} /\ staged = {} /\ snapshots = {} /\ orphans = {}
  /\ announced = {} /\ notice = [id \in RunId |-> None]
  /\ removed = {} /\ purge = None /\ thinned = {}
  /\ crashed = {} /\ unsaved = {} /\ unread = {} /\ deleted = {}

Goto(p, location, r) ==
  /\ pc' = [pc EXCEPT ![p] = location]
  /\ run' = [run EXCEPT ![p] = r]

---------------------------------------------------------------------------
(* Records *)

RowOf(r) == [job |-> r.job, phase |-> r.phase, status |-> r.status,
             snap |-> r.snap, code |-> r.code]

\* store.SaveRun is an upsert: it also writes a row that was deleted
SaveRun(r) == runs' = [runs EXCEPT ![r.id] = RowOf(r)]

RowsOf(j) == {id \in RunId : runs[id] # None /\ runs[id].job = j}

\* Mutation: the query forgets id<>?
CompletedUpTo(j, id) == {i \in RowsOf(j) : runs[i].status # "running"}

\* store.LastCompletedBefore: the latest other row of the job that ended
CompletedBefore(j, id) ==
  {i \in RowsOf(j) \ {id} : runs[i].status # "running"}
RecoversFrom(j, id) ==
  \E i \in CompletedBefore(j, id) :
    /\ \A k \in CompletedBefore(j, id) : k <= i
    /\ runs[i].status \in {"failed", "warning"}

\* Mutation: a phase the run history does not know
FailedRunPhase(r, code) ==
  [r EXCEPT !.phase = "failed", !.status = "failed", !.code = code]

FailedRun(r, code) ==
  [r EXCEPT !.phase = "completed", !.status = "failed", !.code = code]

NextPhase(r) ==
  LET checking == IF r.job \in WithVerification THEN "verifying_metadata"
                                                ELSE "completed"
  IN CASE r.phase = "preflight" /\ r.job \in WithDatabases -> "preparing_sources"
       [] r.phase = "backing_up" -> IF r.job \in WithRetention THEN "retention"
                                                               ELSE checking
       [] r.phase = "retention" -> checking
       [] r.phase = "verifying_metadata" -> "completed"
       [] OTHER -> "backing_up"

\* The run with its next phase, and its final status when that ends it
Advanced(r) ==
  LET next == NextPhase(r)
  IN [r EXCEPT !.phase = next,
               !.status = IF next # "completed" THEN @
                          ELSE IF r.warned THEN "warning" ELSE "success"]

---------------------------------------------------------------------------
(* Admission: the job lock, then a global slot *)

Request(p, j) ==
  /\ pc[p] = "idle" /\ j \notin removed
  /\ Goto(p, "locking", [NoRun EXCEPT !.job = j])
  /\ UNCHANGED <<lockVars, runs, lastId, logs, staged, snapshots, orphans,
                 history, adminVars>>

\* Mutation: the result of flock is not looked at
AcquireJobUnchecked(p) ==
  /\ pc[p] = "locking"
  /\ jobLock' = [jobLock EXCEPT ![run[p].job] = p]
  /\ Goto(p, "slotting", run[p])
  /\ UNCHANGED <<slotLock, runs, lastId, logs, staged, snapshots, orphans,
                 history, adminVars>>

AcquireJob(p) ==
  /\ pc[p] = "locking"
  /\ \/ /\ jobLock[run[p].job] = None
        /\ jobLock' = [jobLock EXCEPT ![run[p].job] = p]
        /\ Goto(p, "slotting", run[p])
     \/ /\ jobLock[run[p].job] # None
        /\ Goto(p, "idle", NoRun)
        /\ UNCHANGED jobLock
  /\ UNCHANGED <<slotLock, runs, lastId, logs, staged, snapshots, orphans,
                 history, adminVars>>

\* One probe of AcquireSlot's scan; others may take or free slots in between
AcquireSlot(p) ==
  LET i == run[p].slot
  IN /\ pc[p] = "slotting"
     /\ \/ /\ slotLock[i] = None
           /\ slotLock' = [slotLock EXCEPT ![i] = p]
           /\ Goto(p, "beginning", run[p])
        \/ /\ slotLock[i] # None /\ i + 1 \in Slot
           /\ Goto(p, "slotting", [run[p] EXCEPT !.slot = i + 1])
           /\ UNCHANGED slotLock
        \/ /\ slotLock[i] # None /\ i + 1 \notin Slot
           /\ Goto(p, "unlocking", run[p])
           /\ UNCHANGED slotLock
     /\ UNCHANGED <<jobLock, runs, lastId, logs, staged, snapshots, orphans,
                    history, adminVars>>

\* NewID, NewLogger and the first SaveRun.  A failure is reported to no one
\* and leaves at most a log file under an identifier nothing else uses.
Begin(p) ==
  LET r == [run[p] EXCEPT !.id = lastId + 1]
  IN /\ pc[p] = "beginning"
     /\ \/ /\ lastId < MaxRuns
           /\ lastId' = lastId + 1
           /\ logs' = logs \cup {r.id}
           /\ SaveRun(r)
           /\ Goto(p, "announcing", r)
        \/ Goto(p, "releasing", run[p]) /\ UNCHANGED <<lastId, logs, runs>>
     /\ UNCHANGED <<lockVars, staged, snapshots, orphans, history, adminVars>>

---------------------------------------------------------------------------
(* The phases of an admitted run *)

Announce(p) ==
  /\ pc[p] = "announcing"
  /\ announced' = announced \cup {run[p].id}
  /\ Goto(p, "preflight", run[p])
  /\ UNCHANGED <<lockVars, runs, lastId, logs, staged, snapshots, orphans,
                 notice, crashed, unsaved, unread, adminVars>>

\* Mutation: a preflight error is returned without going through fail
PreflightReturns(p) ==
  /\ pc[p] = "preflight"
  /\ \/ staged' = staged \cup {run[p].id} /\ Goto(p, "saving", Advanced(run[p]))
     \/ Goto(p, "cleaning", run[p]) /\ UNCHANGED staged
  /\ UNCHANGED <<lockVars, runs, lastId, logs, snapshots, orphans, history,
                 adminVars>>

\* Storage, runtime and sources are checked, then the staging directory made
Preflight(p) ==
  /\ pc[p] = "preflight"
  /\ \/ staged' = staged \cup {run[p].id} /\ Goto(p, "saving", Advanced(run[p]))
     \/ Goto(p, "failing", FailedRun(run[p], "NOT_PREPARED")) /\ UNCHANGED staged
  /\ UNCHANGED <<lockVars, runs, lastId, logs, snapshots, orphans, history,
                 adminVars>>

\* Mutation: the row is not saved before the retention phase
SavePhaseLate(p) ==
  /\ pc[p] = "saving"
  /\ IF run[p].phase = "retention" THEN UNCHANGED runs ELSE SaveRun(run[p])
  /\ Goto(p, IF run[p].phase = "completed" THEN "notifying" ELSE "working", run[p])
  /\ UNCHANGED <<lockVars, lastId, logs, staged, snapshots, orphans, history,
                 adminVars>>

\* SaveRun with the phase about to start, or with the final status
SavePhase(p) ==
  /\ pc[p] = "saving"
  /\ \/ /\ SaveRun(run[p])
        /\ Goto(p, IF run[p].phase = "completed" THEN "notifying" ELSE "working", run[p])
     \/ /\ Goto(p, "failing", FailedRun(run[p], "STATE_SAVE_FAILED"))
        /\ UNCHANGED runs
  /\ UNCHANGED <<lockVars, lastId, logs, staged, snapshots, orphans, history,
                 adminVars>>

\* A command under a context that has ended is killed, so it cannot succeed
Working(p, phase) == pc[p] = "working" /\ run[p].phase = phase

DumpDatabases(p) ==
  /\ Working(p, "preparing_sources")
  /\ \/ ~run[p].expired /\ Goto(p, "saving", Advanced(run[p]))
     \/ Goto(p, "failing", FailedRun(run[p], "NOT_PREPARED"))
  /\ UNCHANGED <<lockVars, runs, lastId, logs, staged, snapshots, orphans,
                 history, adminVars>>

\* Mutation: the empty SnapshotID of the summary is accepted
BackUpUnchecked(p) ==
  /\ Working(p, "backing_up")
  /\ ~run[p].expired
  /\ \E found \in BOOLEAN : Goto(p, "saving", Advanced([run[p] EXCEPT !.snap = found]))
  /\ snapshots' = snapshots \cup {[id |-> run[p].id, job |-> run[p].job]}
  /\ UNCHANGED <<lockVars, runs, lastId, logs, staged, orphans, history, adminVars>>

\* restic backup can leave a snapshot and still fail or be killed
BackUp(p) ==
  LET made == snapshots \cup {[id |-> run[p].id, job |-> run[p].job]}
      FailWith(code) == /\ snapshots' \in {snapshots, made}
                        /\ Goto(p, "failing", FailedRun(run[p], code))
  IN /\ Working(p, "backing_up")
     /\ \/ /\ ~run[p].expired /\ snapshots' = made
           /\ Goto(p, "saving", Advanced([run[p] EXCEPT !.snap = TRUE]))
        \/ FailWith(IF run[p].expired THEN "TASK_TIMEOUT" ELSE "RESTIC_FAILED")
     /\ UNCHANGED <<lockVars, runs, lastId, logs, staged, orphans, history,
                    adminVars>>

\* restic forget keeps the newest snapshot of the job under every policy; one
\* that fails midway may have removed some snapshots already
Thinned(j) ==
  LET older == {s \in snapshots : \E t \in snapshots :
                  s.job = j /\ t.job = s.job /\ t.id > s.id}
  IN {snapshots \ gone : gone \in SUBSET older}

Forget(p) ==
  /\ Working(p, "retention")
  /\ snapshots' \in Thinned(run[p].job)
  /\ \/ ~run[p].expired /\ Goto(p, "saving", Advanced(run[p]))
     \/ Goto(p, "saving", Advanced([run[p] EXCEPT !.warned = TRUE]))
  /\ UNCHANGED <<lockVars, runs, lastId, logs, staged, orphans, history,
                 adminVars>>

Verify(p) ==
  /\ Working(p, "verifying_metadata")
  /\ \/ ~run[p].expired /\ Goto(p, "saving", Advanced(run[p]))
     \/ Goto(p, "saving", Advanced([run[p] EXCEPT !.warned = TRUE]))
  /\ UNCHANGED <<lockVars, runs, lastId, logs, staged, snapshots, orphans,
                 history, adminVars>>

\* Mutation: only the backup itself runs under the task's timeout
ExpireBackup(p) ==
  /\ Working(p, "backing_up")
  /\ ~run[p].expired
  /\ Goto(p, pc[p], [run[p] EXCEPT !.expired = TRUE])
  /\ UNCHANGED <<lockVars, runs, lastId, logs, staged, snapshots, orphans,
                 history, adminVars>>

\* schedule.timeout ends runCtx
Expire(p) ==
  /\ pc[p] \in {"preflight", "saving", "working"}
  /\ ~run[p].expired
  /\ Goto(p, pc[p], [run[p] EXCEPT !.expired = TRUE])
  /\ UNCHANGED <<lockVars, runs, lastId, logs, staged, snapshots, orphans,
                 history, adminVars>>

---------------------------------------------------------------------------
(* The end of a run *)

\* Mutation: the callback runs although the failure was not saved
SaveFailureOrNot(p) ==
  /\ pc[p] = "failing"
  /\ SaveRun(run[p]) \/ UNCHANGED runs
  /\ Goto(p, "notifying", run[p])
  /\ UNCHANGED <<lockVars, lastId, logs, staged, snapshots, orphans,
                 announced, notice, crashed, unsaved, unread, adminVars>>

\* Mutation: the staging directory is removed after reporting, not deferred
SaveFailureEarly(p) ==
  /\ pc[p] = "failing"
  /\ \/ SaveRun(run[p]) /\ Goto(p, "notifying", run[p]) /\ UNCHANGED unsaved
     \/ /\ unsaved' = unsaved \cup {run[p].id}
        /\ Goto(p, "releasing", run[p]) /\ UNCHANGED runs
  /\ UNCHANGED <<lockVars, lastId, logs, staged, snapshots, orphans,
                 announced, notice, crashed, unread, adminVars>>

\* fail: when the failure cannot be saved, the callback is skipped
SaveFailure(p) ==
  /\ pc[p] = "failing"
  /\ \/ SaveRun(run[p]) /\ Goto(p, "notifying", run[p]) /\ UNCHANGED unsaved
     \/ /\ unsaved' = unsaved \cup {run[p].id}
        /\ Goto(p, "cleaning", run[p]) /\ UNCHANGED runs
  /\ UNCHANGED <<lockVars, lastId, logs, staged, snapshots, orphans,
                 announced, notice, crashed, unread, adminVars>>

\* OnRunFinished; a previous outcome that cannot be read is taken for a good one
NoticeFor(r, read) ==
  CASE r.status = "warning" -> "warning"
    [] r.status = "failed" -> "failure"
    [] OTHER -> IF read /\ RecoversFrom(r.job, r.id) THEN "recovery" ELSE "success"

\* The callback, whose query of the table may fail
Tell(r) ==
  \E read \in BOOLEAN :
    /\ notice' = [notice EXCEPT ![r.id] = NoticeFor(r, read)]
    /\ unread' = IF read \/ r.status # "success" THEN unread ELSE unread \cup {r.id}

\* Mutation: an error of the callback fails the run that was already saved
NotifyOrFail(p) ==
  /\ pc[p] = "notifying"
  /\ Tell(run[p])
  /\ \/ Goto(p, "cleaning", run[p])
     \/ Goto(p, "failing", FailedRun(run[p], "RESTIC_FAILED"))
  /\ UNCHANGED <<lockVars, runs, lastId, logs, staged, snapshots, orphans,
                 announced, crashed, unsaved, adminVars>>

Notify(p) ==
  /\ pc[p] = "notifying"
  /\ Tell(run[p])
  /\ Goto(p, "cleaning", run[p])
  /\ UNCHANGED <<lockVars, runs, lastId, logs, staged, snapshots, orphans,
                 announced, crashed, unsaved, adminVars>>

\* Mutation: the job lock is released first
RemoveStageUnlocking(p) ==
  /\ pc[p] = "cleaning"
  /\ staged' = staged \ {run[p].id}
  /\ jobLock' = [jobLock EXCEPT ![run[p].job] = None]
  /\ Goto(p, "releasing", run[p])
  /\ UNCHANGED <<slotLock, runs, lastId, logs, snapshots, orphans, history,
                 adminVars>>

\* The deferred calls, last registered first
RemoveStage(p) ==
  /\ pc[p] = "cleaning"
  /\ staged' = staged \ {run[p].id}
  /\ Goto(p, "releasing", run[p])
  /\ UNCHANGED <<lockVars, runs, lastId, logs, snapshots, orphans, history,
                 adminVars>>

ReleaseSlot(p) ==
  /\ pc[p] = "releasing"
  /\ slotLock' = [slotLock EXCEPT ![run[p].slot] = None]
  /\ Goto(p, "unlocking", run[p])
  /\ UNCHANGED <<jobLock, runs, lastId, logs, staged, snapshots, orphans,
                 history, adminVars>>

ReleaseJob(p) ==
  /\ pc[p] = "unlocking"
  /\ jobLock' = [jobLock EXCEPT ![run[p].job] = None]
  /\ Goto(p, "idle", NoRun)
  /\ UNCHANGED <<slotLock, runs, lastId, logs, staged, snapshots, orphans,
                 history, adminVars>>

---------------------------------------------------------------------------
(* Crashes.  The kernel drops the flocks of a dead process; its Restic     *)
(* command runs in a process group of its own and may live on.             *)

Crash(p) ==
  LET r == run[p]
      child == [id |-> r.id, job |-> r.job, phase |-> r.phase]
  IN /\ pc[p] # "idle"
     /\ jobLock' = [j \in Job |-> IF jobLock[j] = p THEN None ELSE jobLock[j]]
     /\ slotLock' = [i \in Slot |-> IF slotLock[i] = p THEN None ELSE slotLock[i]]
     /\ crashed' = IF r.id = 0 THEN crashed ELSE crashed \cup {r.id}
     /\ IF Working(p, "backing_up") \/ Working(p, "retention")
          THEN orphans' \in {orphans, orphans \cup {child}}
          ELSE orphans' = orphans
     /\ Goto(p, "idle", NoRun)
     /\ UNCHANGED <<runs, lastId, logs, staged, snapshots, announced, notice,
                    unsaved, unread, adminVars>>

OrphanEnds(o) ==
  /\ o \in orphans
  /\ orphans' = orphans \ {o}
  /\ IF o.phase = "backing_up"
       THEN snapshots' \in {snapshots, snapshots \cup {[id |-> o.id, job |-> o.job]}}
       ELSE \E gone \in SUBSET {s \in snapshots : s.job = o.job /\ s.id < o.id} :
              snapshots' = snapshots \ gone
  /\ UNCHANGED <<pc, run, lockVars, runs, lastId, logs, staged, history,
                 adminVars>>

---------------------------------------------------------------------------
(* Removing a job: the configuration is saved, then DeleteJobRuns reads    *)
(* the rows, deletes the job's rows and removes the logs of the rows read  *)

RemoveJob(j) ==
  /\ purge = None /\ j \in Removable \ removed
  /\ removed' = removed \cup {j}
  /\ purge' \in {None, [job |-> j, ids |-> {}, step |-> "select"]}
  /\ UNCHANGED <<pc, run, lockVars, runs, lastId, logs, staged, snapshots,
                 orphans, history, thinned, deleted>>

SelectRows ==
  /\ purge # None /\ purge.step = "select"
  /\ purge' \in {None, [purge EXCEPT !.ids = RowsOf(purge.job), !.step = "delete"]}
  /\ UNCHANGED <<pc, run, lockVars, runs, lastId, logs, staged, snapshots,
                 orphans, history, removed, thinned, deleted>>

\* Mutation: the logs are removed although the rows could not be deleted
DeleteRowsOrNot ==
  /\ purge # None /\ purge.step = "delete"
  /\ \/ /\ runs' = [id \in RunId |-> IF id \in RowsOf(purge.job) THEN None ELSE runs[id]]
        /\ deleted' = deleted \cup RowsOf(purge.job)
     \/ UNCHANGED <<runs, deleted>>
  /\ purge' = [purge EXCEPT !.step = "logs"]
  /\ UNCHANGED <<pc, run, lockVars, lastId, logs, staged, snapshots, orphans,
                 history, removed, thinned>>

DeleteRows ==
  /\ purge # None /\ purge.step = "delete"
  /\ \/ /\ runs' = [id \in RunId |-> IF id \in RowsOf(purge.job) THEN None ELSE runs[id]]
        /\ deleted' = deleted \cup RowsOf(purge.job)
        /\ purge' = [purge EXCEPT !.step = "logs"]
     \/ UNCHANGED <<runs, deleted>> /\ purge' = None
  /\ UNCHANGED <<pc, run, lockVars, lastId, logs, staged, snapshots, orphans,
                 history, removed, thinned>>

DeleteLogs ==
  /\ purge # None /\ purge.step = "logs"
  /\ \E gone \in SUBSET purge.ids : logs' = logs \ gone
  /\ purge' = None
  /\ UNCHANGED <<pc, run, lockVars, runs, lastId, staged, snapshots, orphans,
                 history, removed, thinned, deleted>>

\* `retention apply' and `prune': Service.Forget without the job's lock, at any
\* point of a run of the job
ForgetByHand(j) ==
  /\ j \in ByHand \ removed
  /\ snapshots' \in Thinned(j) \ {snapshots}
  /\ thinned' = thinned \cup {j}
  /\ UNCHANGED <<pc, run, lockVars, runs, lastId, logs, staged, orphans, history,
                 removed, purge, deleted>>

---------------------------------------------------------------------------
Advance(p) ==
  \/ AcquireJob(p) \/ AcquireSlot(p) \/ Begin(p) \/ Announce(p)
  \/ Preflight(p) \/ SavePhase(p) \/ SaveFailure(p) \/ RemoveStage(p)
  \/ ReleaseSlot(p) \/ ReleaseJob(p)

Command(p) == DumpDatabases(p) \/ BackUp(p) \/ Forget(p) \/ Verify(p)

Next ==
  \/ \E p \in Process :
       Advance(p) \/ Notify(p) \/ Command(p) \/ Expire(p) \/ Crash(p)
  \/ \E p \in Process, j \in Job : Request(p, j)
  \/ \E o \in orphans : OrphanEnds(o)
  \/ \E j \in Job : RemoveJob(j) \/ ForgetByHand(j)
  \/ SelectRows \/ DeleteRows \/ DeleteLogs

(* The scheduler runs every live process; every task has a timeout (six    *)
(* hours by default); a command whose context ended is killed; HTTP        *)
(* requests of the callback have a timeout.  Nothing is assumed of a       *)
(* command whose context is still open, nor of a mail server: sendSMTP     *)
(* sets no deadline.                                                       *)
Fairness ==
  \A p \in Process : /\ WF_vars(Advance(p))
                     /\ WF_vars(Expire(p))
                     /\ WF_vars(run[p].expired /\ Command(p))
                     /\ WF_vars(run[p].job \notin WithMail /\ Notify(p))

Spec == Init /\ [][Next]_vars
FairSpec == Spec /\ Fairness
---------------------------------------------------------------------------
(* Correctness *)

TypeOK ==
  /\ pc \in [Process -> Location]
  /\ run \in [Process -> LocalRun]
  /\ jobLock \in [Job -> Process \cup {None}]
  /\ slotLock \in [Slot -> Process \cup {None}]
  /\ runs \in [RunId -> Row \cup {None}]
  /\ lastId \in 0 .. MaxRuns
  /\ logs \subseteq RunId /\ staged \subseteq RunId
  /\ snapshots \subseteq Snapshot
  /\ orphans \subseteq [id : RunId, job : Job, phase : {"backing_up", "retention"}]
  /\ announced \subseteq RunId
  /\ notice \in [RunId -> Notice \cup {None}]
  /\ removed \subseteq Job /\ thinned \subseteq Job
  /\ purge \in [job : Job, ids : SUBSET RunId, step : {"select", "delete", "logs"}]
                \cup {None}
  /\ {crashed, unsaved, unread, deleted} \subseteq SUBSET RunId

HoldsJob(p)  == pc[p] \notin {"idle", "locking"}
HoldsSlot(p) == pc[p] \in {"beginning", "announcing", "preflight", "saving", "working",
                           "failing", "notifying", "cleaning", "releasing"}
Alive(id) == \E p \in Process : run[p].id = id
Ended(id) == runs[id] # None /\ runs[id].status # "running"

\* Two invocations never run the same job at once (flock on job-<id>.lock),
\* whatever crashes, refusals and early returns happened before
JobExclusion ==
  \A p, q \in Process :
    p # q /\ HoldsJob(p) /\ HoldsJob(q) => run[p].job # run[q].job

\* The slot files let at most MaxParallelJobs runs past admission, although
\* AcquireSlot scans them one by one while others release and take them
SlotBound == Cardinality({p \in Process : HoldsSlot(p)}) <= MaxParallelJobs

\* Database dumps do not stay on disk: a staging directory belongs to a run
\* that is still executing unless the process died (every return removes it)
StageOwned ==
  \A id \in staged \ crashed :
    \E p \in Process :
      /\ run[p].id = id
      /\ pc[p] \in {"saving", "working", "failing", "notifying", "cleaning"}

\* A row says success or warning only with a snapshot, and a failed row names
\* a snapshot only when the failure was that of saving the state
OutcomeMatchesSnapshot ==
  \A id \in RunId : Ended(id) =>
    IF runs[id].status = "failed"
      THEN runs[id].snap => runs[id].code = "STATE_SAVE_FAILED"
      ELSE runs[id].snap

\* Retention never takes away the newest snapshot the table knows of a job:
\* the snapshot is recorded before forget runs, and commands orphaned by a
\* crash do not reach newer snapshots.  Retention applied by hand, in the middle
\* of a run too, can do so only when the job has a newer one, not yet recorded.
NewestRecordedSnapshotKept ==
  \A id \in RunId :
    /\ runs[id] # None /\ runs[id].snap
    /\ \A k \in RowsOf(runs[id].job) : runs[k].snap => k <= id
    => \/ [id |-> id, job |-> runs[id].job] \in snapshots
       \/ /\ runs[id].job \in thinned
          /\ \E s \in snapshots : s.job = runs[id].job /\ s.id > id

\* What OnRunFinished told the user is what the table says: nothing is sent
\* before the final state is saved, and nothing changes it afterwards
NoticeMatchesRow ==
  \A id \in RunId : notice[id] # None /\ runs[id] # None =>
    CASE notice[id] = "failure" -> runs[id].status = "failed"
      [] notice[id] = "warning" -> runs[id].status = "warning"
      [] OTHER -> runs[id].status = "success"

\* A recovery notice follows a failed or warned run of the job, and a plain
\* success notice never does, also when the history is deleted meanwhile, unless
\* the row of the run before could not be read when the success was told
RecoveryPaired ==
  \A id \in RunId :
    LET before == {k \in RunId : k < id /\ Ended(k) /\ runs[k].job = runs[id].job}
        bad == \E k \in before : /\ \A i \in before : i <= k
                                 /\ runs[k].status \in {"failed", "warning"}
    IN runs[id] # None =>
         /\ notice[id] = "success" => ~bad \/ id \in unread
         /\ notice[id] = "recovery" => bad

\* A row shown in the history has its log, except one that a running process
\* wrote again after its history was deleted
RowsHaveLogs == \A id \in RunId \ deleted : runs[id] # None => id \in logs

\* An ended row never changes again; it can only be deleted
EndedRowFinal ==
  [][\A id \in RunId : Ended(id) => runs'[id] \in {runs[id], None}]_runs

WaitsForMail(p) == pc[p] = "notifying" /\ run[p].job \in WithMail

\* Every request ends and gives its locks back, unless it waits for a mail
\* server: commands are killed at the task's timeout, and no step waits for a
\* lock
RunEnds == \A p \in Process : pc[p] # "idle" ~> pc[p] = "idle" \/ WaitsForMail(p)

\* A run announced as started is reported as finished, unless its process
\* died, its failure could not be saved or it waits for a mail server
StartedIsFinished ==
  \A id \in RunId :
    id \in announced ~>
      \/ notice[id] # None \/ id \in crashed \cup unsaved
      \/ \E p \in Process : run[p].id = id /\ WaitsForMail(p)

\* The lock files implement admission: one process per job, a bounded number
Active == [p \in Process |-> IF HoldsSlot(p) THEN run[p].job ELSE None]
Admission == INSTANCE JobAdmission WITH active <- Active
AdmissionSpec == Admission!Spec

---------------------------------------------------------------------------
(* Claims of the documentation that the code does not keep *)

\* Every backup gets a final status in the table (docs/INSTALLATION.md): a
\* row says running only while a process executes the run
RunningRowHasProcess ==
  \A id \in RunId : runs[id] # None /\ runs[id].status = "running" => Alive(id)

\* A notification has a timeout (docs/CONFIGURATION.md), after which the run
\* gives back its locks
MailTimesOut == \A p \in Process : WaitsForMail(p) ~> pc[p] = "idle"
=============================================================================
