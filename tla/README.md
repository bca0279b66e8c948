# SBackup in TLA+

SBackup runs Restic backups of a Linux host from systemd timers, a command line
and a menu, keeps the history of its runs in SQLite, notifies the administrator
and reports to a monitor. This directory holds TLA+ modules that model its core,
TLC configurations that check them on small instances, and theorems checked by
the TLA+ proof system. `PROJECT.json` maps every definition to the lines it
stands for and lists runs, mutants, hazards, findings and theorems.

## 1. Inventory

All paths are under `src/`.

| Component | State | Operations | Must hold | Module |
| --- | --- | --- | --- | --- |
| Backup service `internal/backup/service.go` | the run `r`, `warnings`, `runCtx`, staging directory | `RunWithMode` (admission, phases, `fail`, deferred releases), `Forget`, `Verify`, `Restore`, `Snapshots` | a run ends; its row says what happened to its snapshot; nothing stays locked or staged; retention spares the newest snapshot | `BackupRun` |
| Locks `internal/lock` | flocks on `job-<id>.lock`, `global-<i>.lock` | `Acquire`, `AcquireSlot`, `Release`; the kernel at process death | one run per job, `max_parallel_jobs` in all | `BackupRun`, `JobAdmission` |
| Store: runs `internal/store` | table `runs`, JSONL logs | `SaveRun` (upsert), `RecentRuns`, `LastCompletedBefore`, `DeleteJobRuns`, `Prune` | ended rows are final; a row has its log | `BackupRun` |
| Store: outbox | table `outbox` | `Enqueue`, `DueOutbox`, `CompleteOutbox`, `FailOutbox`, `Prune` | nothing leaves it undelivered but by age or limit; deleted rows stay deleted; rows tried in vain leave room for the others | `Reporting`, `AtLeastOnce`, `OutboxSchedule` |
| Callbacks and commands `cmd/sbackup` | none of their own | `serviceFor`, `jobCmd`, `maintenanceCmd`, `storageCmd`, `monitorCmd`, `retentionCmd`, `pruneCmd` | notices agree with rows; a started run is reported as finished | `BackupRun`, `Reporting`, `Setup` |
| Monitor `internal/monitor`, `cmd/sbackup-monitor` | `State` in memory, nonces, `state.json` | `report`, `cleanupNoncesLocked`, `viewLocked`, `load`, `saveLocked`, `AddNode` | an event counts once; an accepted one is durable; the panel adds up | `MonitorServer` |
| Report client `internal/report`, `pkg/reportprotocol` | none | `EventForRun`, `Heartbeat`, `Send`, `SendOrQueue` | an event arrives, or is queued | `Reporting` |
| Notifications `internal/notification` | none | `SendIDs`, `Send`, `sendSMTP`, `sendHTTP` | every destination is tried or queued; sending ends | `Reporting`, `BackupRun` |
| Executor `internal/executor` | process group, two pipes, two readers | `run`, `Logger`, `Redact` | the output is complete; nothing runs on; `run` returns | `Executor` |
| Configuration `internal/config` | `config.yaml` | `Load`, `Validate`, `Save`, `writeFileAtomic` | the file is always one whole valid configuration | `Setup` |
| Repository `internal/repository` | password files, `rclone.conf` | `CreatePasswordFile`, `ConfigureWebDAV`, `Init`, `Test` | a repository keeps its password, a storage its remote | `Setup` |
| Menu `internal/tui` | a copy of the configuration | wizards for storages, jobs, databases, the monitor | secrets, timers and configuration agree | `Setup` |
| Schedule `internal/schedule` | timers | `Install` and its reverse | an enabled job has its timer | `Setup` |
| Database dumps `internal/database` | dump files in the stage | `Dump` | no dump outlives its run | `BackupRun` |
| Terminal, runtime tools, scripts, containers, CI | none | | outside the model | |

How they interact. A timer, the command line or the menu starts a **process**
that calls `RunWithMode`. Processes share only the kernel's file locks, the
SQLite file, the log and temporary directories, the Restic repository and the
configuration directory. A run calls back `OnRunStarted` and `OnRunFinished`,
which send notifications and events; what cannot be sent goes to the outbox, from
which a `maintenance` process, started by a timer every few minutes, sends it
later. The monitor is a separate server, with one goroutine per request over a
state guarded by a mutex and written to a file; a second process of the same
program registers nodes by rewriting that file. A menu session loads
`config.yaml` once and saves all of it after each change, beside other sessions
and commands that do the same. Every external command goes through
`executor.run`, which reads its output in two goroutines and kills its process
group when the context ends.

What is hard: processes that interleave at every file operation; a process that
dies at any point while its Restic child lives on; a failure of every single
save, before or after the file was replaced; a task timeout that may end the
context in every phase; callbacks that run while locks are held; events that are
lost, repeated or reordered between outbox, network and monitor; a server that
saves outside the memory it rolls back; wizards that change several files one
after the other; a reader, a pipe and a program that wait for one another. The
list with source lines is `hazards` in `PROJECT.json`.

## 2. Modules

| Module | Models | Code |
| --- | --- | --- |
| `JobAdmission` | abstract: which job each process runs; a job is run by one process and at most `MaxParallelJobs` are | the promise of `lock.go` |
| `BackupRun` | concurrent `RunWithMode`, locks, rows, logs, stages, snapshots, notices, crashes, orphans, job removal, retention by hand | `service.go` 84-285 and 383-434, `lock.go`, `store.go` 94-203, `main.go` 149-163, 319-349, 557-588 |
| `MonitorServer` | concurrent `report` handlers, memory and file, nonces, crash, power failure, registration by another process | `server.go` 61-104, 124-245, 297-376, `sbackup-monitor/main.go` 30-56 |
| `AtLeastOnce` | abstract: which items are in a process's hands, queued, arrived or dropped; an item is made once, queued at most once, and leaves the queue for good | the promise of the outbox |
| `Reporting` | callbacks of a run, the outbox, concurrent `maintenance`, lossy network, pruning, monitoring switched | `report/client.go` 29-123, `notification.go` 39-164, `store.go` 205-284, `main.go` 138-172 and 726-780 |
| `OutboxSchedule` | `Reporting` with the times of `maintenance`: when the timer starts a pass, and when a row tried in vain is due again | `store.go` 243-263, `main.go` 726-780, `sbackup-maintenance.timer`, `notification.go` 68-117 |
| `Setup` | menu sessions and commands that change the configuration and what must agree with it | `config.go` 19-28, 113-155, 208-297, 328-497, `menu.go` (wizards), `tui/database.go`, `repository.go` 108-193, `webdav.go` 38-118, `main.go` 73-85, 299-317, 392-462, 677-681 |
| `Executor` | one command with a child, two pipes, two readers, the context | `executor.go` 71-171 |
| `MC*` | symmetry sets and inputs for TLC | |
| `BackupRunProofs` | types, locks, slots, refinement | |
| `BackupHistoryProofs`, `BackupSnapshotProofs` | rows, logs, notices, stages; snapshots and recoveries | |
| `MonitorServerProofs`, `ReportingProofs`, `ExecutorProofs` | theorems of the other modules | |
| `SetupProofs`, `SetupAgreementProofs` | types, remotes, passwords; credentials, copies, timers, keys | |

The definitions commented `Mutation` are plausible mistakes in the operation
that follows them. No specification uses them: substituted for that operation,
each makes TLC find the property it is listed with in `PROJECT.json` violated.

### BackupRun

`pc[p]` is where process `p` stands in `RunWithMode`; `run[p]` holds the locals
that matter later: the run `r`, the slot it holds or probes, whether `warnings`
is non-empty, whether `runCtx` has ended. Each action is the code between two
points at which another process, a crash or the timeout can be seen:

- `Request`, `AcquireJob`, `AcquireSlot`: the job's flock, then **one probe** of
  the scan over the slot files. A refused process gives back what it holds
  through `ReleaseJob`.
- `Begin`: `NewID`, `NewLogger`, first `SaveRun`. Identifiers are numbers in the
  order of `started_at`. `Announce`: `OnRunStarted`.
- `Preflight`; `SavePhase` (the `SaveRun` before each phase, and the final one);
  `DumpDatabases`, `BackUp`, `Forget`, `Verify`: the commands, each of which may
  succeed (only while the context is open) or fail, `BackUp` with or without a
  snapshot left behind, `Forget` after removing any part of the older snapshots.
- `Expire`: `schedule.timeout` ends `runCtx`, at any point before the end.
- `SaveFailure` is `fail`: saves the failed row and goes on to the callback, or
  skips it when the save fails. `Notify` is `OnRunFinished`: it reads the row of
  the run before, and when that query fails a success is told as a plain one
  even after a bad run (`main.go:153`); `unread` remembers those runs.
  `RemoveStage`, `ReleaseSlot`, `ReleaseJob` are the deferred calls in their
  order.
- `Crash`: the flocks go, everything on disk stays, and a Restic command may
  live on in `orphans` until `OrphanEnds`.
- `RemoveJob`, `SelectRows`, `DeleteRows`, `DeleteLogs`: the configuration is
  saved, then the three steps of `DeleteJobRuns`, none of which looks at the
  job's lock.
- `ForgetByHand`: `retention apply` and `prune` call `Forget` without the job's
  lock, so at any point of a run of the same job.

### MonitorServer

A handler is `idle` or has `looked`: its first critical section found the node
known and the nonce unused and copied the node (`view`); signature, JSON and
protocol checks follow without the lock; the second section refuses a nonce that
was used meanwhile (`RefuseReplay`, 401), answers an event it has with ok, as a
duplicate, without saving anything (`AnswerDuplicate`), or records a new one
(`Record`). `mem` is the server's `State`, `disk` is
`state.json`, `durable` what a power failure may leave of it. A save can fail
before or after the rename. After a failed save the node becomes the copy in
`view`; when a concurrent request for the node has outdated that copy, the node
joins `outdated` in this copy of the state and what is saved from it. `accepted`
are the events answered with ok, duplicates included; `unsynced` those of them
answered as duplicates out of a file whose replacement was not durable, until a
save makes it so, and `undone` those of these that a power failure took from the
file since. `log` is
a history variable: every event recorded
in that copy of the state. A nonce may be forgotten at any time (`ExpireNonce`)
and its request come again: that the timestamp window outlasts no nonce is not
relied upon. `LoadToAdd` and `AddNode` are the two halves of
`sbackup-monitor -add-node`, which reads and writes the file beside the server.

### Reporting

An item is an event for the monitor or a notice for one destination; `todo[p]`
is what process `p` has yet to send. `BeginRun`, `EndRun` and `RunReturns` are
the callbacks of a run: `run.started`; then one notice per destination and
`run.completed`. `Report` and `Enqueue` are the two halves of `SendOrQueue` and
of each turn of `SendIDs`: an attempt, then the insertion of a row when it
failed. `Maintain` reads the oldest due rows into `todo` (its copy, which other
processes may outdate); `Delivered` or `Undelivered`, then `Complete`,
`Postpone` or `Fatal`, is one turn of the loop; `Beat` and `Prune` follow. A
failed attempt may leave a request in `inflight` that still arrives (`Arrive`).
`enabled` is the configuration, `sees[p]` what the process loaded of it: with
monitoring off, `Send` returns nil and the row is deleted unsent. `outbox` holds
rows ranked by `created_at`; a row is due unless its item is in `waiting`, which
`Wake` ends at any time; how long the delays are is said in `OutboxSchedule`. The monitor appears as the
sequence of distinct events it recorded, which is what `MonitorServer` checks.
`PromiseKept` reads the state as one of `AtLeastOnce`: `Hand(p)`, the items a
process has made and neither sent nor queued, is `held`, and `lost` is `dropped`.
Looking for rows, a failed attempt, a postponed row and the switch of monitoring
change nothing there; a second deletion of one row changes nothing either.

### OutboxSchedule

`Reporting` lets a delay be of any length; here the lengths decide. The module
extends `Reporting` by `due[i]`, the time left until the row of item `i` may be
tried again, `attempts[i]`, how often it was tried in vain, and `rested`, whether
the timer may start the next pass. `Pass` is `Maintain` at the timer's word,
`Retry` is `Postpone` with the delay that `RetryDelay` computes, doubled with each
attempt up to the longest, and `Elapse`, the time between two passes, takes the
place of `Wake`. Every other action is that of `Reporting`. There is one
maintenance process: systemd does not start the unit again while it runs.

### Setup

`file` is `config.yaml`, `memory[p]` the copy a process loaded and changes. A
`Menu` process keeps its copy from `Open` to `Exit`; a `Command` process opens,
does one thing and exits. `Saves` is `config.Save`: `Validate`, then the
replacement of the file, with three outcomes: `saved`, `failed` before the
rename, `late` (an error after it, when the directory cannot be synchronised).
What a wizard does between two such points is one action, and `pc` says where it
stands:

- storages: `ConfigureWebDAV` (reads `rclone.conf` under its lock), `WriteRemote`
  or `NewLocalStorage`, `SaveStorage`, then `CreatePasswordFile` (exclusive
  creation), `WritePassword`, `SyncPassword`, and `InitRepository`; a failure of
  the password leads to `WithdrawStorage`, whose own failure is ignored.
- jobs: `AddJob`, `EditJob`, `RescheduleJob`, `DeleteJob`, `EnableJob` save and,
  where the code does, go on to `SetTimer`; `ReinstallTimer` only sets it.
- databases: `AddDatabase` writes the credential before `SaveDatabase`;
  `DeleteDatabase` saves before `DropCredential`.
- monitoring: `ConfigureMonitor` replaces `monitor.key` and keeps the old secret
  at hand, `TestMonitor` puts it back after a failure, `ConnectMonitor` saves.
- `ForceInit` is `init --force`; `Exit` is the end of a session or its death.

Some failures the code does not make good, and the properties name them, by the
session or the item they concern, as their only exceptions. `diverged` are the
menus whose own last save left another configuration in the file than in memory:
one that failed late, or one whose change the code does not undo (a toggled job,
a withdrawn storage, the monitor); their next save ends that. A save writes all of
a copy, so it can bring back a database, give a job another schedule or name
another node while its operation sees to no credential file, timer or key:
`Added`, `Rescheduled` and `Renamed` are these items, and `Drift` puts them into
`credentialsAdrift`, `timersAdrift` and `keyAdrift`. A timer that could not be
set, or was set from a copy that is not the file's, is adrift until it is set from
the file's; the key is adrift once an old secret was not put back, two sessions
tried connections at once, or a new connection could not be saved. A failure that
concerns one database or job never excuses another.

### Executor

`alive` are the processes of the command's group (the command and a child it may
start), `written`, `taken` and `handled` count the lines of a stream that were
written to its pipe, taken out by its reader and called back for. `long` is the
first line the reader's buffer cannot hold: there `bufio.Scanner` stops
(`TakeLine`) and nothing reads the pipe any more, so writers block once it is
full. `Collect` waits for both readers, `Wait` for the command, `Cancel` kills
the group once the context has `expired`. `RunWithStdout` is the instance with
one stream.

## 3. Runs

| Run | Instance | Distinct states | Shows |
| --- | --- | --- | --- |
| `admission` | 3 processes, 3 jobs, 2 slots, 1 recorded run | 43 283 | exclusion, slot bound, refinement of `JobAdmission` |
| `run_safety` | 2 processes, 1 job with retention, also by hand, 3 runs | 6.8 million | rows, snapshots, stages and notices agree |
| `run_history` | 2 processes, 2 jobs, 1 slot, all phases, removal, mail | 110 261 | logs, final rows, and liveness |
| `monitor` | 2 handlers, 2 attempts of 2 events, window 1, 4 recordings | 3.4 million | counting once, durability, the panel adds up |
| `reporting` | 1 run, 1 destination, 2 maintenance processes, batches of 1, limit 1, one death, one late request, one switch | 2.9 million | nothing lost but for a named reason; deleted rows stay deleted; refinement of `AtLeastOnce` |
| `reporting_arrives` | 1 run, a mail server that answers no one, 1 maintenance process, a heartbeat, batches of 1, limit 2, delays of 2 and 4 against 2 or 3 between passes | 201 193 | what is queued for the monitor arrives unless the mail server keeps maintenance waiting |
| `setup` | 2 menus, 1 command, 3 storages, 3 operations, 1 fault | 2.5 million | the configuration agrees with files, timers and secrets |
| `executor` | 2 programs, 2 streams of 4 lines, pipes of 2 | 266 016 | complete output, exclusive callbacks, nothing left, `run` returns |
| `stuck_row` | 1 process, 1 run | violation | a row says running for ever |
| `mail_hangs` | 1 process, 1 run, mail | violation | a silent mail server keeps the locks |
| `monitor_registration` | 1 handler, 2 nodes | violation | a registration is overwritten |
| `panel_running` | 1 run, 1 maintenance process | violation | an ended run is shown as running |

Bounds and why they are enough.

- `MaxRuns` bounds the runs recorded in one behaviour; a process that reaches it
  takes the failure branch of `Begin`. Admission does not depend on rows, so one
  recorded run and many refused ones suffice there; three processes are needed
  for a refusal while two hold slots and a third probes. Three runs are needed
  for a snapshot that is neither newest nor oldest and for a recovery after a
  crashed run. One job suffices for rows, since every query is by job. `ByHand`
  and `Removable` name the jobs an administrator may touch; retention by hand
  and job removal are explored in separate runs, not together.
- `run_history` uses one job with every optional phase that can be removed and
  one that notifies by mail, with a single slot, so that one waits for or is
  refused because of the other.
- The monitor's `Window` is 10000 in the code and 1 in the run: pushed-out
  events then return within two recordings. `MaxRecorded` = 4 lets an event
  count, be pushed out, count again and be pushed out again. One failed and one
  successful run of one node tell all orders of the counter apart; for heartbeats
  and several nodes there is the theorem `NodesAreShownRight`.
- In `reporting` the batch and the queue's limit are 1 with three items, so rows
  wait for the next pass and are pruned; two maintenance processes, one death,
  one late request and one switch of monitoring are what the hazards name, each
  once.
- `reporting_arrives` has batches of 1 and a row for a mail server that answers no
  one, so that this row fills every batch in which it is due: the events behind it
  are sent only because its delay comes to exceed the time between two passes.
  With a delay that does not grow they would wait for ever, which the run's mutant
  shows. The unit of time is the run's own: delays of 2 and 4 after the first and
  second attempt, 2 or 3 between passes, stand for the code's 2 minutes to 12
  hours (ten doublings) against ten minutes. Deaths are left to `reporting`. In
  the code 100 rows fit in a batch and 72 passes of ten minutes in the longest
  delay: with 7200 rows tried in vain or more, which the default
  `max_pending_events` of 10000 allows, every batch can be full, and newer rows
  wait until pruning drops old ones (`event_retention`, 30 days). Nothing is
  claimed for that many.
- `setup` starts from a host that backs up one job to its disk, has one database
  and a monitored node. Three operations, of any kind and by any of three
  processes, cover two that interleave and a third that acts on what they left;
  one failure or death at every possible step is what each exception in the
  properties is about. One password value is enough because a file is overwritten
  through the `empty` step, which differs from it.
- `executor` has four lines per stream and pipes of two, so a pipe fills twice;
  either program may write to either stream, and any line may be too long.
- Symmetry is used in safety runs only: processes (and jobs in `admission`,
  where no job is special), handlers and attempts, menus and WebDAV storages,
  maintenance processes.
- `CHECK_DEADLOCK FALSE` appears where the system may stop: `run_history` once
  every job is removed, `setup` when its operations are used up, `executor` when
  `run` has returned.

Assumptions of the models. `os.RemoveAll` of the stage succeeds. `restic forget`
never removes the newest snapshot of the tag it is given, under any policy
`Validate` accepts (a policy is kept as whether any option is set: negative
numbers, which `Validate` takes for one, are abstracted). All processes use one
lock directory: the one a process sees depends on its environment and unit file.
Run identifiers are unique and increase. A refused request (unknown node, bad
signature, old timestamp) changes nothing and is left out. Node names do not
collide. A job names each notification once, and `created_at` increases. What a
command starts stays in its process group and holds both pipes until it ends.
`None` is no row, job, process, node, state of a node or password (the ASSUMEs).

### Fairness

`BackupRun.FairSpec` assumes that a live process is scheduled (`Advance`), that
the timer of `schedule.timeout` fires (`Expire`; the code supplies six hours when
none is set), that a command whose context has ended returns, which `Executor`
shows, and that a callback by HTTP returns (its client has a timeout). Nothing is
assumed of a command before its timeout, of the administrator, or of a mail
server: `sendSMTP` has no deadline, so `RunEnds` and `StartedIsFinished` except a
process that waits for one, and `mail_hangs` shows that wait is endless.

`OutboxSchedule` assumes that time passes (`Elapse`), that the timer starts
`maintenance` and that it is scheduled (weak fairness of `Step`), except while its
next row goes to a mail server (`WaitsForMail`): an HTTP request ends because its
client has a timeout, `sendSMTP` has none, and `sbackup-maintenance.service` sets
none either. A silent mail server thus keeps everything behind its row waiting, and
`QueuedArrives` promises an arrival only where maintenance does not wait for a mail
server for ever; while a mail server refuses or fails, all it promises holds. Of
the monitor, and of the destinations in `Reachable`, it assumes that attempts made
at an item again and again do not fail for ever (strong fairness of `Deliver`).

`Executor` assumes that goroutines that can run do, that a deadline is reached
and its kill delivered, and that a program neither blocked on a full pipe nor
writing ends. `RunReturns` therefore promises a return when the context has a
deadline, and without one only while no line is too long: the commands of
`Snapshots`, `Restore`, `Verify`, `Forget`, `Test` and `Init` called from the
command line have no deadline, so a line of over a megabyte (the single line of
`restic snapshots --json` can be one) would keep them waiting on a full pipe.

### Findings

`stuck_row`, `mail_hangs`, `monitor_registration` and `panel_running` each state what a document or comment of the repository says; TLC
shows the code doing otherwise. The quotations are in `PROJECT.json`.

## 4. Proofs

Every theorem holds for all values of the constants that satisfy the `ASSUME` of
its module: any processes, jobs, handlers, nodes and bounds. Together they state
every invariant and every refinement the runs check; the runs show each formula
on a small instance, and TLC checked every strengthening below on the instance
of its run before it was proved. Each theorem comes from an inductive invariant,
`Init => IInv`, `IInv /\ [Next]_vars => IInv'`, with one lemma per action or
group of actions; steps that touch only one process go through a common lemma
(`StepKeepsHistory`, `ProcessStep`, `OrdinaryStep`), and later invariants build
on earlier ones that were proved to hold in every behaviour.

- **`BackupRunProofs`**: `TypeCorrect`, `ExclusiveJobs`, `BoundedRuns`,
  `ImplementsAdmission`. The invariant is `TypeOK /\ LocalOK /\ LockOK`.
  `JobExclusion` alone is not inductive: an arbitrary state may have a process
  inside its job while the lock file says free. `LockOK` says that the lock files
  name their holders; `LocalOK` what local variables are worth at each location.
  `BoundedRuns` follows because `LockOK` makes the slot number an injection from
  the holders into `0 .. MaxParallelJobs - 1`. For the refinement, taking a slot
  maps to `Admit`, giving it back or dying to `Leave`, and every other step
  stutters.
- **`BackupHistoryProofs`**: `DumpsAreRemoved`, `OutcomesAreSound`,
  `NoticesAreTrue`, `LogsStay`, `EndedRowsStay` (an action property). `HInv`
  adds: identifiers are given out once (`IdsOK`); what a run is at each location
  (`Coherent`: at `working` it has a snapshot exactly in the phases after the
  backup); how its row and notice relate to it (`RowFits`: before its end the row
  is not ended and nothing was told); and that a purge removes logs of deleted
  rows only. Without `RowFits` a late error path could rewrite an ended row.
- **`BackupSnapshotProofs`**: `NewestSnapshotsStay`, `RecoveriesArePaired`.
  `SnapInv` adds `Latest`: the run a process executes is later than every row and
  snapshot of its job and than every orphaned command, which is what the job's
  lock is for; `SnapOK`: retention works only when the row already names the
  snapshot if any row does; `OrphansOK`: the same for an orphaned `forget`.
- **`MonitorServerProofs`**: `TypeCorrect`, `EventsCountOnce`, `AcceptedIsKept`,
  `NodesAreShownRight`. The invariant relates `reports` to the end of `log`
  (`EndOf`: all of it while it is shorter than the window), for memory, file,
  durable file and the copy of a process that adds a node; a handler past its
  first section serves a known node; what was accepted and not `undone` is in
  memory too, from where the next save writes it again. `NodeMatchesLog` says what
  the panel shows by the positions of events in the log (the last heartbeat, the
  last run, the failures after the last success) and not by a fold over it, so
  that appending one event is the only step to reason about: a failure adds one
  position to `Unmended`, a success empties it. `NInv` strengthens it: the copy of
  a process that adds a node agrees with its log as well, since that is what it
  writes; and a node that is not registered has no event in the log (`NodesOK`),
  so that one is added with nothing to its name. A failed save that restores a
  handler's `view` either adds the node to `outdated` or restores what memory
  held.
- **`ReportingProofs`**: `NothingDisappears`, `DeletedRowsStay`, `TypeCorrect`,
  `RowsDiffer`, `ImplementsPromise`. What a process holds unsent is new to the
  outbox and held by no other (`HandOK`), and a row is deleted as sent only when
  it arrived or was ignored (`CompletingOK`). `TableOK` says that each row has an
  item of its own and an age of its own, no age above the number of rows: a
  deletion renumbers the rows that stay by their `Place`, and an insertion is the
  youngest. From it follows what `DueOutbox` returns (`OldestInOrder`: the oldest
  rows, as many as it may, each once, in order). For the refinement, `MadeOK`
  adds that what a maintenance process copied and what is still under way was
  made; a process that completes a row another has deleted stutters.
- **`SetupProofs`**: `TypeCorrect`, `RemotesExist`,
  `RepositoriesOpen`. Who configures a remote holds the lock and has seen all of
  `rclone.conf` (`RemoteOK`); a password file that is being written belongs to
  the one process that created it (`PasswordOK`).
- **`SetupAgreementProofs`**: `CredentialsAreKept`, `CopiesAgree`, `TimersAreSet`,
  `KeysAgree`. Each property speaks of the file or of idle sessions, while a
  change passes through a session's memory, a second file or a timer, and the file
  again; the strengthenings say what holds on the way. `CopyOK`: a process's copy
  that no other has outdated, and that has not diverged, is the file, also in the
  middle of an operation. `DatabaseOK`: a credential that is being made or removed
  exists, is no database's of the file, and no other process handles it.
  `TimerOK`: the process that is about to set a job's timer will set it to the
  schedule of the file, not only to one. `KeyOK`: one menu at a time configures
  the monitor; it has put the new secret into the key file and holds the old one,
  of the file's node. The exceptions are those of the properties, by item, so each
  part says of every step which items it may set adrift. Each action is first
  classified by what it leaves alone (`Effect`, `Leaves...`), so that a step needs
  a proof only for the parts it touches.
- **`ExecutorProofs`**: `TypeCorrect`, `CallbacksExclude`, `OutputIsComplete`,
  `NothingRemains`. `StoppedOK` keeps the reason why a reader stopped: a line too
  long, or a drained pipe that no process holds open.

Only model-checked: all liveness (`RunEnds`, `StartedIsFinished`,
`QueuedArrives`, `RunReturns`), which rests on fairness and
`ENABLED` and is out of the prover's reach. The four documented claims of the
`violation` runs are refuted by TLC and have no theorem.

## 5. Not modelled, and why

- The panel's view (`viewLocked`) and its clock: a pure function of the state, but
  for whether a node shows as offline.
- Times as text (RFC3339Nano drops trailing zeros): the models order times by
  rank. The length of a retry delay is in `OutboxSchedule` only.
- `Restore`: it writes to a directory no other part reads. `Snapshots`, `Test` and
  the manual `Verify` change nothing; how their commands end is in `Executor`.
- `Store.Prune` on `runs`, which `maintenance` calls with 10000 rows of all jobs
  together. It removes the oldest rows only. A job that ran so rarely that its
  last completed row is among them has no run to be compared with any more, and
  its next success is reported as the first one is; the properties about
  recovery notices are stated for histories shorter than that.
- Notification payloads, S3 and SFTP options, unit files, redaction and log
  format, the construction of dump and Restic command lines: text.
- The restore wizard, the notification forms and the uninstallation of the menu,
  the history browser, raw terminal input, the lookup of runtime tools,
  installation scripts, containers and CI: I/O, or outside the program.
- SQLite, Restic, rclone, systemd, the file system and the network other than
  through what the code does with them.
