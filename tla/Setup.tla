------------------------------- MODULE Setup -------------------------------
(***************************************************************************)
(* config.yaml and what has to agree with it: password files and           *)
(* repositories, rclone.conf, the databases' credential files, systemd     *)
(* timers and monitor.key.  Menu sessions load the configuration once,     *)
(* change their copy and save all of it for as long as they run; commands  *)
(* load, change and save once.  Nothing but the rename in Save and a lock  *)
(* on rclone.conf keeps them apart.                                        *)
(*                                                                         *)
(* An operation that is refused without a change of any state has no step. *)
(* What a save does is one step: its file is replaced by one rename, and   *)
(* only then can another process see the change.                           *)
(***************************************************************************)
EXTENDS Naturals, FiniteSets

CONSTANTS
  Menu,           \* processes running the text menu
  Command,        \* processes running one command
  Storage, Database, Job,
  WebDAV,         \* the storages reached through rclone
  Schedule,       \* what a timer can be set to
  Node,           \* nodes of the monitor, each with a secret of its own
  Password,       \* contents of a password file
  InitialConfig,  \* configurations the behaviours start from
  MaxOperations,  \* bound on the operations started
  MaxFaults,      \* bound on the saves and other calls that fail, and on
                  \* the processes that die in the middle of an operation
  None

Process == Menu \cup Command

JobConfig == [enabled : BOOLEAN, schedule : Schedule \cup {None},
              storage : Storage, databases : SUBSET Database,
              keeps : BOOLEAN]  \* some option of the retention policy is set

Config == [storages : SUBSET Storage, databases : SUBSET Database,
           jobs : [Job -> JobConfig \cup {None}],
           monitor : [enabled : BOOLEAN, node : Node \cup {None}]]

Default == [storages |-> {}, databases |-> {}, jobs |-> [j \in Job |-> None],
            monitor |-> [enabled |-> FALSE, node |-> None]]

Jobs(c) == {j \in Job : c.jobs[j] # None}

\* The schedule the timer of job j has to have
Due(c, j) == IF j \in Jobs(c) /\ c.jobs[j].enabled THEN c.jobs[j].schedule ELSE None

ValidStorages(c) == \A j \in Jobs(c) : c.jobs[j].storage \in c.storages
ValidDatabases(c) == \A j \in Jobs(c) : c.jobs[j].databases \subseteq c.databases
ValidRetention(c) == \A j \in Jobs(c) : c.jobs[j].keeps
ValidMonitor(c) == c.monitor.enabled => c.monitor.node # None

Validate(c) ==
  /\ ValidStorages(c) /\ ValidDatabases(c)
  /\ ValidRetention(c) /\ ValidMonitor(c)

ASSUME SetupAssumption ==
  /\ WebDAV \subseteq Storage
  /\ MaxOperations \in Nat /\ MaxFaults \in Nat
  /\ InitialConfig \subseteq {c \in Config : Validate(c)}
  /\ Menu \cap Command = {}
  /\ None \notin Process \cup JobConfig \cup Schedule \cup Node \cup Password
                 \cup Storage \cup Database \cup Job
  /\ "empty" \notin Password \cup {None}

VARIABLES
  file,         \* config.yaml
  pc,           \* where a process is
  memory,       \* its copy of the configuration
  work,         \* the operation it is in
  stale,        \* processes whose copy is older than the file
  remotes,      \* sections of rclone.conf
  rcloneLock,   \* who holds rclone.conf.lock
  password,     \* password files: None, "empty" or a password
  repository,   \* the password a repository was initialised with
  withdrawn,    \* history: storages whose written password file was removed
  credentials,  \* databases that have a credential file
  timer,        \* the schedule of a job's active timer
  key,          \* the node whose secret monitor.key holds
  diverged,     \* history: menus that went on after a save of their own with
                \* another configuration than they left in the file
  credentialsAdrift, timersAdrift, keyAdrift,  \* history: see Drift
  started,      \* operations started
  faults        \* calls that failed, processes that died

processVars == <<pc, memory, work>>
fileVars == <<file, stale, diverged, faults>>
rcloneVars == <<remotes, rcloneLock>>
repositoryVars == <<password, repository, withdrawn>>
driftVars == <<credentialsAdrift, timersAdrift, keyAdrift>>
vars == <<file, pc, memory, work, stale, diverged, remotes, rcloneLock, password,
          repository, withdrawn, credentials, timer, key, credentialsAdrift,
          timersAdrift, keyAdrift, started, faults>>

Operation == {"none", "setup", "initialize", "password", "job", "reinstall",
              "database", "monitor"}
NoWork == [op |-> "none", on |-> None, seen |-> None]
Work(op, on, seen) == [op |-> op, on |-> on, seen |-> seen]

Init ==
  /\ file \in InitialConfig
  /\ pc = [p \in Process |-> "closed"]
  /\ memory = [p \in Process |-> Default]
  /\ work = [p \in Process |-> NoWork]
  /\ stale = {} /\ diverged = {}
  /\ remotes = file.storages \cap WebDAV /\ rcloneLock = None
  /\ \E w \in Password :
       /\ password = [s \in Storage |-> IF s \in file.storages THEN w ELSE None]
       /\ repository = password
  /\ withdrawn = {}
  /\ credentials = file.databases
  /\ timer = [j \in Job |-> Due(file, j)]
  /\ key = file.monitor.node
  /\ credentialsAdrift = {} /\ timersAdrift = {} /\ keyAdrift = FALSE
  /\ started = 0 /\ faults = 0

Goto(p, location, w, c) ==
  /\ pc' = [pc EXCEPT ![p] = location]
  /\ work' = [work EXCEPT ![p] = w]
  /\ memory' = [memory EXCEPT ![p] = IF location = "closed" THEN Default ELSE c]

\* The menu goes back to its prompt, a command exits
Return(p, c) == Goto(p, IF p \in Menu THEN "idle" ELSE "closed", NoWork, c)

Begin(p) ==
  /\ pc[p] = "idle" /\ started < MaxOperations
  /\ started' = started + 1

\* A call fails, or a process dies
Fault == faults < MaxFaults /\ faults' = faults + 1

Opened == {p \in Process : pc[p] # "closed"}

(***************************************************************************)
(* config.Save: refuses an invalid configuration, replaces the file, or    *)
(* fails before it has, or after ("late").  Most operations undo their     *)
(* change in memory when it fails; some keep it.                           *)
(***************************************************************************)
Saves(p, c, outcome, kept) ==
  /\ Validate(c)
  /\ IF outcome = "failed"
     THEN UNCHANGED <<file, stale>>
     ELSE file' = c /\ stale' = Opened \ {p}
  /\ diverged' = IF outcome = (IF kept THEN "failed" ELSE "late")
                 THEN diverged \cup ({p} \cap Menu)
                 ELSE IF outcome = "failed" THEN diverged ELSE diverged \ {p}
  /\ IF outcome = "saved"
     THEN UNCHANGED faults
     ELSE Fault

(***************************************************************************)
(* A save writes all of a copy, so it may also bring back a database, give *)
(* a job another schedule or name another node without the operation       *)
(* seeing to the credential file, the timer or monitor.key; and a change   *)
(* that is in the file when its save fails is taken for undone.  Nothing   *)
(* in the code makes that good: these items are adrift.                    *)
(***************************************************************************)
Added(c) == c.databases \ file.databases
Rescheduled(c) == {j \in Job : Due(c, j) \notin {None, Due(file, j)}}
Renamed(c) == c.monitor.node \notin {None, file.monitor.node}

Drift(outcome, databases, jobs, node) ==
  IF outcome = "failed" THEN UNCHANGED driftVars
  ELSE /\ credentialsAdrift' = credentialsAdrift \cup databases
       /\ timersAdrift' = timersAdrift \cup jobs
       /\ keyAdrift' = (keyAdrift \/ node)

\* Where the operation sees to none of them
DriftAll(outcome, c) == Drift(outcome, Added(c), Rescheduled(c), Renamed(c))

\* What it does see to, once the save has succeeded
Seen(outcome, items) == IF outcome = "saved" THEN items ELSE {}

Outcome == {"saved", "failed", "late"}

---------------------------------------------------------------------------
(* Sessions *)

Open(p) ==
  /\ pc[p] = "closed"
  /\ Goto(p, "idle", NoWork, file)
  /\ stale' = stale \ {p}
  /\ UNCHANGED <<file, diverged, faults, rcloneVars, repositoryVars,
                 credentials, timer, key, driftVars, started>>

\* Mutation: the directory lock is not taken
ConfigureUnlocked(p, s) ==
  /\ p \in Menu /\ Begin(p)
  /\ s \in WebDAV \ (memory[p].storages \cup remotes)
  /\ rcloneLock' = p
  /\ Goto(p, "configuring", Work("setup", s, remotes), memory[p])
  /\ UNCHANGED <<fileVars, remotes, repositoryVars, credentials, timer, key,
                 driftVars>>

\* repository.ConfigureWebDAV up to the call of rclone, under the lock
ConfigureWebDAV(p, s) ==
  /\ p \in Menu /\ Begin(p)
  /\ s \in WebDAV \ (memory[p].storages \cup remotes)
  /\ rcloneLock = None /\ rcloneLock' = p
  /\ Goto(p, "configuring", Work("setup", s, remotes), memory[p])
  /\ UNCHANGED <<fileVars, remotes, repositoryVars, credentials, timer, key,
                 driftVars>>

\* The rest of it: rclone.conf is replaced, or not, or an error follows
WriteRemote(p) ==
  /\ pc[p] = "configuring"
  /\ rcloneLock' = IF rcloneLock = p THEN None ELSE rcloneLock
  /\ \/ /\ remotes' = work[p].seen \cup {work[p].on}
        /\ \/ Goto(p, "adding", work[p], memory[p]) /\ UNCHANGED faults
           \/ Return(p, memory[p]) /\ Fault
     \/ /\ Return(p, memory[p]) /\ Fault
        /\ UNCHANGED remotes
  /\ UNCHANGED <<file, stale, diverged, repositoryVars, credentials, timer, key,
                 driftVars, started>>

NewLocalStorage(p, s) ==
  /\ p \in Menu /\ Begin(p)
  /\ s \in Storage \ (WebDAV \cup memory[p].storages)
  /\ Goto(p, "adding", Work("setup", s, None), memory[p])
  /\ UNCHANGED <<fileVars, rcloneVars, repositoryVars, credentials, timer, key,
                 driftVars>>

\* quickSetup saves the storage before it makes the password
SaveStorage(p) ==
  LET c == [memory[p] EXCEPT !.storages = @ \cup {work[p].on}]
  IN /\ pc[p] = "adding"
     /\ \E outcome \in Outcome :
          /\ Saves(p, c, outcome, FALSE) /\ DriftAll(outcome, c)
          /\ IF outcome = "saved" THEN Goto(p, "creating", work[p], c)
                                  ELSE Return(p, memory[p])
     /\ UNCHANGED <<rcloneVars, repositoryVars, credentials, timer, key,
                    started>>

---------------------------------------------------------------------------
(* Password files and repositories *)

\* menu "initialise" and `storage init': a password is made if there is none
InitializeRepository(p, s) ==
  /\ Begin(p) /\ s \in memory[p].storages
  /\ Goto(p, IF password[s] = None THEN "creating" ELSE "initializing",
          Work("initialize", s, None), memory[p])
  /\ UNCHANGED <<fileVars, rcloneVars, repositoryVars, credentials, timer, key,
                 driftVars>>

StoragePassword(p, s) ==
  /\ p \in Command /\ Begin(p) /\ s \in memory[p].storages
  /\ Goto(p, "creating", Work("password", s, None), memory[p])
  /\ UNCHANGED <<fileVars, rcloneVars, repositoryVars, credentials, timer, key,
                 driftVars>>

PasswordFailed(p) ==
  IF work[p].op = "setup" THEN Goto(p, "withdrawing", work[p], memory[p])
                          ELSE Return(p, memory[p])

\* Mutation: an existing file is truncated (O_TRUNC for O_EXCL)
CreateOverExisting(p) ==
  /\ pc[p] = "creating"
  /\ \/ /\ password' = [password EXCEPT ![work[p].on] = "empty"]
        /\ Goto(p, "writing", work[p], memory[p])
     \/ PasswordFailed(p) /\ UNCHANGED password
  /\ UNCHANGED <<fileVars, rcloneVars, repository, withdrawn, credentials,
                 timer, key, driftVars, started>>

\* CreatePasswordFile opens a new, empty file; anything may fail before that
CreatePasswordFile(p) ==
  /\ pc[p] = "creating"
  /\ \/ /\ password[work[p].on] = None
        /\ password' = [password EXCEPT ![work[p].on] = "empty"]
        /\ Goto(p, "writing", work[p], memory[p])
     \/ PasswordFailed(p) /\ UNCHANGED password
  /\ UNCHANGED <<fileVars, rcloneVars, repository, withdrawn, credentials,
                 timer, key, driftVars, started>>

\* The password is written, or the file is removed
WritePassword(p) ==
  /\ pc[p] = "writing"
  /\ \/ \E w \in Password :
          /\ password' = [password EXCEPT ![work[p].on] = w]
          /\ Goto(p, "syncing", work[p], memory[p])
          /\ UNCHANGED faults
     \/ /\ password' = [password EXCEPT ![work[p].on] = None]
        /\ PasswordFailed(p) /\ Fault
  /\ UNCHANGED <<file, stale, diverged, rcloneVars, repository, withdrawn,
                 credentials, timer, key, driftVars, started>>

\* Sync and Close: the file stays, or is removed although it was readable
SyncPassword(p) ==
  LET s == work[p].on
  IN /\ pc[p] = "syncing"
     /\ \/ /\ IF work[p].op = "password"
              THEN Return(p, memory[p])
              ELSE Goto(p, "initializing", work[p], memory[p])
           /\ UNCHANGED <<password, withdrawn, faults>>
        \/ /\ password' = [password EXCEPT ![s] = None]
           /\ withdrawn' = withdrawn \cup {s}
           /\ PasswordFailed(p) /\ Fault
     /\ UNCHANGED <<file, stale, diverged, rcloneVars, repository, credentials,
                    timer, key, driftVars, started>>

\* quickSetup takes the storage back; the result of this save is ignored
WithdrawStorage(p) ==
  LET c == [memory[p] EXCEPT !.storages = @ \ {work[p].on}]
  IN /\ pc[p] = "withdrawing"
     /\ \E outcome \in Outcome :
          Saves(p, c, outcome, TRUE) /\ DriftAll(outcome, c)
     /\ Return(p, c)
     /\ UNCHANGED <<rcloneVars, repositoryVars, credentials, timer, key,
                    started>>

\* Mutation: restic is started with whatever the password file holds
InitWithAnything(p) ==
  /\ pc[p] = "initializing"
  /\ repository' = [repository EXCEPT ![work[p].on] = password[work[p].on]]
  /\ Return(p, memory[p])
  /\ UNCHANGED <<fileVars, rcloneVars, password, withdrawn, credentials, timer,
                 key, driftVars, started>>

\* repository.Init: restic makes a repository with the password it reads, where
\* there is none, or nothing happens
InitRepository(p) ==
  LET s == work[p].on
  IN /\ pc[p] = "initializing"
     /\ \/ /\ password[s] \in Password /\ repository[s] = None
           /\ repository' = [repository EXCEPT ![s] = password[s]]
        \/ UNCHANGED repository
     /\ Return(p, memory[p])
     /\ UNCHANGED <<fileVars, rcloneVars, password, withdrawn, credentials,
                    timer, key, driftVars, started>>

---------------------------------------------------------------------------
(* Jobs and their timers *)

\* The change of job j is saved and its timer set; otherwise it is undone
SaveJob(p, j, job, timed) ==
  LET c == [memory[p] EXCEPT !.jobs[j] = job]
  IN /\ \E outcome \in Outcome :
          /\ Saves(p, c, outcome, FALSE)
          /\ Drift(outcome, Added(c),
                   Rescheduled(c) \ (IF timed THEN Seen(outcome, {j}) ELSE {}),
                   Renamed(c))
          /\ IF outcome # "saved" THEN Return(p, memory[p])
             ELSE IF timed THEN Goto(p, "timing", Work("job", j, None), c)
             ELSE Return(p, c)
     /\ UNCHANGED <<rcloneVars, repositoryVars, credentials, timer, key>>

\* finishJobSetup, at the end of quickSetup or from the job menu
AddJob(p, j, s, schedule) ==
  /\ p \in Menu /\ Begin(p)
  /\ j \notin Jobs(memory[p]) /\ s \in memory[p].storages
  /\ SaveJob(p, j, [enabled |-> TRUE, schedule |-> schedule, storage |-> s,
                    databases |-> {}, keeps |-> TRUE], schedule # None)

\* Every change editJobMenu can make to a job but that of its schedule; names,
\* paths and the like are no part of the model, so the job may look the same
Edited(job) ==
  {[job EXCEPT !.databases = ids] : ids \in SUBSET Database}
    \cup {[job EXCEPT !.storage = s] : s \in Storage}
    \cup {[job EXCEPT !.keeps = keeps] : keeps \in BOOLEAN}

\* Mutation: an edit that could not be saved stays in memory
EditJobKept(p, j) ==
  /\ p \in Menu /\ Begin(p) /\ j \in Jobs(memory[p])
  /\ \E job \in Edited(memory[p].jobs[j]) :
       LET c == [memory[p] EXCEPT !.jobs[j] = job]
       IN \E outcome \in Outcome :
            /\ Saves(p, c, outcome, FALSE) /\ DriftAll(outcome, c)
            /\ Return(p, c)
  /\ UNCHANGED <<rcloneVars, repositoryVars, credentials, timer, key>>

EditJob(p, j) ==
  /\ p \in Menu /\ Begin(p) /\ j \in Jobs(memory[p])
  /\ \E job \in Edited(memory[p].jobs[j]) :
       SaveJob(p, j, job, FALSE)

\* Mutation: the timer is not updated with the schedule
RescheduleUntimed(p, j) ==
  /\ p \in Menu /\ Begin(p) /\ j \in Jobs(memory[p])
  /\ \E schedule \in Schedule \cup {None}, outcome \in Outcome :
       LET c == [memory[p] EXCEPT !.jobs[j].schedule = schedule]
       IN /\ Saves(p, c, outcome, FALSE)
          /\ Drift(outcome, Added(c), Rescheduled(c) \ Seen(outcome, {j}),
                   Renamed(c))
          /\ Return(p, IF outcome = "saved" THEN c ELSE memory[p])
  /\ UNCHANGED <<rcloneVars, repositoryVars, credentials, timer, key>>

RescheduleJob(p, j) ==
  /\ p \in Menu /\ Begin(p) /\ j \in Jobs(memory[p])
  /\ \E schedule \in Schedule \cup {None} :
       SaveJob(p, j, [memory[p].jobs[j] EXCEPT !.schedule = schedule], TRUE)

DeleteJob(p, j) ==
  /\ Begin(p) /\ j \in Jobs(memory[p])
  /\ SaveJob(p, j, None, TRUE)

\* The menu toggles, and keeps the change in memory when the save fails;
\* the commands enable and disable set it
EnableJob(p, j) ==
  /\ Begin(p) /\ j \in Jobs(memory[p])
  /\ \E enabled \in BOOLEAN, outcome \in Outcome :
       LET c == [memory[p] EXCEPT !.jobs[j].enabled = enabled]
       IN /\ p \in Menu => c # memory[p]
          /\ Saves(p, c, outcome, TRUE)
          /\ Drift(outcome, Added(c), Rescheduled(c) \ Seen(outcome, {j}),
                   Renamed(c))
          /\ IF outcome = "saved"
             THEN Goto(p, "timing", Work("job", j, None), c)
             ELSE Return(p, c)
  /\ UNCHANGED <<rcloneVars, repositoryVars, credentials, timer, key>>

ReinstallTimer(p, j) ==
  /\ p \in Menu /\ Begin(p) /\ j \in Jobs(memory[p])
  /\ memory[p].jobs[j].schedule # None
  /\ Goto(p, "timing", Work("reinstall", j, None), memory[p])
  /\ UNCHANGED <<fileVars, rcloneVars, repositoryVars, credentials, timer, key,
                 driftVars>>

\* The schedule p is about to give the timer of its job, None to disable it
Wanted(p) ==
  LET j == work[p].on
  IN IF work[p].op = "reinstall" /\ j \in Jobs(memory[p])
     THEN memory[p].jobs[j].schedule ELSE Due(memory[p], j)

\* installJobSchedule and disableJobSchedule, whose failure is only shown.  The
\* job's timer is adrift when it is set from a copy that is not the file's, or
\* not set, and no longer when it is set from the file's
SetTimer(p) ==
  LET j == work[p].on
  IN /\ pc[p] = "timing"
     /\ \/ /\ timer' = [timer EXCEPT ![j] = Wanted(p)]
           /\ timersAdrift' = IF p \in stale \cup diverged
                              THEN timersAdrift \cup {j} ELSE timersAdrift \ {j}
           /\ UNCHANGED faults
        \/ /\ timersAdrift' = IF Wanted(p) # None
                              THEN timersAdrift \cup {j} ELSE timersAdrift
           /\ Fault /\ UNCHANGED timer
  /\ Return(p, memory[p])
  /\ UNCHANGED <<file, stale, diverged, rcloneVars, repositoryVars, credentials,
                 key, credentialsAdrift, keyAdrift, started>>

---------------------------------------------------------------------------
(* Databases and their credential files *)

\* addDatabase: the credential file must be new
AddDatabase(p, d) ==
  /\ p \in Menu /\ Begin(p)
  /\ d \notin memory[p].databases \cup credentials
  /\ credentials' = credentials \cup {d}
  /\ Goto(p, "adding_database", Work("database", d, None), memory[p])
  /\ UNCHANGED <<fileVars, rcloneVars, repositoryVars, timer, key, driftVars>>

SaveDatabase(p) ==
  LET c == [memory[p] EXCEPT !.databases = @ \cup {work[p].on}]
  IN /\ pc[p] = "adding_database"
     /\ \E outcome \in Outcome :
          /\ Saves(p, c, outcome, FALSE)
          /\ Drift(outcome, Added(c) \ Seen(outcome, {work[p].on}), Rescheduled(c),
                   Renamed(c))
          /\ IF outcome = "saved" THEN Return(p, c)
                                  ELSE Goto(p, "dropping", work[p], memory[p])
     /\ UNCHANGED <<rcloneVars, repositoryVars, credentials, timer, key,
                    started>>

\* Mutation: the credential goes whether or not the save succeeded
DeleteDatabaseAnyway(p, d) ==
  LET c == [memory[p] EXCEPT !.databases = @ \ {d}]
  IN /\ p \in Menu /\ Begin(p) /\ d \in memory[p].databases
     /\ \E outcome \in Outcome :
          /\ Saves(p, c, outcome, FALSE)
          /\ Drift(outcome, Added(c) \cup ({d} \ file.databases), Rescheduled(c),
                   Renamed(c))
          /\ Goto(p, "dropping", Work("database", d, None),
                  IF outcome = "saved" THEN c ELSE memory[p])
     /\ UNCHANGED <<rcloneVars, repositoryVars, credentials, timer, key>>

\* deleteDatabase: refused while a job uses it, which Save would refuse too.
\* Where the file no longer has the database, an outdated copy had it; then the
\* credential file that goes may be that of one with the same name
DeleteDatabase(p, d) ==
  LET c == [memory[p] EXCEPT !.databases = @ \ {d}]
  IN /\ p \in Menu /\ Begin(p) /\ d \in memory[p].databases
     /\ \E outcome \in Outcome :
          /\ Saves(p, c, outcome, FALSE)
          /\ Drift(outcome, Added(c) \cup ({d} \ file.databases), Rescheduled(c),
                   Renamed(c))
          /\ IF outcome = "saved"
             THEN Goto(p, "dropping", Work("database", d, None), c)
             ELSE Return(p, memory[p])
     /\ UNCHANGED <<rcloneVars, repositoryVars, credentials, timer, key>>

DropCredential(p) ==
  /\ pc[p] = "dropping"
  /\ \/ credentials' = credentials \ {work[p].on} /\ UNCHANGED faults
     \/ Fault /\ UNCHANGED credentials
  /\ Return(p, memory[p])
  /\ UNCHANGED <<file, stale, diverged, rcloneVars, repositoryVars, timer, key,
                 driftVars, started>>

---------------------------------------------------------------------------
(* Monitoring and monitor.key *)

Configuring == {p \in Process : pc[p] \in {"testing", "connected"}}

\* configureMonitor reads the old secret and replaces it; what a second session
\* finds may be a secret that the first gives up again
ConfigureMonitor(p, n) ==
  /\ p \in Menu /\ Begin(p)
  /\ key' = n
  /\ Goto(p, "testing", Work("monitor", n, key), memory[p])
  /\ keyAdrift' = (keyAdrift \/ Configuring # {})
  /\ UNCHANGED <<fileVars, rcloneVars, repositoryVars, credentials, timer,
                 credentialsAdrift, timersAdrift>>

\* Mutation: the old secret is not put back
TestMonitorForgets(p) ==
  /\ pc[p] = "testing"
  /\ \/ key = work[p].on /\ Goto(p, "connected", work[p], memory[p])
     \/ Return(p, memory[p])
  /\ UNCHANGED <<fileVars, rcloneVars, repositoryVars, credentials, timer, key,
                 driftVars, started>>

\* The monitor accepts the node's own secret only; after a failure the old one
\* is put back, which may fail in silence
TestMonitor(p) ==
  /\ pc[p] = "testing"
  /\ \/ /\ key = work[p].on
        /\ Goto(p, "connected", work[p], memory[p])
        /\ UNCHANGED <<key, keyAdrift, faults>>
     \/ /\ key' = work[p].seen
        /\ Return(p, memory[p])
        /\ UNCHANGED <<keyAdrift, faults>>
     \/ /\ keyAdrift' = TRUE
        /\ Return(p, memory[p]) /\ Fault
        /\ UNCHANGED key
  /\ UNCHANGED <<file, stale, diverged, rcloneVars, repositoryVars, credentials,
                 timer, credentialsAdrift, timersAdrift, started>>

\* The menu saves what it has in memory, and keeps it when that fails; a
\* connection that is not saved leaves its secret in monitor.key
SaveMonitor(p, monitor, connecting) ==
  LET c == [memory[p] EXCEPT !.monitor = monitor]
  IN /\ \E outcome \in Outcome :
          /\ Saves(p, c, outcome, TRUE)
          /\ IF connecting /\ outcome = "failed"
             THEN keyAdrift' = TRUE /\ UNCHANGED <<credentialsAdrift, timersAdrift>>
             ELSE Drift(outcome, Added(c), Rescheduled(c), ~connecting /\ Renamed(c))
     /\ Return(p, c)
     /\ UNCHANGED <<rcloneVars, repositoryVars, credentials, timer, key>>

ConnectMonitor(p) ==
  /\ pc[p] = "connected"
  /\ SaveMonitor(p, [enabled |-> TRUE, node |-> work[p].on], TRUE)
  /\ UNCHANGED started

\* The menu can only switch it off, the command switches it either way
SwitchMonitor(p, enabled) ==
  /\ Begin(p)
  /\ p \in Menu => memory[p].monitor.enabled /\ ~enabled
  /\ SaveMonitor(p, [memory[p].monitor EXCEPT !.enabled = enabled], FALSE)

---------------------------------------------------------------------------

\* `init --force' loads nothing and writes the default configuration
ForceInit(p) ==
  /\ p \in Command /\ pc[p] = "closed" /\ started < MaxOperations
  /\ started' = started + 1
  /\ \E outcome \in Outcome :
       Saves(p, Default, outcome, TRUE) /\ DriftAll(outcome, Default)
  /\ UNCHANGED <<processVars, rcloneVars, repositoryVars, credentials, timer,
                 key>>

\* The user leaves the menu, or the process dies: before it has set a timer, or
\* with a secret in monitor.key that is only being tried
Exit(p) ==
  /\ pc[p] # "closed"
  /\ IF pc[p] = "idle" THEN UNCHANGED faults ELSE Fault
  /\ Goto(p, "closed", NoWork, Default)
  /\ rcloneLock' = IF rcloneLock = p THEN None ELSE rcloneLock
  /\ diverged' = diverged \ {p}
  /\ timersAdrift' = IF pc[p] = "timing" /\ Wanted(p) # None
                     THEN timersAdrift \cup {work[p].on} ELSE timersAdrift
  /\ keyAdrift' = (keyAdrift \/ p \in Configuring)
  /\ UNCHANGED <<file, stale, remotes, repositoryVars, credentials, timer, key,
                 credentialsAdrift, started>>

StorageStep(p) ==
  \/ \E s \in Storage : \/ ConfigureWebDAV(p, s) \/ NewLocalStorage(p, s)
                        \/ InitializeRepository(p, s) \/ StoragePassword(p, s)
  \/ WriteRemote(p) \/ SaveStorage(p) \/ CreatePasswordFile(p)
  \/ WritePassword(p) \/ SyncPassword(p) \/ WithdrawStorage(p)
  \/ InitRepository(p)

JobStep(p) ==
  \/ \E j \in Job :
       \/ \E s \in Storage, schedule \in Schedule \cup {None} :
            AddJob(p, j, s, schedule)
       \/ EditJob(p, j) \/ RescheduleJob(p, j) \/ DeleteJob(p, j)
       \/ EnableJob(p, j) \/ ReinstallTimer(p, j)
  \/ SetTimer(p)

DatabaseStep(p) ==
  \/ \E d \in Database : AddDatabase(p, d) \/ DeleteDatabase(p, d)
  \/ SaveDatabase(p) \/ DropCredential(p)

MonitorStep(p) ==
  \/ \E n \in Node : ConfigureMonitor(p, n)
  \/ \E enabled \in BOOLEAN : SwitchMonitor(p, enabled)
  \/ TestMonitor(p) \/ ConnectMonitor(p)

Next ==
  \E p \in Process : \/ Open(p) \/ Exit(p) \/ ForceInit(p)
                     \/ StorageStep(p) \/ JobStep(p)
                     \/ DatabaseStep(p) \/ MonitorStep(p)

Spec == Init /\ [][Next]_vars

---------------------------------------------------------------------------
(* Properties *)

\* Every variable has its type
TypeOK ==
  /\ file \in Config
  /\ pc \in [Process -> {"closed", "idle", "configuring", "adding", "creating",
                         "writing", "syncing", "withdrawing", "initializing",
                         "timing", "adding_database", "dropping", "testing",
                         "connected"}]
  /\ memory \in [Process -> Config]
  /\ \A p \in Process : work[p].op \in Operation
  /\ stale \subseteq Process /\ diverged \subseteq Menu
  /\ remotes \subseteq WebDAV /\ rcloneLock \in Process \cup {None}
  /\ password \in [Storage -> Password \cup {None, "empty"}]
  /\ repository \in [Storage -> Password \cup {None}]
  /\ withdrawn \subseteq Storage
  /\ credentials \subseteq Database
  /\ timer \in [Job -> Schedule \cup {None}]
  /\ key \in Node \cup {None}
  /\ credentialsAdrift \subseteq Database /\ timersAdrift \subseteq Job
  /\ keyAdrift \in BOOLEAN /\ started \in 0..MaxOperations
  /\ faults \in 0..MaxFaults

\* Every WebDAV storage of config.yaml, and of any session's copy that may yet
\* be saved, has its section in rclone.conf, whoever else writes that file
StorageHasRemote ==
  \A c \in {file} \cup {memory[p] : p \in Process} :
    c.storages \cap WebDAV \subseteq remotes

\* A repository opens with the password file of its storage, whatever is
\* started again, crashes or fails, unless a process that could not finish
\* writing the file removed it after another had used it
RepositoryOpens ==
  \A s \in Storage \ withdrawn :
    repository[s] # None => password[s] = repository[s]

\* Every database of config.yaml has its credential file, across failed saves
\* and crashes, unless the database is adrift: an outdated or diverged copy
\* brought it back, or was used to delete it when the file no longer had it, or
\* adding it was given up after the file had been replaced.  That of another
\* database is no excuse
CredentialKept == file.databases \ credentialsAdrift \subseteq credentials

\* Between operations a session's copy is what config.yaml holds: whatever failed
\* was undone in memory, and no later save brings it back.  Exempt are a session
\* whose copy another has outdated, and one that diverged by its own last save:
\* one that failed with the file replaced, or one of those the code does not
\* undo in memory (of a toggled job, a withdrawn storage, the monitor)
MemoryMatchesFile ==
  \A p \in Menu \ (stale \cup diverged) : pc[p] = "idle" => memory[p] = file

\* A job that is enabled and scheduled has an active timer with its schedule
\* once the process that changed it has set it, unless its own timer is adrift:
\* setting it failed, was cut short or followed a copy that is not the file's, or
\* a save gave the job that schedule without a timer to follow.  Setting it again
\* from the file's configuration makes that good
EnabledJobHasTimer ==
  \A j \in Job \ timersAdrift :
    \/ Due(file, j) \in {None, timer[j]}
    \/ \E p \in Process : pc[p] = "timing" /\ work[p].on = j

\* While no one is configuring it, a monitor that is switched on finds in
\* monitor.key the secret of its node, however often another connection was
\* tried and given up, unless the key is adrift: the old one was not put back,
\* two sessions tried at once, the new connection could not be saved, or a save
\* of something else changed the node
KeyMatchesFile ==
  ~keyAdrift /\ Configuring = {} /\ file.monitor.enabled => key = file.monitor.node
=============================================================================
