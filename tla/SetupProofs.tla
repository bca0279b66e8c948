---------------------------- MODULE SetupProofs ----------------------------
(***************************************************************************)
(* Theorems of Setup for every set of sessions, storages, jobs, databases  *)
(* and nodes, and for any number of operations, failures and crashes: what *)
(* config.yaml, rclone.conf and the password files never lose.             *)
(***************************************************************************)
EXTENDS Setup, TLAPS

Location == {"closed", "idle", "configuring", "adding", "creating", "writing",
             "syncing", "withdrawing", "initializing", "timing",
             "adding_database", "dropping", "testing", "connected"}

\* What an operation at some location works on
WorkTyped(l, w) ==
  /\ w.op \in Operation
  /\ l \in {"configuring", "adding", "creating", "writing", "syncing",
            "withdrawing", "initializing"} => w.on \in Storage
  /\ l = "configuring" => w.on \in WebDAV
  /\ l = "timing" => w.on \in Job
  /\ l \in {"adding_database", "dropping"} => w.on \in Database
  /\ l \in {"testing", "connected"} => w.on \in Node
  /\ l = "testing" => w.seen \in Node \cup {None}

WorkOK ==
  /\ work = [p \in Process |-> work[p]]
  /\ \A p \in Process : WorkTyped(pc[p], work[p])

\* Who changes rclone.conf holds its lock and saw all of it, and a storage is
\* saved only once its section is there
RemoteOK ==
  /\ StorageHasRemote
  /\ \A p \in Process :
       /\ pc[p] = "configuring" => rcloneLock = p /\ work[p].seen = remotes
       /\ pc[p] = "adding" /\ work[p].on \in WebDAV => work[p].on \in remotes

\* A password file that is being written belongs to the one who created it
Owns(p) == pc[p] \in {"writing", "syncing"}
PasswordOK ==
  /\ RepositoryOpens
  /\ \A p \in Process :
       /\ pc[p] = "writing" => password[work[p].on] = "empty"
       /\ pc[p] = "syncing" => password[work[p].on] \in Password
       /\ \A q \in Process \ {p} : Owns(p) /\ Owns(q) => work[p].on # work[q].on

IInv == TypeOK /\ WorkOK /\ Validate(file) /\ RemoteOK /\ PasswordOK

---------------------------------------------------------------------------
(* Configurations and operations *)

\* The changes operations make to a copy of the configuration
LEMMA ConfigChanges ==
  ASSUME NEW c \in Config
  PROVE  /\ \A S \in SUBSET Storage : /\ [c EXCEPT !.storages = S] \in Config
                                      /\ [c EXCEPT !.storages = S].storages = S
         /\ \A D \in SUBSET Database :
              /\ [c EXCEPT !.databases = D] \in Config
              /\ [c EXCEPT !.databases = D].storages = c.storages
         /\ \A j \in Job, x \in JobConfig \cup {None} :
              /\ [c EXCEPT !.jobs[j] = x] \in Config
              /\ [c EXCEPT !.jobs[j] = x].storages = c.storages
         /\ \A x \in [enabled : BOOLEAN, node : Node \cup {None}] :
              /\ [c EXCEPT !.monitor = x] \in Config
              /\ [c EXCEPT !.monitor = x].storages = c.storages
BY DEF Config

\* Default is a valid configuration without storages
LEMMA DefaultValid == Default \in Config /\ Default.storages = {} /\ Validate(Default)
BY DEF Default, Config, Validate, ValidStorages, ValidDatabases, ValidRetention,
       ValidMonitor, Jobs

\* A step of p moves p alone
LEMMA GotoMoves ==
  ASSUME TypeOK, WorkOK, NEW p \in Process, NEW l \in Location, NEW w,
         NEW c \in Config, Goto(p, l, w, c)
  PROVE  /\ pc' \in [Process -> Location] /\ memory' \in [Process -> Config]
         /\ work' = [q \in Process |-> work'[q]]
         /\ pc'[p] = l /\ work'[p] = w /\ memory'[p] \in {Default, c}
         /\ \A q \in Process \ {p} :
              pc'[q] = pc[q] /\ work'[q] = work[q] /\ memory'[q] = memory[q]
<1>1. pc \in [Process -> Location] /\ memory \in [Process -> Config]
  BY DEF TypeOK, Location
<1>2. work = [q \in Process |-> work[q]]
  BY DEF WorkOK
<1>3. /\ pc' = [pc EXCEPT ![p] = l] /\ work' = [work EXCEPT ![p] = w]
      /\ memory' = [memory EXCEPT ![p] = IF l = "closed" THEN Default ELSE c]
  BY DEF Goto
<1>4. work' = [q \in Process |-> work'[q]] /\ work'[p] = w
      /\ \A q \in Process \ {p} : work'[q] = work[q]
  BY <1>2, <1>3
<1>5. /\ pc' \in [Process -> Location] /\ pc'[p] = l
      /\ \A q \in Process \ {p} : pc'[q] = pc[q]
  BY <1>1, <1>3
<1>6. /\ memory' \in [Process -> Config] /\ memory'[p] \in {Default, c}
      /\ \A q \in Process \ {p} : memory'[q] = memory[q]
  BY <1>1, <1>3, DefaultValid
<1> QED BY <1>4, <1>5, <1>6

\* What a save leaves of config.yaml
LEMMA SavesTypes ==
  ASSUME TypeOK, NEW p \in Process, NEW c \in Config, NEW outcome,
         NEW kept, Saves(p, c, outcome, kept)
  PROVE  /\ file' = file \/ (Validate(c) /\ file' = c)
         /\ stale' \subseteq Process /\ diverged' \subseteq Menu
         /\ faults' \in 0..MaxFaults
BY SetupAssumption DEF Saves, Fault, Opened, TypeOK

\* Failures are counted up to their bound
LEMMA FaultType ==
  ASSUME TypeOK, Fault
  PROVE  faults' \in 0..MaxFaults
BY SetupAssumption DEF Fault, TypeOK

\* What may be adrift
DriftTyped ==
  credentialsAdrift \subseteq Database /\ timersAdrift \subseteq Job /\ keyAdrift \in BOOLEAN

\* What a save may set adrift
LEMMA DriftItems ==
  ASSUME NEW c \in Config
  PROVE  Added(c) \subseteq Database /\ Rescheduled(c) \subseteq Job
BY DEF Added, Rescheduled, Config

LEMMA DriftTypes ==
  ASSUME DriftTyped, NEW outcome, NEW databases \in SUBSET Database,
         NEW jobs \in SUBSET Job, NEW node, Drift(outcome, databases, jobs, node)
  PROVE  DriftTyped'
BY DEF Drift, DriftTyped, driftVars

LEMMA DriftStays ==
  ASSUME DriftTyped, UNCHANGED driftVars
  PROVE  DriftTyped'
BY DEF DriftTyped, driftVars

\* A job's timer is due at one of the schedules, or not at all
LEMMA DueType ==
  ASSUME NEW c \in Config, NEW j
  PROVE  Due(c, j) \in Schedule \cup {None}
BY DEF Due, Jobs, Config, JobConfig

---------------------------------------------------------------------------
(***************************************************************************)
(* Most steps move one process, save its copy or not, and leave rclone.conf *)
(* and the password files alone.                                           *)
(***************************************************************************)
Ordinary(p, l, w, c) ==
  /\ Goto(p, l, w, c)
  /\ l \notin {"configuring", "writing", "syncing"} /\ WorkTyped(l, w)
  /\ l = "adding" /\ w.on \in WebDAV => w.on \in remotes
  /\ c.storages \cap WebDAV \subseteq remotes
  /\ \/ file' = file
     \/ /\ file' \in Config /\ Validate(file)'
        /\ file'.storages \cap WebDAV \subseteq remotes
  /\ UNCHANGED <<remotes, password, repository, withdrawn>>
  /\ rcloneLock' = rcloneLock \/ (rcloneLock = p /\ rcloneLock' = None)
  /\ stale' \subseteq Process /\ diverged' \subseteq Menu
  /\ credentials' \subseteq Database
  /\ timer' \in [Job -> Schedule \cup {None}] /\ key' \in Node \cup {None}
  /\ DriftTyped'
  /\ started' \in 0..MaxOperations /\ faults' \in 0..MaxFaults

\* An ordinary step keeps the invariant
LEMMA OrdinaryStep ==
  ASSUME IInv, NEW p \in Process, NEW l \in Location, NEW w, NEW c \in Config,
         Ordinary(p, l, w, c)
  PROVE  IInv'
<1> USE DEF IInv
<1>g. /\ pc' \in [Process -> Location] /\ memory' \in [Process -> Config]
      /\ work' = [q \in Process |-> work'[q]]
      /\ pc'[p] = l /\ work'[p] = w /\ memory'[p] \in {Default, c}
      /\ \A q \in Process \ {p} :
           pc'[q] = pc[q] /\ work'[q] = work[q] /\ memory'[q] = memory[q]
  BY GotoMoves DEF Ordinary
<1>1. WorkOK'
  BY <1>g DEF WorkOK, Ordinary
<1>2. TypeOK'
  <2>1. \A q \in Process : work'[q].op \in Operation
    BY <1>1 DEF WorkOK, WorkTyped
  <2>2. file' \in Config
    BY DEF Ordinary, TypeOK
  <2>3. rcloneLock' \in Process \cup {None}
    BY DEF Ordinary, TypeOK
  <2> QED BY <1>g, <2>1, <2>2, <2>3 DEF TypeOK, Ordinary, Location, DriftTyped
<1>3. Validate(file)'
  <2>1. file' = file \/ Validate(file)'
    BY DEF Ordinary
  <2> QED BY <2>1 DEF Validate, ValidStorages, ValidDatabases, ValidRetention,
                      ValidMonitor, Jobs
<1>4. RemoteOK'
  <2>1. StorageHasRemote'
    <3>1. /\ c.storages \cap WebDAV \subseteq remotes'
          /\ Default.storages \cap WebDAV \subseteq remotes'
      BY DefaultValid DEF Ordinary
    <3>2. \A d \in {file} \cup {memory[q] : q \in Process} :
            d.storages \cap WebDAV \subseteq remotes'
      BY DEF RemoteOK, StorageHasRemote, Ordinary
    <3>3. ASSUME NEW q \in Process
          PROVE  memory'[q].storages \cap WebDAV \subseteq remotes'
      BY <1>g, <3>1, <3>2
    <3>4. file'.storages \cap WebDAV \subseteq remotes'
      BY <3>1, <3>2 DEF Ordinary
    <3> QED BY <3>3, <3>4 DEF StorageHasRemote
  <2>2. ASSUME NEW q \in Process
        PROVE  /\ pc'[q] = "configuring" => rcloneLock' = q /\ work'[q].seen = remotes'
               /\ pc'[q] = "adding" /\ work'[q].on \in WebDAV => work'[q].on \in remotes'
    <3>1. CASE q = p
      BY <1>g, <3>1 DEF Ordinary
    <3>2. CASE q # p
      BY <1>g, <3>2 DEF Ordinary, RemoteOK
    <3> QED BY <3>1, <3>2
  <2> QED BY <2>1, <2>2 DEF RemoteOK
<1>5. PasswordOK'
  <2>1. RepositoryOpens'
    BY DEF PasswordOK, RepositoryOpens, Ordinary
  <2>2. \A q \in Process : Owns(q)' => q # p /\ Owns(q)
    BY <1>g DEF Owns, Ordinary
  <2> QED BY <1>g, <2>1, <2>2 DEF PasswordOK, Ordinary, Owns
<1> QED BY <1>1, <1>2, <1>3, <1>4, <1>5

---------------------------------------------------------------------------
(* The steps *)

\* Where an operation that is over leaves its process
Home(p) == IF p \in Menu THEN "idle" ELSE "closed"

\* What an action of p finds
LEMMA Before ==
  ASSUME IInv, NEW p \in Process
  PROVE  /\ memory[p] \in Config /\ memory[p].storages \cap WebDAV \subseteq remotes
         /\ memory[p].storages \in SUBSET Storage /\ memory[p].databases \in SUBSET Database
         /\ WorkTyped(pc[p], work[p]) /\ Home(p) \in Location
         /\ WorkTyped(Home(p), NoWork) /\ Home(p) \notin {"configuring", "adding", "writing", "syncing"}
         /\ file \in Config /\ faults \in 0..MaxFaults
         /\ started \in 0..MaxOperations
         /\ Begin(p) => started' \in 0..MaxOperations /\ pc[p] = "idle"
         /\ DriftTyped /\ stale \subseteq Process /\ diverged \subseteq Menu
<1>1. memory[p] \in Config /\ WorkTyped(pc[p], work[p])
  BY DEF IInv, TypeOK, WorkOK
<1>2. memory[p].storages \cap WebDAV \subseteq remotes
  BY DEF IInv, RemoteOK, StorageHasRemote
<1>3. Home(p) \in Location /\ Home(p) \notin {"configuring", "adding", "writing", "syncing"}
  BY DEF Home, Location
<1>4. WorkTyped(Home(p), NoWork)
  BY DEF Home, WorkTyped, NoWork, Operation
<1>5. Begin(p) => started' \in 0..MaxOperations /\ pc[p] = "idle"
  BY SetupAssumption DEF IInv, TypeOK, Begin
<1>6. memory[p].storages \in SUBSET Storage /\ memory[p].databases \in SUBSET Database
  BY <1>1 DEF Config
<1> QED BY <1>1, <1>2, <1>3, <1>4, <1>5, <1>6 DEF IInv, TypeOK, DriftTyped

\* A step that saves and goes on to one of two places
LEMMA SavingStep ==
  ASSUME IInv, NEW p \in Process, NEW l \in Location, NEW w, NEW c \in Config,
         NEW d \in Config, NEW outcome,
         NEW kept, Saves(p, c, outcome, kept), Goto(p, l, w, d), d \in {c, memory[p]},
         l \notin {"configuring", "adding", "writing", "syncing"}, WorkTyped(l, w),
         c.storages \cap WebDAV \subseteq remotes, DriftTyped',
         started' \in 0..MaxOperations, credentials' \subseteq Database,
         UNCHANGED <<rcloneVars, repositoryVars, timer, key>>
  PROVE  IInv'
<1>1. /\ file' = file \/ (Validate(c) /\ file' = c)
      /\ stale' \subseteq Process /\ diverged' \subseteq Menu /\ faults' \in 0..MaxFaults
  BY SavesTypes DEF IInv
<1>2. memory[p].storages \cap WebDAV \subseteq remotes
  BY Before
<1>3. timer \in [Job -> Schedule \cup {None}] /\ key \in Node \cup {None}
  BY DEF IInv, TypeOK
<1>4. d.storages \cap WebDAV \subseteq remotes
  BY <1>2
<1>5. Validate(c) /\ file' = c => Validate(file)'
  BY DEF Validate, ValidStorages, ValidDatabases, ValidRetention, ValidMonitor, Jobs
<1>6. Ordinary(p, l, w, d)
  BY <1>1, <1>3, <1>4, <1>5 DEF Ordinary, rcloneVars, repositoryVars
<1> QED BY <1>6, OrdinaryStep

\* A step that neither saves nor touches rclone.conf and the password files
LEMMA PlainStep ==
  ASSUME IInv, NEW p \in Process, NEW l \in Location, NEW w,
         Goto(p, l, w, memory[p]),
         l \notin {"configuring", "adding", "writing", "syncing"}, WorkTyped(l, w),
         UNCHANGED <<file, stale, diverged, rcloneVars, repositoryVars>>,
         credentials' \subseteq Database,
         timer' \in [Job -> Schedule \cup {None}], key' \in Node \cup {None},
         DriftTyped', started' \in 0..MaxOperations,
         faults' \in 0..MaxFaults
  PROVE  IInv'
<1>1. memory[p] \in Config /\ memory[p].storages \cap WebDAV \subseteq remotes
  BY Before
<1>2. stale' \subseteq Process /\ diverged' \subseteq Menu
  BY DEF IInv, TypeOK
<1>3. Ordinary(p, l, w, memory[p])
  BY <1>1, <1>2 DEF Ordinary, rcloneVars, repositoryVars
<1> QED BY <1>1, <1>3, OrdinaryStep

\* The steps of a job's change and of its timer
LEMMA JobStepKeeps ==
  ASSUME IInv, NEW p \in Process, JobStep(p)
  PROVE  IInv'
<1> DEFINE m == memory[p]
<1>m. /\ m \in Config /\ m.storages \cap WebDAV \subseteq remotes
      /\ WorkTyped(pc[p], work[p]) /\ DriftTyped
      /\ Home(p) \in Location /\ WorkTyped(Home(p), NoWork)
      /\ Home(p) \notin {"configuring", "adding", "writing", "syncing"}
      /\ Begin(p) => started' \in 0..MaxOperations
      /\ started \in 0..MaxOperations /\ faults \in 0..MaxFaults
  BY Before
<1>j. \A j \in Jobs(m) : j \in Job /\ m.jobs[j] \in JobConfig
  BY <1>m DEF Jobs, Config
<1>t. \A j \in Job, op \in {"job", "reinstall"} :
        WorkTyped("timing", Work(op, j, None)) /\ "timing" \in Location
  BY DEF WorkTyped, Work, Location, Operation
<1>k. credentials \subseteq Database /\ timer \in [Job -> Schedule \cup {None}]
      /\ key \in Node \cup {None}
  BY DEF IInv, TypeOK
<1>s. ASSUME NEW j \in Job, NEW job \in JobConfig \cup {None}, NEW timed \in BOOLEAN,
             Begin(p), SaveJob(p, j, job, timed)
      PROVE  IInv'
  <2> DEFINE c == [m EXCEPT !.jobs[j] = job]
  <2>1. c \in Config /\ c.storages \cap WebDAV \subseteq remotes
    BY <1>m, ConfigChanges
  <2>2. PICK outcome \in Outcome :
          /\ Saves(p, c, outcome, FALSE)
          /\ Drift(outcome, Added(c),
                   Rescheduled(c) \ (IF timed THEN Seen(outcome, {j}) ELSE {}),
                   Renamed(c))
          /\ IF outcome # "saved" THEN Return(p, m)
             ELSE IF timed THEN Goto(p, "timing", Work("job", j, None), c)
             ELSE Return(p, c)
    BY <1>s DEF SaveJob
  <2>d. DriftTyped'
    <3>1. Added(c) \subseteq Database /\ Rescheduled(c) \subseteq Job
      BY <2>1, DriftItems
    <3> HIDE DEF c
    <3> QED BY <1>m, <2>2, <3>1, DriftTypes
  <2>3. /\ DriftTyped' /\ started' \in 0..MaxOperations
        /\ credentials' \subseteq Database
        /\ UNCHANGED <<rcloneVars, repositoryVars, timer, key>>
    BY <1>s, <1>m, <1>k, <2>d DEF SaveJob
  <2>4. \/ \E d \in {c, m} : Goto(p, Home(p), NoWork, d)
        \/ Goto(p, "timing", Work("job", j, None), c)
    BY <2>2 DEF Return, Home
  <2>5. CASE \E d \in {c, m} : Goto(p, Home(p), NoWork, d)
    <3>1. PICK d \in {c, m} : Goto(p, Home(p), NoWork, d)
      BY <2>5
    <3>2. d \in Config
      BY <1>m, <2>1
    <3> HIDE DEF c
    <3> QED BY <1>m, <2>1, <2>2, <2>3, <3>1, <3>2, SavingStep
  <2>6. CASE Goto(p, "timing", Work("job", j, None), c)
    <3> HIDE DEF c
    <3> QED BY <1>t, <2>1, <2>2, <2>3, <2>6, SavingStep
  <2> QED BY <2>4, <2>5, <2>6
<1>1. ASSUME NEW j \in Job, NEW x \in Storage, NEW schedule \in Schedule \cup {None},
             AddJob(p, j, x, schedule)
      PROVE  IInv'
  <2> DEFINE job == [enabled |-> TRUE, schedule |-> schedule, storage |-> x,
                     databases |-> {}, keeps |-> TRUE]
  <2>1. job \in JobConfig
    BY DEF JobConfig
  <2>2. Begin(p) /\ SaveJob(p, j, job, schedule # None)
    BY <1>1 DEF AddJob
  <2> HIDE DEF job
  <2> QED BY <2>1, <2>2, <1>s
<1>2. ASSUME NEW j \in Job, EditJob(p, j)
      PROVE  IInv'
  <2>1. PICK job \in Edited(m.jobs[j]) : SaveJob(p, j, job, FALSE)
    BY <1>2 DEF EditJob
  <2>2. m.jobs[j] \in JobConfig /\ Begin(p)
    BY <1>2, <1>j DEF EditJob
  <2>3. job \in JobConfig
    BY <2>2 DEF Edited, JobConfig
  <2> QED BY <2>1, <2>2, <2>3, <1>s
<1>3. ASSUME NEW j \in Job, RescheduleJob(p, j)
      PROVE  IInv'
  <2>1. PICK schedule \in Schedule \cup {None} :
          SaveJob(p, j, [m.jobs[j] EXCEPT !.schedule = schedule], TRUE)
    BY <1>3 DEF RescheduleJob
  <2>2. m.jobs[j] \in JobConfig /\ Begin(p)
    BY <1>3, <1>j DEF RescheduleJob
  <2>3. [m.jobs[j] EXCEPT !.schedule = schedule] \in JobConfig
    BY <2>2 DEF JobConfig
  <2> QED BY <2>1, <2>2, <2>3, <1>s
<1>4. ASSUME NEW j \in Job, DeleteJob(p, j)
      PROVE  IInv'
  BY <1>4, <1>s DEF DeleteJob
<1>5. ASSUME NEW j \in Job, EnableJob(p, j)
      PROVE  IInv'
  <2>1. PICK enabled \in BOOLEAN, outcome \in Outcome :
          LET c == [m EXCEPT !.jobs[j].enabled = enabled]
          IN /\ Saves(p, c, outcome, TRUE)
             /\ Drift(outcome, Added(c), Rescheduled(c) \ Seen(outcome, {j}),
                      Renamed(c))
             /\ IF outcome = "saved"
                THEN Goto(p, "timing", Work("job", j, None), c)
                ELSE Return(p, c)
    BY <1>5 DEF EnableJob
  <2> DEFINE c == [m EXCEPT !.jobs[j].enabled = enabled]
  <2>2. m.jobs[j] \in JobConfig /\ Begin(p)
    BY <1>5, <1>j DEF EnableJob
  <2>3. c \in Config /\ c.storages \cap WebDAV \subseteq remotes
    <3>1. [m.jobs[j] EXCEPT !.enabled = enabled] \in JobConfig
      BY <2>2 DEF JobConfig
    <3>2. c = [m EXCEPT !.jobs[j] = [m.jobs[j] EXCEPT !.enabled = enabled]]
      OBVIOUS
    <3> QED BY <1>m, <3>1, <3>2, ConfigChanges
  <2>4. DriftTyped'
    <3>1. Added(c) \subseteq Database /\ Rescheduled(c) \ Seen(outcome, {j}) \subseteq Job
      BY <2>3, DriftItems
    <3>2. Drift(outcome, Added(c), Rescheduled(c) \ Seen(outcome, {j}), Renamed(c))
      BY <2>1
    <3> HIDE DEF c
    <3> QED BY <1>m, <3>1, <3>2, DriftTypes
  <2>5. /\ started' \in 0..MaxOperations /\ credentials' \subseteq Database
        /\ UNCHANGED <<rcloneVars, repositoryVars, timer, key>>
    BY <1>5, <1>m, <1>k, <2>2 DEF EnableJob
  <2>6. \/ Goto(p, Home(p), NoWork, c)
        \/ Goto(p, "timing", Work("job", j, None), c)
    BY <2>1 DEF Return, Home
  <2>7. Saves(p, c, outcome, TRUE)
    BY <2>1
  <2> HIDE DEF c
  <2> QED BY <1>m, <1>t, <2>3, <2>4, <2>5, <2>6, <2>7, SavingStep
<1>6. ASSUME NEW j \in Job, ReinstallTimer(p, j)
      PROVE  IInv'
  <2>1. /\ Goto(p, "timing", Work("reinstall", j, None), m)
        /\ UNCHANGED <<file, stale, diverged, faults, rcloneVars, repositoryVars, credentials,
                       timer, key, driftVars>>
        /\ started' \in 0..MaxOperations
    BY <1>6, <1>m DEF ReinstallTimer, fileVars
  <2> QED BY <1>m, <1>k, <1>t, <2>1, DriftStays, PlainStep
<1>7. CASE SetTimer(p)
  <2>1. work[p].on \in Job /\ Wanted(p) \in Schedule \cup {None}
    <3>1. work[p].on \in Job
      BY <1>7, <1>m DEF SetTimer, WorkTyped
    <3> QED BY <3>1, <1>m, <1>j, DueType DEF Wanted, JobConfig
  <2>2. timer' \in [Job -> Schedule \cup {None}]
    BY <1>7, <1>k, <2>1 DEF SetTimer
  <2>3. DriftTyped'
    BY <1>7, <1>m, <2>1 DEF SetTimer, DriftTyped
  <2>4. faults' \in 0..MaxFaults
    BY <1>7, <1>m, FaultType DEF SetTimer, IInv
  <2>5. /\ Goto(p, Home(p), NoWork, m)
        /\ UNCHANGED <<file, stale, diverged, rcloneVars, repositoryVars, credentials, key, started>>
    BY <1>7 DEF SetTimer, Return, Home
  <2> QED BY <1>m, <1>k, <2>2, <2>3, <2>4, <2>5, PlainStep
<1> QED BY <1>1, <1>2, <1>3, <1>4, <1>5, <1>6, <1>7 DEF JobStep

\* The steps of a database's change and of its credential file
LEMMA DatabaseStepKeeps ==
  ASSUME IInv, NEW p \in Process, DatabaseStep(p)
  PROVE  IInv'
<1> DEFINE m == memory[p]
<1>m. /\ m \in Config /\ m.storages \cap WebDAV \subseteq remotes
      /\ m.databases \in SUBSET Database
      /\ WorkTyped(pc[p], work[p]) /\ DriftTyped
      /\ Home(p) \in Location /\ WorkTyped(Home(p), NoWork)
      /\ Home(p) \notin {"configuring", "adding", "writing", "syncing"}
      /\ Begin(p) => started' \in 0..MaxOperations
      /\ started \in 0..MaxOperations /\ faults \in 0..MaxFaults
  BY Before
<1>k. credentials \subseteq Database /\ timer \in [Job -> Schedule \cup {None}]
      /\ key \in Node \cup {None}
  BY DEF IInv, TypeOK
<1>d. \A d \in Database, l \in {"adding_database", "dropping"} :
        WorkTyped(l, Work("database", d, None)) /\ l \in Location
  BY DEF WorkTyped, Work, Operation, Location
<1>1. ASSUME NEW d \in Database, AddDatabase(p, d)
      PROVE  IInv'
  <2>1. /\ Goto(p, "adding_database", Work("database", d, None), m)
        /\ UNCHANGED <<file, stale, diverged, faults, rcloneVars, repositoryVars, timer, key, driftVars>>
        /\ started' \in 0..MaxOperations /\ credentials' \subseteq Database
    BY <1>1, <1>m, <1>k DEF AddDatabase, fileVars
  <2> QED BY <1>m, <1>k, <1>d, <2>1, DriftStays, PlainStep
<1>2. CASE SaveDatabase(p)
  <2> DEFINE c == [m EXCEPT !.databases = @ \cup {work[p].on}]
  <2>1. pc[p] = "adding_database" /\ work[p].on \in Database
    BY <1>2, <1>m DEF SaveDatabase, WorkTyped
  <2>2. c \in Config /\ c.storages \cap WebDAV \subseteq remotes
    <3>1. m.databases \cup {work[p].on} \in SUBSET Database
      BY <1>m, <2>1
    <3> QED BY <1>m, <3>1, ConfigChanges
  <2>3. PICK outcome \in Outcome :
          /\ Saves(p, c, outcome, FALSE)
          /\ Drift(outcome, Added(c) \ Seen(outcome, {work[p].on}), Rescheduled(c),
                   Renamed(c))
          /\ IF outcome = "saved" THEN Return(p, c)
                                  ELSE Goto(p, "dropping", work[p], m)
    BY <1>2 DEF SaveDatabase
  <2>d. DriftTyped'
    <3>1. Added(c) \subseteq Database /\ Rescheduled(c) \subseteq Job
      BY <2>2, DriftItems
    <3> HIDE DEF c
    <3> QED BY <1>m, <2>3, <3>1, DriftTypes
  <2>4. /\ DriftTyped' /\ started' \in 0..MaxOperations
        /\ credentials' \subseteq Database
        /\ UNCHANGED <<rcloneVars, repositoryVars, timer, key>>
    BY <1>2, <1>m, <1>k, <2>3, <2>d DEF SaveDatabase
  <2>5. WorkTyped("dropping", work[p]) /\ "dropping" \in Location
    BY <1>m, <2>1 DEF WorkTyped, Location
  <2>6. Goto(p, Home(p), NoWork, c) \/ Goto(p, "dropping", work[p], m)
    BY <2>3 DEF Return, Home
  <2> HIDE DEF c
  <2> QED BY <1>m, <2>2, <2>3, <2>4, <2>5, <2>6, SavingStep
<1>3. ASSUME NEW d \in Database, DeleteDatabase(p, d)
      PROVE  IInv'
  <2> DEFINE c == [m EXCEPT !.databases = @ \ {d}]
  <2>1. c \in Config /\ c.storages \cap WebDAV \subseteq remotes
    <3>1. m.databases \ {d} \in SUBSET Database
      BY <1>m
    <3> QED BY <1>m, <3>1, ConfigChanges
  <2>2. PICK outcome \in Outcome :
          /\ Saves(p, c, outcome, FALSE)
          /\ Drift(outcome, Added(c) \cup ({d} \ file.databases), Rescheduled(c),
                   Renamed(c))
          /\ IF outcome = "saved"
             THEN Goto(p, "dropping", Work("database", d, None), c)
             ELSE Return(p, m)
    BY <1>3 DEF DeleteDatabase
  <2>d. DriftTyped'
    <3>1. Added(c) \cup ({d} \ file.databases) \subseteq Database /\ Rescheduled(c) \subseteq Job
      BY <2>1, DriftItems
    <3> HIDE DEF c
    <3> QED BY <1>m, <2>2, <3>1, DriftTypes
  <2>3. /\ DriftTyped' /\ started' \in 0..MaxOperations
        /\ credentials' \subseteq Database
        /\ UNCHANGED <<rcloneVars, repositoryVars, timer, key>>
    BY <1>3, <1>m, <1>k, <2>2, <2>d DEF DeleteDatabase
  <2>4. \/ Goto(p, "dropping", Work("database", d, None), c)
        \/ Goto(p, Home(p), NoWork, m)
    BY <2>2 DEF Return, Home
  <2> HIDE DEF c
  <2> QED BY <1>m, <1>d, <2>1, <2>2, <2>3, <2>4, SavingStep
<1>4. CASE DropCredential(p)
  <2>1. faults' \in 0..MaxFaults /\ credentials' \subseteq Database
    BY <1>4, <1>m, <1>k, FaultType DEF DropCredential, IInv
  <2>2. /\ Goto(p, Home(p), NoWork, m)
        /\ UNCHANGED <<file, stale, diverged, rcloneVars, repositoryVars, timer, key, driftVars,
                       started>>
    BY <1>4 DEF DropCredential, Return, Home
  <2> QED BY <1>m, <1>k, <2>1, <2>2, DriftStays, PlainStep
<1> QED BY <1>1, <1>2, <1>3, <1>4 DEF DatabaseStep

\* The steps of the monitor's configuration and of its key
LEMMA MonitorStepKeeps ==
  ASSUME IInv, NEW p \in Process, MonitorStep(p)
  PROVE  IInv'
<1> DEFINE m == memory[p]
<1>m. /\ m \in Config /\ m.storages \cap WebDAV \subseteq remotes
      /\ WorkTyped(pc[p], work[p]) /\ DriftTyped
      /\ Home(p) \in Location /\ WorkTyped(Home(p), NoWork)
      /\ Home(p) \notin {"configuring", "adding", "writing", "syncing"}
      /\ Begin(p) => started' \in 0..MaxOperations
      /\ started \in 0..MaxOperations /\ faults \in 0..MaxFaults
  BY Before
<1>k. credentials \subseteq Database /\ timer \in [Job -> Schedule \cup {None}]
      /\ key \in Node \cup {None}
  BY DEF IInv, TypeOK
<1>s. ASSUME NEW monitor \in [enabled : BOOLEAN, node : Node \cup {None}],
             NEW connecting, SaveMonitor(p, monitor, connecting), started' \in 0..MaxOperations
      PROVE  IInv'
  <2> DEFINE c == [m EXCEPT !.monitor = monitor]
  <2>1. c \in Config /\ c.storages \cap WebDAV \subseteq remotes
    BY <1>m, ConfigChanges
  <2>2. PICK outcome \in Outcome :
          /\ Saves(p, c, outcome, TRUE)
          /\ \/ keyAdrift' = TRUE /\ UNCHANGED <<credentialsAdrift, timersAdrift>>
             \/ Drift(outcome, Added(c), Rescheduled(c), ~connecting /\ Renamed(c))
    BY <1>s DEF SaveMonitor
  <2>3. DriftTyped'
    <3>1. Added(c) \subseteq Database /\ Rescheduled(c) \subseteq Job
      BY <2>1, DriftItems
    <3> HIDE DEF c
    <3>2. CASE keyAdrift' = TRUE /\ UNCHANGED <<credentialsAdrift, timersAdrift>>
      BY <1>m, <3>2 DEF DriftTyped
    <3>3. CASE Drift(outcome, Added(c), Rescheduled(c), ~connecting /\ Renamed(c))
      BY <1>m, <3>1, <3>3, DriftTypes
    <3> QED BY <2>2, <3>2, <3>3
  <2>4. /\ Goto(p, Home(p), NoWork, c)
        /\ UNCHANGED <<rcloneVars, repositoryVars, credentials, timer, key>>
    BY <1>s DEF SaveMonitor, Return, Home
  <2> HIDE DEF c
  <2> QED BY <1>m, <1>k, <1>s, <2>1, <2>2, <2>3, <2>4, SavingStep
<1>1. ASSUME NEW n \in Node, ConfigureMonitor(p, n)
      PROVE  IInv'
  <2>1. WorkTyped("testing", Work("monitor", n, key)) /\ "testing" \in Location
    BY <1>k DEF WorkTyped, Work, Operation, Location
  <2>2. /\ Goto(p, "testing", Work("monitor", n, key), m)
        /\ UNCHANGED <<file, stale, diverged, faults, rcloneVars, repositoryVars, credentials, timer>>
        /\ key' = n /\ started' \in 0..MaxOperations
    BY <1>1, <1>m DEF ConfigureMonitor, fileVars
  <2>3. DriftTyped'
    BY <1>1, <1>m DEF ConfigureMonitor, DriftTyped
  <2> QED BY <1>m, <1>k, <2>1, <2>2, <2>3, PlainStep
<1>2. ASSUME NEW enabled \in BOOLEAN, SwitchMonitor(p, enabled)
      PROVE  IInv'
  <2>1. [m.monitor EXCEPT !.enabled = enabled] \in [enabled : BOOLEAN, node : Node \cup {None}]
    BY <1>m DEF Config
  <2>2. /\ SaveMonitor(p, [m.monitor EXCEPT !.enabled = enabled], FALSE)
        /\ started' \in 0..MaxOperations
    BY <1>2, <1>m DEF SwitchMonitor
  <2> QED BY <2>1, <2>2, <1>s
<1>3. CASE TestMonitor(p)
  <2>1. work[p].on \in Node /\ work[p].seen \in Node \cup {None}
    BY <1>3, <1>m DEF TestMonitor, WorkTyped
  <2>2. WorkTyped("connected", work[p]) /\ "connected" \in Location
    BY <1>m, <2>1 DEF WorkTyped, Location
  <2>3. /\ UNCHANGED <<file, stale, diverged, rcloneVars, repositoryVars, credentials, timer, started>>
        /\ key' \in Node \cup {None} /\ DriftTyped' /\ faults' \in 0..MaxFaults
        /\ Goto(p, "connected", work[p], m) \/ Goto(p, Home(p), NoWork, m)
    BY <1>3, <1>m, <1>k, <2>1, FaultType DEF TestMonitor, Return, Home, IInv, DriftTyped
  <2> QED BY <1>m, <1>k, <2>2, <2>3, PlainStep
<1>4. CASE ConnectMonitor(p)
  <2>1. work[p].on \in Node
    BY <1>4, <1>m DEF ConnectMonitor, WorkTyped
  <2> QED BY <1>4, <1>m, <2>1, <1>s DEF ConnectMonitor
<1> QED BY <1>1, <1>2, <1>3, <1>4 DEF MonitorStep

\* A session is opened or left, or `init --force' replaces the file
LEMMA SessionStepKeeps ==
  ASSUME IInv, NEW p \in Process, Open(p) \/ Exit(p) \/ ForceInit(p)
  PROVE  IInv'
<1>m. /\ Default \in Config /\ Default.storages = {}
      /\ DriftTyped /\ diverged \subseteq Menu /\ file \in Config
      /\ started \in 0..MaxOperations /\ faults \in 0..MaxFaults
      /\ file.storages \cap WebDAV \subseteq remotes
  BY Before, DefaultValid DEF IInv, RemoteOK, StorageHasRemote
<1>k. credentials \subseteq Database /\ timer \in [Job -> Schedule \cup {None}]
      /\ key \in Node \cup {None} /\ stale \subseteq Process
  BY DEF IInv, TypeOK
<1>w. \A l \in {"idle", "closed"} : WorkTyped(l, NoWork) /\ l \in Location
  BY DEF WorkTyped, NoWork, Operation, Location
<1>1. CASE Open(p)
  <2>1. Ordinary(p, "idle", NoWork, file)
    BY <1>1, <1>m, <1>k, <1>w, DriftStays DEF Open, Ordinary, rcloneVars, repositoryVars
  <2> QED BY <1>m, <1>w, <2>1, OrdinaryStep
<1>2. CASE Exit(p)
  <2>1. DriftTyped' /\ faults' \in 0..MaxFaults
    <3>1. pc[p] = "timing" => work[p].on \in Job
      BY DEF IInv, WorkOK, WorkTyped
    <3> QED BY <1>2, <1>m, <3>1, FaultType DEF Exit, IInv, DriftTyped, Configuring
  <2>2. Ordinary(p, "closed", NoWork, Default)
    BY <1>2, <1>m, <1>k, <1>w, <2>1 DEF Exit, Ordinary, repositoryVars
  <2> QED BY <1>m, <1>w, <2>2, OrdinaryStep
<1>3. CASE ForceInit(p)
  <2>1. PICK outcome \in Outcome :
          Saves(p, Default, outcome, TRUE) /\ DriftAll(outcome, Default)
    BY <1>3 DEF ForceInit
  <2>2. /\ file' = file \/ file' = Default
        /\ stale' \subseteq Process /\ diverged' \subseteq Menu
        /\ faults' \in 0..MaxFaults /\ DriftTyped'
    BY <1>m, <2>1, SavesTypes, DriftItems, DriftTypes DEF IInv, DriftAll
  <2>3. /\ started' \in 0..MaxOperations
        /\ UNCHANGED <<pc, memory, work, remotes, rcloneLock, password, repository,
                       withdrawn, credentials, timer, key>>
    BY <1>3, SetupAssumption
    DEF ForceInit, processVars, rcloneVars, repositoryVars, IInv, TypeOK
  <2>4. TypeOK' /\ WorkOK'
    BY <1>m, <2>2, <2>3 DEF IInv, TypeOK, WorkOK, DriftTyped
  <2>5. Validate(file)'
    <3>1. Validate(file') = Validate(file)'
      BY DEF Validate, ValidStorages, ValidDatabases, ValidRetention, ValidMonitor, Jobs
    <3> QED BY <2>2, <3>1, DefaultValid DEF IInv
  <2>6. RemoteOK' /\ PasswordOK'
    <3>1. StorageHasRemote'
      BY <1>m, <2>2, <2>3 DEF IInv, RemoteOK, StorageHasRemote
    <3> QED
      BY <2>3, <3>1 DEF IInv, RemoteOK, PasswordOK, RepositoryOpens, Owns
  <2> QED BY <2>4, <2>5, <2>6 DEF IInv
<1> QED BY <1>1, <1>2, <1>3

\* A step that changes password files or repositories and nothing else
LEMMA PasswordStep ==
  ASSUME IInv, NEW p \in Process, NEW l \in Location, NEW w,
         Goto(p, l, w, memory[p]), l \notin {"configuring", "adding"}, WorkTyped(l, w),
         UNCHANGED <<file, stale, diverged, rcloneVars, credentials, timer, key, driftVars, started>>,
         faults' \in 0..MaxFaults,
         password' \in [Storage -> Password \cup {None, "empty"}],
         repository' \in [Storage -> Password \cup {None}], withdrawn' \subseteq Storage,
         PasswordOK'
  PROVE  IInv'
<1> USE DEF IInv
<1>m. memory[p] \in Config /\ memory[p].storages \cap WebDAV \subseteq remotes
  BY Before
<1>g. /\ pc' \in [Process -> Location] /\ memory' \in [Process -> Config]
      /\ work' = [q \in Process |-> work'[q]]
      /\ pc'[p] = l /\ work'[p] = w /\ memory'[p] \in {Default, memory[p]}
      /\ \A q \in Process \ {p} :
           pc'[q] = pc[q] /\ work'[q] = work[q] /\ memory'[q] = memory[q]
  BY <1>m, GotoMoves
<1>1. WorkOK'
  BY <1>g DEF WorkOK
<1>2. TypeOK'
  <2>1. \A q \in Process : work'[q].op \in Operation
    BY <1>1 DEF WorkOK, WorkTyped
  <2> QED BY <1>g, <2>1 DEF TypeOK, Location, rcloneVars, driftVars
<1>3. Validate(file)'
  BY DEF Validate, ValidStorages, ValidDatabases, ValidRetention, ValidMonitor, Jobs
<1>4. RemoteOK'
  <2>1. \A q \in Process : memory'[q].storages \cap WebDAV \subseteq remotes
    BY <1>g, <1>m, DefaultValid DEF RemoteOK, StorageHasRemote
  <2>2. StorageHasRemote'
    BY <2>1 DEF RemoteOK, StorageHasRemote, rcloneVars
  <2>3. ASSUME NEW q \in Process
        PROVE  /\ pc'[q] = "configuring" => rcloneLock' = q /\ work'[q].seen = remotes'
               /\ pc'[q] = "adding" /\ work'[q].on \in WebDAV => work'[q].on \in remotes'
    <3>1. CASE q = p
      BY <1>g, <3>1
    <3>2. CASE q # p
      BY <1>g, <3>2 DEF RemoteOK, rcloneVars
    <3> QED BY <3>1, <3>2
  <2> QED BY <2>2, <2>3 DEF RemoteOK
<1> QED BY <1>1, <1>2, <1>3, <1>4

\* The steps that make a password file: only its creator changes it, while no
\* repository depends on it
LEMMA PasswordStepKeeps ==
  ASSUME IInv, NEW p \in Process,
         \/ CreatePasswordFile(p) \/ WritePassword(p) \/ SyncPassword(p)
         \/ InitRepository(p)
  PROVE  IInv'
<1> DEFINE m == memory[p]
           s == work[p].on
<1>m. /\ m \in Config /\ WorkTyped(pc[p], work[p]) /\ faults \in 0..MaxFaults
      /\ Home(p) \in Location /\ WorkTyped(Home(p), NoWork)
      /\ Home(p) \notin {"configuring", "adding", "writing", "syncing"}
  BY Before
<1>s. s \in Storage
  BY <1>m DEF CreatePasswordFile, WritePassword, SyncPassword, InitRepository, WorkTyped
<1>k. /\ password \in [Storage -> Password \cup {None, "empty"}]
      /\ repository \in [Storage -> Password \cup {None}] /\ withdrawn \subseteq Storage
      /\ "empty" \notin Password \cup {None} /\ None \notin Password
  BY SetupAssumption DEF IInv, TypeOK
<1>w. \A l \in {"creating", "writing", "syncing", "initializing", "withdrawing"} :
        WorkTyped(l, work[p]) /\ l \in Location
  BY <1>m, <1>s DEF WorkTyped, Location
<1>g. ASSUME NEW l \in Location, NEW w, Goto(p, l, w, m)
      PROVE  /\ pc'[p] = l /\ work'[p] = w
             /\ \A q \in Process \ {p} : pc'[q] = pc[q] /\ work'[q] = work[q]
  BY <1>m, <1>g, GotoMoves DEF IInv
<1>f. ASSUME PasswordFailed(p)
      PROVE  \E l \in {"withdrawing", Home(p)}, w \in {work[p], NoWork} :
               Goto(p, l, w, m) /\ WorkTyped(l, w)
  BY <1>f, <1>m, <1>w DEF PasswordFailed, Return, Home
<1>o. /\ RepositoryOpens
      /\ \A q \in Process :
           /\ pc[q] = "writing" => password[work[q].on] = "empty"
           /\ pc[q] = "syncing" => password[work[q].on] \in Password
           /\ \A r \in Process \ {q} : Owns(q) /\ Owns(r) => work[q].on # work[r].on
  BY DEF IInv, PasswordOK
<1>n. \* what it takes: the others keep their files
  ASSUME NEW l \in Location, NEW w, Goto(p, l, w, m), l \notin {"configuring", "adding"},
         WorkTyped(l, w),
         RepositoryOpens',
         \A q \in Process \ {p} : Owns(q) => password'[work[q].on] = password[work[q].on],
         l \in {"writing", "syncing"} =>
           /\ \A q \in Process \ {p} : Owns(q) => work[q].on # w.on
           /\ l = "writing" => password'[w.on] = "empty"
           /\ l = "syncing" => password'[w.on] \in Password,
         UNCHANGED <<file, stale, diverged, rcloneVars, credentials, timer, key, driftVars, started>>,
         faults' \in 0..MaxFaults,
         password' \in [Storage -> Password \cup {None, "empty"}],
         repository' \in [Storage -> Password \cup {None}], withdrawn' \subseteq Storage
  PROVE  IInv'
  <2>1. /\ pc'[p] = l /\ work'[p] = w
        /\ \A q \in Process \ {p} : pc'[q] = pc[q] /\ work'[q] = work[q]
    BY <1>n, <1>g
  <2>2. \A q \in Process : Owns(q)' <=> pc'[q] \in {"writing", "syncing"}
    BY DEF Owns
  <2>3. ASSUME NEW q \in Process
        PROVE  /\ pc'[q] = "writing" => password'[work'[q].on] = "empty"
               /\ pc'[q] = "syncing" => password'[work'[q].on] \in Password
               /\ \A r \in Process \ {q} : Owns(q)' /\ Owns(r)' => work'[q].on # work'[r].on
    <3>1. CASE q = p
      BY <1>n, <2>1, <2>2, <3>1 DEF Owns
    <3>2. CASE q # p
      BY <1>n, <1>o, <2>1, <2>2, <3>2 DEF Owns
    <3> QED BY <3>1, <3>2
  <2>4. PasswordOK'
    BY <1>n, <2>3 DEF PasswordOK
  <2> QED BY <1>n, <2>4, PasswordStep
<1>1. CASE CreatePasswordFile(p)
  <2>1. CASE /\ password[s] = None
             /\ password' = [password EXCEPT ![s] = "empty"]
             /\ Goto(p, "writing", work[p], m)
    <3>1. UNCHANGED <<file, stale, diverged, faults, rcloneVars, repository, withdrawn,
                      credentials, timer, key, driftVars, started>>
      BY <1>1 DEF CreatePasswordFile, fileVars
    <3>2. \A q \in Process \ {p} : Owns(q) => work[q].on # s
      BY <1>o, <1>k, <2>1 DEF Owns
    <3>3. RepositoryOpens'
      BY <1>o, <1>k, <1>s, <2>1, <3>1 DEF RepositoryOpens
    <3>4. \A q \in Process \ {p} : Owns(q) => password'[work[q].on] = password[work[q].on]
      BY <1>k, <2>1, <3>2
    <3>5. password'[s] = "empty" /\ password' \in [Storage -> Password \cup {None, "empty"}]
      BY <1>k, <1>s, <2>1
    <3> QED BY <1>m, <1>k, <1>w, <2>1, <3>1, <3>2, <3>3, <3>4, <3>5, <1>n
  <2>2. CASE PasswordFailed(p) /\ UNCHANGED password
    <3>1. UNCHANGED <<file, stale, diverged, faults, rcloneVars, password, repository, withdrawn,
                      credentials, timer, key, driftVars, started>>
      BY <1>1, <2>2 DEF CreatePasswordFile, fileVars
    <3>2. PICK l \in {"withdrawing", Home(p)}, w \in {work[p], NoWork} :
            Goto(p, l, w, m) /\ WorkTyped(l, w)
      BY <2>2, <1>f
    <3>3. RepositoryOpens'
      BY <1>o, <3>1 DEF RepositoryOpens
    <3> QED BY <1>m, <1>k, <1>w, <3>1, <3>2, <3>3, <1>n
  <2> QED BY <1>1, <2>1, <2>2 DEF CreatePasswordFile
<1>2. CASE WritePassword(p)
  <2>1. /\ Owns(p) /\ password[s] = "empty"
        /\ UNCHANGED <<file, stale, diverged, rcloneVars, repository, withdrawn, credentials, timer,
                       key, driftVars, started>>
    BY <1>2, <1>o DEF WritePassword, Owns
  <2>2. \A q \in Process \ {p} : Owns(q) => work[q].on # s
    BY <1>o, <2>1
  <2>3. PICK v \in Password \cup {None} : password' = [password EXCEPT ![s] = v]
    BY <1>2 DEF WritePassword
  <2>4. RepositoryOpens'
    BY <1>o, <1>k, <1>s, <2>1, <2>3 DEF RepositoryOpens
  <2>5. /\ \A q \in Process \ {p} : Owns(q) => password'[work[q].on] = password[work[q].on]
        /\ password' \in [Storage -> Password \cup {None, "empty"}]
    BY <1>k, <1>s, <2>2, <2>3
  <2>6. CASE /\ \E x \in Password : password' = [password EXCEPT ![s] = x]
             /\ Goto(p, "syncing", work[p], m) /\ UNCHANGED faults
    <3>1. password'[s] \in Password
      BY <1>k, <1>s, <2>6
    <3> QED BY <1>m, <1>k, <1>w, <2>1, <2>2, <2>4, <2>5, <2>6, <3>1, <1>n
  <2>7. CASE PasswordFailed(p) /\ Fault
    <3>1. PICK l \in {"withdrawing", Home(p)}, w \in {work[p], NoWork} :
            Goto(p, l, w, m) /\ WorkTyped(l, w)
      BY <2>7, <1>f
    <3>2. faults' \in 0..MaxFaults
      BY <2>7, FaultType DEF IInv
    <3> QED BY <1>m, <1>k, <1>w, <2>1, <2>4, <2>5, <3>1, <3>2, <1>n
  <2> QED BY <1>2, <2>6, <2>7 DEF WritePassword
<1>3. CASE SyncPassword(p)
  <2>1. /\ Owns(p) /\ password[s] \in Password
        /\ UNCHANGED <<file, stale, diverged, rcloneVars, repository, credentials, timer, key,
                       driftVars, started>>
    BY <1>3, <1>o DEF SyncPassword, Owns
  <2>2. \A q \in Process \ {p} : Owns(q) => work[q].on # s
    BY <1>o, <2>1
  <2>3. CASE /\ IF work[p].op = "password"
                THEN Return(p, m) ELSE Goto(p, "initializing", work[p], m)
             /\ UNCHANGED <<password, withdrawn, faults>>
    <3>1. PICK l \in {"initializing", Home(p)}, w \in {work[p], NoWork} :
            Goto(p, l, w, m) /\ WorkTyped(l, w)
      BY <2>3, <1>m, <1>w DEF Return, Home
    <3>2. RepositoryOpens'
      BY <1>o, <2>1, <2>3 DEF RepositoryOpens
    <3> QED BY <1>m, <1>k, <1>w, <2>1, <2>3, <3>1, <3>2, <1>n
  <2>4. CASE /\ password' = [password EXCEPT ![s] = None]
             /\ withdrawn' = withdrawn \cup {s}
             /\ PasswordFailed(p) /\ Fault
    <3>1. PICK l \in {"withdrawing", Home(p)}, w \in {work[p], NoWork} :
            Goto(p, l, w, m) /\ WorkTyped(l, w)
      BY <2>4, <1>f
    <3>2. RepositoryOpens'
      BY <1>o, <1>k, <1>s, <2>1, <2>4 DEF RepositoryOpens
    <3>3. /\ \A q \in Process \ {p} : Owns(q) => password'[work[q].on] = password[work[q].on]
          /\ password' \in [Storage -> Password \cup {None, "empty"}]
          /\ withdrawn' \subseteq Storage
      BY <1>k, <1>s, <2>2, <2>4
    <3>4. faults' \in 0..MaxFaults
      BY <2>4, FaultType DEF IInv
    <3> QED BY <1>m, <1>k, <1>w, <2>1, <3>1, <3>2, <3>3, <3>4, <1>n
  <2> QED BY <1>3, <2>3, <2>4 DEF SyncPassword
<1>4. CASE InitRepository(p)
  <2>1. /\ Goto(p, Home(p), NoWork, m)
        /\ UNCHANGED <<file, stale, diverged, faults, rcloneVars, password, withdrawn, credentials,
                       timer, key, driftVars, started>>
    BY <1>4 DEF InitRepository, Return, Home, fileVars
  <2>2. repository' \in [Storage -> Password \cup {None}]
    BY <1>4, <1>k DEF InitRepository
  <2>3. RepositoryOpens'
    BY <1>4, <1>o, <1>k, <2>1 DEF InitRepository, RepositoryOpens
  <2> QED BY <1>m, <1>k, <2>1, <2>2, <2>3, <1>n
<1> QED BY <1>1, <1>2, <1>3, <1>4

\* The steps on rclone.conf: what is written back is what the lock kept others
\* from changing, and one section more
LEMMA RemoteStepKeeps ==
  ASSUME IInv, NEW p \in Process,
         (\E s \in Storage : ConfigureWebDAV(p, s)) \/ WriteRemote(p)
  PROVE  IInv'
<1> DEFINE m == memory[p]
<1> USE DEF IInv
<1>m. /\ m \in Config /\ m.storages \cap WebDAV \subseteq remotes
      /\ WorkTyped(pc[p], work[p])
      /\ Home(p) \in Location /\ WorkTyped(Home(p), NoWork)
      /\ Home(p) \notin {"configuring", "adding", "writing", "syncing"}
      /\ Begin(p) => started' \in 0..MaxOperations
  BY Before
<1>n. ASSUME NEW l \in Location, NEW w, Goto(p, l, w, m), WorkTyped(l, w),
             l \notin {"writing", "syncing"},
             UNCHANGED <<file, stale, diverged, repositoryVars, credentials, timer, key, driftVars>>,
             remotes \subseteq remotes', remotes' \subseteq WebDAV,
             rcloneLock' \in Process \cup {None},
             started' \in 0..MaxOperations, faults' \in 0..MaxFaults,
             \A q \in Process \ {p} :
               pc[q] = "configuring" => rcloneLock' = q /\ remotes' = remotes,
             l = "configuring" => rcloneLock' = p /\ w.seen = remotes',
             l = "adding" => w.on \in remotes'
      PROVE  IInv'
  <2>g. /\ pc' \in [Process -> Location] /\ memory' \in [Process -> Config]
        /\ work' = [q \in Process |-> work'[q]]
        /\ pc'[p] = l /\ work'[p] = w /\ memory'[p] \in {Default, m}
        /\ \A q \in Process \ {p} :
             pc'[q] = pc[q] /\ work'[q] = work[q] /\ memory'[q] = memory[q]
    BY <1>n, <1>m, GotoMoves
  <2>1. WorkOK'
    BY <1>n, <2>g DEF WorkOK
  <2>2. TypeOK'
    <3>1. \A q \in Process : work'[q].op \in Operation
      BY <2>1 DEF WorkOK, WorkTyped
    <3> QED BY <1>n, <2>g, <3>1 DEF TypeOK, Location, repositoryVars, driftVars
  <2>3. Validate(file)'
    BY <1>n DEF Validate, ValidStorages, ValidDatabases, ValidRetention, ValidMonitor, Jobs
  <2>4. StorageHasRemote'
    <3>1. \A q \in Process : memory'[q].storages \cap WebDAV \subseteq remotes'
      BY <1>n, <1>m, <2>g, DefaultValid DEF RemoteOK, StorageHasRemote
    <3>2. file'.storages \cap WebDAV \subseteq remotes'
      BY <1>n DEF RemoteOK, StorageHasRemote
    <3> QED BY <3>1, <3>2 DEF StorageHasRemote
  <2>5. ASSUME NEW q \in Process
        PROVE  /\ pc'[q] = "configuring" => rcloneLock' = q /\ work'[q].seen = remotes'
               /\ pc'[q] = "adding" /\ work'[q].on \in WebDAV => work'[q].on \in remotes'
    <3>1. CASE q = p
      BY <1>n, <2>g, <3>1
    <3>2. CASE q # p
      BY <1>n, <2>g, <3>2 DEF RemoteOK
    <3> QED BY <3>1, <3>2
  <2>6. PasswordOK'
    <3>1. \A q \in Process : Owns(q)' => q # p /\ Owns(q)
      BY <1>n, <2>g DEF Owns
    <3>2. RepositoryOpens'
      BY <1>n DEF PasswordOK, RepositoryOpens, repositoryVars
    <3> QED BY <1>n, <2>g, <3>1, <3>2 DEF PasswordOK, Owns, repositoryVars
  <2> QED BY <2>1, <2>2, <2>3, <2>4, <2>5, <2>6 DEF RemoteOK
<1>1. ASSUME NEW s \in Storage, ConfigureWebDAV(p, s)
      PROVE  IInv'
  <2> DEFINE w == Work("setup", s, remotes)
  <2>1. s \in WebDAV /\ rcloneLock = None
    BY <1>1 DEF ConfigureWebDAV
  <2>2. WorkTyped("configuring", w) /\ w.seen = remotes /\ "configuring" \in Location
    BY <2>1 DEF WorkTyped, Work, Operation, Location
  <2>3. \A q \in Process \ {p} : pc[q] # "configuring"
    <3>1. \A q \in Process : q # None
      BY SetupAssumption
    <3> QED BY <2>1, <3>1 DEF RemoteOK
  <2>4. /\ Goto(p, "configuring", w, m) /\ rcloneLock' = p
        /\ UNCHANGED <<file, stale, diverged, faults, remotes, repositoryVars, credentials, timer,
                       key, driftVars>>
        /\ started' \in 0..MaxOperations
    BY <1>1, <1>m DEF ConfigureWebDAV, fileVars
  <2>5. remotes' \subseteq WebDAV /\ faults' \in 0..MaxFaults
    BY <2>4 DEF TypeOK
  <2> HIDE DEF w
  <2> QED BY <2>2, <2>3, <2>4, <2>5, <1>n
<1>2. CASE WriteRemote(p)
  <2>1. /\ pc[p] = "configuring" /\ rcloneLock = p /\ work[p].seen = remotes
        /\ work[p].on \in WebDAV /\ WorkTyped("adding", work[p]) /\ "adding" \in Location
    BY <1>2, <1>m DEF WriteRemote, RemoteOK, WorkTyped, Location
  <2>2. \A q \in Process \ {p} : pc[q] # "configuring"
    BY <2>1 DEF RemoteOK
  <2>3. faults' \in 0..MaxFaults
    BY <1>2, FaultType DEF WriteRemote, TypeOK
  <2>4. \/ /\ remotes' = remotes \cup {work[p].on}
           /\ \/ Goto(p, "adding", work[p], m)
              \/ Goto(p, Home(p), NoWork, m)
        \/ Goto(p, Home(p), NoWork, m) /\ remotes' = remotes
    BY <1>2, <2>1 DEF WriteRemote, Return, Home
  <2>5. remotes \subseteq remotes' /\ remotes' \subseteq WebDAV
    BY <2>1, <2>4 DEF TypeOK
  <2>6. /\ UNCHANGED <<file, stale, diverged, repositoryVars, credentials, timer, key, driftVars>>
        /\ rcloneLock' \in Process \cup {None} /\ started' \in 0..MaxOperations
    BY <1>2, <2>1 DEF WriteRemote, TypeOK
  <2> QED BY <1>m, <2>1, <2>2, <2>3, <2>4, <2>5, <2>6, <1>n
<1> QED BY <1>1, <1>2

\* The other steps on storages
LEMMA StorageStepKeeps ==
  ASSUME IInv, NEW p \in Process, StorageStep(p)
  PROVE  IInv'
<1> DEFINE m == memory[p]
<1>m. /\ m \in Config /\ m.storages \cap WebDAV \subseteq remotes
      /\ m.storages \in SUBSET Storage
      /\ WorkTyped(pc[p], work[p]) /\ DriftTyped
      /\ Home(p) \in Location /\ WorkTyped(Home(p), NoWork)
      /\ Home(p) \notin {"configuring", "adding", "writing", "syncing"}
      /\ Begin(p) => started' \in 0..MaxOperations
      /\ started \in 0..MaxOperations /\ faults \in 0..MaxFaults
  BY Before
<1>k. /\ credentials \subseteq Database /\ timer \in [Job -> Schedule \cup {None}]
      /\ key \in Node \cup {None} /\ stale \subseteq Process
      /\ diverged \subseteq Menu
  BY DEF IInv, TypeOK
<1>w. \A l \in {"adding", "creating", "initializing"}, x \in Storage,
         op \in {"setup", "initialize", "password"} :
        WorkTyped(l, Work(op, x, None)) /\ l \in Location
  BY DEF WorkTyped, Work, Operation, Location
<1>1. ASSUME NEW s \in Storage, NewLocalStorage(p, s)
      PROVE  IInv'
  <2>1. Work("setup", s, None).on \notin WebDAV
    BY <1>1 DEF NewLocalStorage, Work
  <2>2. started' \in 0..MaxOperations
    BY <1>1, <1>m DEF NewLocalStorage
  <2>3. Ordinary(p, "adding", Work("setup", s, None), m)
    BY <1>1, <1>m, <1>k, <1>w, <2>1, <2>2, DriftStays
    DEF NewLocalStorage, Ordinary, fileVars, rcloneVars, repositoryVars
  <2> QED BY <1>m, <1>w, <2>3, OrdinaryStep
<1>2. CASE SaveStorage(p)
  <2> DEFINE c == [m EXCEPT !.storages = @ \cup {work[p].on}]
  <2>1. work[p].on \in Storage /\ (work[p].on \in WebDAV => work[p].on \in remotes)
    BY <1>2, <1>m DEF SaveStorage, WorkTyped, IInv, RemoteOK
  <2>2. c \in Config /\ c.storages \cap WebDAV \subseteq remotes
    <3>1. m.storages \cup {work[p].on} \in SUBSET Storage
      BY <1>m, <2>1
    <3>2. c \in Config /\ c.storages = m.storages \cup {work[p].on}
      BY <1>m, <3>1, ConfigChanges
    <3> HIDE DEF c
    <3> QED BY <1>m, <2>1, <3>2
  <2>3. PICK outcome \in Outcome :
          /\ Saves(p, c, outcome, FALSE) /\ DriftAll(outcome, c)
          /\ IF outcome = "saved" THEN Goto(p, "creating", work[p], c)
                                  ELSE Return(p, m)
    BY <1>2 DEF SaveStorage
  <2>d. DriftTyped'
    <3>1. Added(c) \subseteq Database /\ Rescheduled(c) \subseteq Job
      BY <2>2, DriftItems
    <3> HIDE DEF c
    <3> QED BY <1>m, <2>3, <3>1, DriftTypes DEF DriftAll
  <2>4. /\ DriftTyped' /\ started' \in 0..MaxOperations
        /\ credentials' \subseteq Database
        /\ UNCHANGED <<rcloneVars, repositoryVars, timer, key>>
    BY <1>2, <1>m, <1>k, <2>3, <2>d DEF SaveStorage
  <2>5. WorkTyped("creating", work[p]) /\ "creating" \in Location
    BY <1>m, <2>1 DEF WorkTyped, Location
  <2>6. Goto(p, "creating", work[p], c) \/ Goto(p, Home(p), NoWork, m)
    BY <2>3 DEF Return, Home
  <2> HIDE DEF c
  <2> QED BY <1>m, <2>2, <2>3, <2>4, <2>5, <2>6, SavingStep
<1>3. ASSUME NEW s \in Storage, InitializeRepository(p, s) \/ StoragePassword(p, s)
      PROVE  IInv'
  <2>1. PICK l \in {"creating", "initializing"}, op \in {"initialize", "password"} :
          Goto(p, l, Work(op, s, None), m)
    BY <1>3 DEF InitializeRepository, StoragePassword
  <2>2. /\ UNCHANGED <<file, stale, diverged, faults, rcloneVars, repositoryVars, credentials,
                       timer, key, driftVars>>
        /\ started' \in 0..MaxOperations
    BY <1>3, <1>m DEF InitializeRepository, StoragePassword, fileVars
  <2> QED BY <1>m, <1>k, <1>w, <2>1, <2>2, DriftStays, PlainStep
<1>4. CASE WithdrawStorage(p)
  <2> DEFINE c == [m EXCEPT !.storages = @ \ {work[p].on}]
  <2>1. c \in Config /\ c.storages \cap WebDAV \subseteq remotes
    <3>1. m.storages \ {work[p].on} \in SUBSET Storage
      BY <1>m
    <3>2. c \in Config /\ c.storages = m.storages \ {work[p].on}
      BY <1>m, <3>1, ConfigChanges
    <3> HIDE DEF c
    <3> QED BY <1>m, <3>2
  <2>2. PICK outcome \in Outcome :
          Saves(p, c, outcome, TRUE) /\ DriftAll(outcome, c)
    BY <1>4 DEF WithdrawStorage
  <2>3. DriftTyped'
    <3>1. Added(c) \subseteq Database /\ Rescheduled(c) \subseteq Job
      BY <2>1, DriftItems
    <3> HIDE DEF c
    <3> QED BY <1>m, <2>2, <3>1, DriftTypes DEF DriftAll
  <2>4. /\ Goto(p, Home(p), NoWork, c)
        /\ started' \in 0..MaxOperations /\ credentials' \subseteq Database
        /\ UNCHANGED <<rcloneVars, repositoryVars, timer, key>>
    BY <1>4, <1>m, <1>k DEF WithdrawStorage, Return, Home
  <2> HIDE DEF c
  <2> QED BY <1>m, <2>1, <2>2, <2>3, <2>4, SavingStep
<1> QED
  BY <1>1, <1>2, <1>3, <1>4, RemoteStepKeeps, PasswordStepKeeps DEF StorageStep

---------------------------------------------------------------------------
\* At first config.yaml is valid and everything agrees with it
LEMMA InitIInv == Init => IInv
<1> SUFFICES ASSUME Init PROVE IInv
  OBVIOUS
<1>f. file \in Config /\ Validate(file) /\ WebDAV \subseteq Storage
  BY SetupAssumption DEF Init
<1>1. TypeOK
  <2>1. timer \in [Job -> Schedule \cup {None}]
    BY <1>f, DueType DEF Init
  <2>2. key \in Node \cup {None} /\ credentials \subseteq Database
    BY <1>f DEF Init, Config
  <2>3. /\ password \in [Storage -> Password \cup {None, "empty"}]
        /\ repository \in [Storage -> Password \cup {None}]
    BY DEF Init
  <2>4. memory \in [Process -> Config] /\ \A p \in Process : work[p].op \in Operation
    BY DefaultValid DEF Init, NoWork, Operation
  <2>5. started \in 0..MaxOperations /\ faults \in 0..MaxFaults
    BY SetupAssumption DEF Init
  <2> QED BY <1>f, <2>1, <2>2, <2>3, <2>4, <2>5 DEF Init, TypeOK
<1>2. WorkOK
  BY DEF Init, WorkOK, WorkTyped, NoWork, Operation
<1>3. RemoteOK
  BY DefaultValid DEF Init, RemoteOK, StorageHasRemote
<1>4. PasswordOK
  BY DEF Init, PasswordOK, RepositoryOpens, Owns
<1> QED BY <1>f, <1>1, <1>2, <1>3, <1>4 DEF IInv

\* Every step keeps the inductive invariant
LEMMA IInvInvariant == Spec => []IInv
<1>1. IInv /\ [Next]_vars => IInv'
  <2>1. IInv /\ Next => IInv'
    BY SessionStepKeeps, StorageStepKeeps, JobStepKeeps, DatabaseStepKeeps,
       MonitorStepKeeps DEF Next
  <2>2. ASSUME IInv, UNCHANGED vars
        PROVE  IInv'
    <3>1. TypeOK' /\ WorkOK'
      BY <2>2 DEF vars, IInv, TypeOK, WorkOK
    <3>2. Validate(file)'
      BY <2>2 DEF vars, IInv, Validate, ValidStorages, ValidDatabases, ValidRetention,
                  ValidMonitor, Jobs
    <3>3. RemoteOK' /\ PasswordOK'
      BY <2>2 DEF vars, IInv, RemoteOK, StorageHasRemote, PasswordOK, RepositoryOpens, Owns
    <3> QED BY <3>1, <3>2, <3>3 DEF IInv
  <2> QED BY <2>1, <2>2
<1> QED BY InitIInv, <1>1, PTL DEF Spec

---------------------------------------------------------------------------
\* Every variable keeps its type, whichever sessions interleave and fail
THEOREM TypeCorrect == Spec => []TypeOK
<1>1. IInv => TypeOK
  BY DEF IInv
<1> QED BY <1>1, IInvInvariant, PTL

\* No WebDAV storage is without its section of rclone.conf, although storages
\* are added at once by several sessions and any of them may die
THEOREM RemotesExist == Spec => []StorageHasRemote
<1>1. IInv => StorageHasRemote
  BY DEF IInv, RemoteOK
<1> QED BY <1>1, IInvInvariant, PTL

\* No password file is changed under a repository that was made with it, but by
\* its creator taking it back
THEOREM RepositoriesOpen == Spec => []RepositoryOpens
<1>1. IInv => RepositoryOpens
  BY DEF IInv, PasswordOK
<1> QED BY <1>1, IInvInvariant, PTL
=============================================================================
