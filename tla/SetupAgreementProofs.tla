------------------------ MODULE SetupAgreementProofs ------------------------
(***************************************************************************)
(* Theorems of Setup on what has to agree with config.yaml: the copies of  *)
(* it in memory, the databases' credential files, the systemd timers and   *)
(* monitor.key, for any sessions, operations, failures and crashes.  What  *)
(* is excepted is a copy, a database, a job or the key of its own: those   *)
(* that have diverged or are adrift.                                       *)
(***************************************************************************)
EXTENDS SetupProofs

\* The copies that are neither older than the file nor diverged hold what it holds
CopyOK ==
  \A p \in Process \ (stale \cup diverged) : pc[p] # "closed" => memory[p] = file

\* A credential file that is being made or removed is no database's, and no one
\* else makes or removes it
HandlesAt == {"adding_database", "dropping"}
Handles(p) == pc[p] \in HandlesAt
DatabaseOK ==
  /\ \A p \in Process : Handles(p) => p \in Menu
  /\ \A d \in Database \ credentialsAdrift :
       /\ d \in file.databases => d \in credentials
       /\ \A p \in Process : Handles(p) /\ work[p].on = d =>
            /\ d \in credentials \ file.databases
            /\ \A q \in Process \ {p} : Handles(q) => work[q].on # d

\* An enabled job whose timer is not set yet has a process that is about to give
\* it just the schedule config.yaml has
TimerOK ==
  \A j \in Job \ timersAdrift : Due(file, j) # None =>
    \/ timer[j] = Due(file, j)
    \/ \E p \in Process : /\ pc[p] = "timing" /\ work[p].on = j
                          /\ Wanted(p) = Due(file, j)

\* Who configures the monitor does so alone, with the new secret in monitor.key
\* and the old one, of the node in config.yaml, in memory
ConfiguresAt == {"testing", "connected"}
KeyOK ==
  ~keyAdrift =>
    /\ \A p \in Process : pc[p] \in ConfiguresAt =>
         /\ key = work[p].on
         /\ \A q \in Process \ {p} : pc[q] \notin ConfiguresAt
         /\ file.monitor.node # None => work[p].seen = file.monitor.node
    /\ (\A p \in Process : pc[p] \notin ConfiguresAt) /\ file.monitor.node # None
       => key = file.monitor.node

Agreement == CopyOK /\ DatabaseOK /\ TimerOK /\ KeyOK

---------------------------------------------------------------------------
(* What steps have in common *)

\* The parts of a configuration that a change leaves alone
LEMMA ChangeLeaves ==
  ASSUME NEW c \in Config
  PROVE  /\ \A D \in SUBSET Database : [c EXCEPT !.databases = D].databases = D
         /\ \A x \in [enabled : BOOLEAN, node : Node \cup {None}] :
              [c EXCEPT !.monitor = x].monitor = x
BY DEF Config

\* A step that goes elsewhere than "closed" leaves the copy it names
LEMMA GotoCopy ==
  ASSUME TypeOK, NEW p \in Process, NEW l \in Location \ {"closed"}, NEW w, NEW c,
         Goto(p, l, w, c)
  PROVE  memory'[p] = c
BY DEF Goto, TypeOK

(***************************************************************************)
(* What a step of an open process p does to config.yaml and to its copy:   *)
(* it saves c, or not, goes to l with work w and copy d.                   *)
(***************************************************************************)
Effect(p, l, w, c, d) ==
  /\ pc[p] # "closed" /\ Goto(p, l, w, d) /\ diverged \ {p} \subseteq diverged'
  /\ \/ /\ UNCHANGED <<file, stale>>
        /\ \/ l = "closed" \/ p \in diverged'
           \/ d = memory[p] /\ diverged \subseteq diverged'
     \/ /\ file' = c /\ stale' = Opened \ {p}
        /\ l = "closed" \/ p \in diverged' \/ d = c

\* What it may leave alone
LeavesCredentials(l) ==
  /\ credentials' = credentials /\ l \notin HandlesAt
  /\ credentialsAdrift \subseteq credentialsAdrift'
  /\ file'.databases \ file.databases \subseteq credentialsAdrift'
LeavesTimers(p) ==
  /\ timer' = timer /\ pc[p] # "timing"
  /\ timersAdrift \subseteq timersAdrift'
  /\ \A j \in Job \ timersAdrift' : Due(file, j)' \in {None, Due(file, j)}
LeavesKey(p, l) ==
  /\ key' = key /\ pc[p] \notin ConfiguresAt /\ l \notin ConfiguresAt
  /\ keyAdrift => keyAdrift'
  /\ ~keyAdrift' => file'.monitor.node \in {None, file.monitor.node}

\* A step that saves has such an effect, whatever comes of the save
LEMMA SavingEffect ==
  ASSUME NEW p \in Process, NEW l, NEW w, NEW c, NEW d, NEW outcome \in Outcome,
         NEW kept \in BOOLEAN, pc[p] # "closed",
         Saves(p, c, outcome, kept), Goto(p, l, w, d),
         outcome = "saved" => d = c,
         outcome # "saved" => /\ l = "closed" \/ p \in Menu
                              /\ d = IF kept THEN c ELSE memory[p]
  PROVE  /\ Effect(p, l, w, c, d)
         /\ outcome = "failed" => UNCHANGED <<file, stale>>
         /\ outcome # "failed" => file' = c
<1>1. /\ outcome = "failed" => UNCHANGED <<file, stale>>
      /\ outcome # "failed" => file' = c /\ stale' = Opened \ {p}
  BY DEF Saves
<1>2. diverged \ {p} \subseteq diverged'
  BY DEF Saves
<1>3. CASE outcome = "saved"
  BY <1>1, <1>2, <1>3 DEF Effect
<1>4. CASE outcome = "failed"
  <2>1. IF kept THEN diverged' = diverged \cup ({p} \cap Menu) ELSE diverged' = diverged
    BY <1>4 DEF Saves
  <2> QED BY <1>1, <1>2, <1>4, <2>1 DEF Effect
<1>5. CASE outcome = "late"
  <2>1. ~kept => diverged' = diverged \cup ({p} \cap Menu)
    BY <1>5 DEF Saves
  <2> QED BY <1>1, <1>2, <1>5, <2>1 DEF Effect
<1> QED BY <1>3, <1>4, <1>5 DEF Outcome

\* What a save sets adrift is what it changes besides
LEMMA SavingDrift ==
  ASSUME NEW c, NEW outcome, NEW D, NEW J, NEW n, Drift(outcome, D, J, n),
         outcome = "failed" => file' = file,
         outcome # "failed" => file' = c
  PROVE  /\ credentialsAdrift \subseteq credentialsAdrift'
         /\ timersAdrift \subseteq timersAdrift' /\ (keyAdrift => keyAdrift')
         /\ Added(c) \subseteq D => file'.databases \ file.databases \subseteq credentialsAdrift'
         /\ Rescheduled(c) \subseteq J =>
              \A j \in Job \ timersAdrift' : Due(file, j)' \in {None, Due(file, j)}
         /\ (Renamed(c) => n) =>
              (~keyAdrift' => file'.monitor.node \in {None, file.monitor.node})
<1>1. \A j : Due(file, j)' = Due(file', j)
  BY DEF Due, Jobs
<1>2. CASE outcome = "failed"
  BY <1>1, <1>2 DEF Drift, driftVars
<1>3. CASE outcome # "failed"
  <2>1. /\ credentialsAdrift' = credentialsAdrift \cup D
        /\ timersAdrift' = timersAdrift \cup J
        /\ keyAdrift' = (keyAdrift \/ n)
    BY <1>3 DEF Drift
  <2>2. Added(c) \subseteq D => file'.databases \ file.databases \subseteq credentialsAdrift'
    BY <1>3, <2>1 DEF Added
  <2>3. Rescheduled(c) \subseteq J =>
          \A j \in Job \ timersAdrift' : Due(file, j)' \in {None, Due(file, j)}
    BY <1>1, <1>3, <2>1 DEF Rescheduled
  <2>4. /\ keyAdrift => keyAdrift'
        /\ (Renamed(c) => n) =>
             (~keyAdrift' => file'.monitor.node \in {None, file.monitor.node})
    BY <1>3, <2>1 DEF Renamed
  <2> QED BY <2>1, <2>2, <2>3, <2>4
<1> QED BY <1>2, <1>3

\* What such a step does to the places, works and copies
LEMMA EffectMoves ==
  ASSUME IInv, NEW p \in Process, NEW l \in Location, NEW w, NEW c, NEW d \in Config,
         Effect(p, l, w, c, d)
  PROVE  /\ pc'[p] = l /\ work'[p] = w /\ (l # "closed" => memory'[p] = d)
         /\ \A q \in Process \ {p} :
              /\ pc'[q] = pc[q] /\ work'[q] = work[q] /\ memory'[q] = memory[q]
              /\ Wanted(q)' = Wanted(q)
<1>1. /\ pc'[p] = l /\ work'[p] = w /\ (l # "closed" => memory'[p] = d)
      /\ \A q \in Process \ {p} :
           pc'[q] = pc[q] /\ work'[q] = work[q] /\ memory'[q] = memory[q]
  BY GotoMoves, GotoCopy DEF Effect, IInv
<1>2. \A q \in Process \ {p} : Wanted(q)' = Wanted(q)
  BY <1>1 DEF Wanted, Due, Jobs
<1> QED BY <1>1, <1>2

---------------------------------------------------------------------------
(* Steps that keep a part of the agreement *)

\* Whatever a step does to the file and to the copy of its process, the copies
\* that are neither stale nor diverged agree
LEMMA CopiesKept ==
  ASSUME IInv, CopyOK, NEW p \in Process, NEW l \in Location, NEW w, NEW c,
         NEW d \in Config, Effect(p, l, w, c, d)
  PROVE  CopyOK'
<1>g. /\ pc'[p] = l /\ (l # "closed" => memory'[p] = d)
      /\ \A q \in Process \ {p} : pc'[q] = pc[q] /\ memory'[q] = memory[q]
  BY EffectMoves
<1>l. diverged \ {p} \subseteq diverged' /\ pc[p] # "closed"
  BY DEF Effect
<1>1. CASE /\ UNCHANGED <<file, stale>>
           /\ \/ l = "closed" \/ p \in diverged'
              \/ d = memory[p] /\ diverged \subseteq diverged'
  BY <1>1, <1>g, <1>l DEF CopyOK
<1>2. CASE /\ file' = c /\ stale' = Opened \ {p}
           /\ l = "closed" \/ p \in diverged' \/ d = c
  <2>1. \A q \in Process \ {p} : pc'[q] # "closed" => q \in stale'
    BY <1>2, <1>g DEF Opened
  <2> QED BY <1>2, <1>g, <2>1 DEF CopyOK
<1> QED BY <1>1, <1>2 DEF Effect

\* Credentials stay with their databases when neither is touched
LEMMA CredentialsKept ==
  ASSUME IInv, DatabaseOK, NEW p \in Process, NEW l \in Location, NEW w, NEW c,
         NEW d \in Config, Effect(p, l, w, c, d), LeavesCredentials(l)
  PROVE  DatabaseOK'
<1>1. \A q \in Process : Handles(q)' => q # p /\ Handles(q) /\ work'[q] = work[q]
  BY EffectMoves DEF LeavesCredentials, Handles
<1>2. /\ credentials' = credentials
      /\ \A x \in Database \ credentialsAdrift' :
           x \notin credentialsAdrift /\ (x \in file'.databases => x \in file.databases)
  BY DEF LeavesCredentials
<1> QED BY <1>1, <1>2 DEF DatabaseOK

\* Timers stay with their jobs when neither is touched
LEMMA TimersKept ==
  ASSUME IInv, TimerOK, NEW p \in Process, NEW l \in Location, NEW w, NEW c,
         NEW d \in Config, Effect(p, l, w, c, d), LeavesTimers(p)
  PROVE  TimerOK'
<1>1. \A q \in Process : pc[q] = "timing" =>
        pc'[q] = pc[q] /\ work'[q] = work[q] /\ Wanted(q)' = Wanted(q)
  BY EffectMoves DEF LeavesTimers
<1> SUFFICES ASSUME NEW j \in Job \ timersAdrift', Due(file, j)' # None
             PROVE  \/ timer'[j] = Due(file, j)'
                    \/ \E q \in Process : /\ pc'[q] = "timing" /\ work'[q].on = j
                                          /\ Wanted(q)' = Due(file, j)'
  BY DEF TimerOK
<1>2. j \in Job \ timersAdrift /\ Due(file, j)' = Due(file, j) /\ timer' = timer
  BY DEF LeavesTimers
<1> QED BY <1>1, <1>2 DEF TimerOK

\* monitor.key stays with its node when neither is touched
LEMMA KeyKept ==
  ASSUME IInv, KeyOK, NEW p \in Process, NEW l \in Location, NEW w, NEW c,
         NEW d \in Config, Effect(p, l, w, c, d), LeavesKey(p, l)
  PROVE  KeyOK'
<1>1. \A q \in Process : /\ pc'[q] \in ConfiguresAt <=> pc[q] \in ConfiguresAt
                         /\ pc[q] \in ConfiguresAt => work'[q] = work[q]
  BY EffectMoves DEF LeavesKey
<1>2. ~keyAdrift' => /\ ~keyAdrift /\ key' = key
                     /\ file'.monitor.node # None => file'.monitor.node = file.monitor.node
  BY DEF LeavesKey
<1> QED BY <1>1, <1>2 DEF KeyOK

\* A step that touches none of the three
LEMMA ElsewhereKeeps ==
  ASSUME IInv, Agreement, NEW p \in Process, NEW l \in Location, NEW w, NEW c,
         NEW d \in Config, Effect(p, l, w, c, d), LeavesCredentials(l),
         LeavesTimers(p), LeavesKey(p, l)
  PROVE  Agreement'
BY CopiesKept, CredentialsKept, TimersKept, KeyKept DEF Agreement

\* A step that saves nothing and leaves the copy of its process
LEMMA PlainEffect ==
  ASSUME NEW p \in Process, NEW l, NEW w, pc[p] # "closed", Goto(p, l, w, memory[p]),
         UNCHANGED <<file, stale, diverged>>
  PROVE  Effect(p, l, w, memory[p], memory[p])
BY DEF Effect

\* A step that touches the file no more leaves alone what it does not name
LEMMA PlainLeaves ==
  ASSUME NEW p \in Process, NEW l, file' = file
  PROVE  /\ UNCHANGED <<credentials, credentialsAdrift>> /\ l \notin HandlesAt
            => LeavesCredentials(l)
         /\ UNCHANGED <<timer, timersAdrift>> /\ pc[p] # "timing" => LeavesTimers(p)
         /\ UNCHANGED <<key, keyAdrift>> /\ pc[p] \notin ConfiguresAt /\ l \notin ConfiguresAt
            => LeavesKey(p, l)
<1>1. \A j : Due(file, j)' = Due(file, j)
  BY DEF Due, Jobs
<1> QED BY <1>1 DEF LeavesCredentials, LeavesTimers, LeavesKey

\* Steps that save nothing and touch none of the three
LEMMA PlainStepAgrees ==
  ASSUME IInv, Agreement, NEW p \in Process, NEW l \in Location, NEW w,
         Goto(p, l, w, memory[p]), l \notin HandlesAt \cup ConfiguresAt,
         pc[p] \notin {"closed", "timing", "testing", "connected"},
         UNCHANGED <<file, stale, diverged, credentials, timer, key, driftVars>>
  PROVE  Agreement'
<1>1. Effect(p, l, w, memory[p], memory[p]) /\ memory[p] \in Config
  BY PlainEffect, Before
<1>2. LeavesCredentials(l) /\ LeavesTimers(p) /\ LeavesKey(p, l)
  BY PlainLeaves DEF driftVars, ConfiguresAt
<1> QED BY <1>1, <1>2, ElsewhereKeeps

\* Saves that see to none of the three
LEMMA SaveAgrees ==
  ASSUME IInv, Agreement, NEW p \in Process, NEW l \in Location, NEW w,
         NEW c \in Config, NEW d \in Config, NEW outcome \in Outcome, NEW kept \in BOOLEAN,
         pc[p] \notin {"closed", "timing", "testing", "connected"},
         Saves(p, c, outcome, kept), Goto(p, l, w, d), DriftAll(outcome, c),
         outcome = "saved" => d = c,
         outcome # "saved" => /\ l = "closed" \/ p \in Menu
                              /\ d = IF kept THEN c ELSE memory[p],
         l \notin HandlesAt \cup ConfiguresAt, UNCHANGED <<credentials, timer, key>>
  PROVE  Agreement'
<1>1. /\ Effect(p, l, w, c, d)
      /\ outcome = "failed" => file' = file
      /\ outcome # "failed" => file' = c
  BY SavingEffect
<1>2. LeavesCredentials(l) /\ LeavesTimers(p) /\ LeavesKey(p, l)
  BY <1>1, SavingDrift DEF DriftAll, LeavesCredentials, LeavesTimers, LeavesKey, ConfiguresAt
<1> QED BY <1>1, <1>2, ElsewhereKeeps

---------------------------------------------------------------------------
(* The steps on storages *)

\* The steps on storages keep the agreement
LEMMA StorageStepAgrees ==
  ASSUME IInv, Agreement, NEW p \in Process, StorageStep(p)
  PROVE  Agreement'
<1> DEFINE m == memory[p]
<1>m. /\ m \in Config /\ m.storages \in SUBSET Storage /\ Home(p) \in Location
      /\ WorkTyped(pc[p], work[p])
      /\ Begin(p) => pc[p] = "idle"
  BY Before
<1>h. /\ Home(p) \notin HandlesAt \cup ConfiguresAt
      /\ Home(p) = "closed" \/ p \in Menu
  BY DEF Home, HandlesAt, ConfiguresAt
<1>l. \A l \in {"configuring", "adding", "creating", "writing", "syncing", "withdrawing",
                "initializing"} :
        l \in Location /\ l \notin HandlesAt \cup ConfiguresAt
  BY DEF Location, HandlesAt, ConfiguresAt
<1>1. ASSUME NEW s \in Storage,
             \/ ConfigureWebDAV(p, s) \/ NewLocalStorage(p, s)
             \/ InitializeRepository(p, s) \/ StoragePassword(p, s)
      PROVE  Agreement'
  <2>1. \E l \in {"configuring", "adding", "creating", "initializing"}, op \in Operation,
           seen \in {remotes, None} : Goto(p, l, Work(op, s, seen), m)
    BY <1>1
    DEF ConfigureWebDAV, NewLocalStorage, InitializeRepository, StoragePassword, Operation
  <2>2. /\ pc[p] = "idle"
        /\ UNCHANGED <<file, stale, diverged, credentials, timer, key, driftVars>>
    BY <1>1, <1>m
    DEF ConfigureWebDAV, NewLocalStorage, InitializeRepository, StoragePassword, fileVars
  <2> QED BY <1>l, <2>1, <2>2, PlainStepAgrees
<1>2. CASE SaveStorage(p)
  <2> DEFINE c == [m EXCEPT !.storages = m.storages \cup {work[p].on}]
  <2>1. m.storages \cup {work[p].on} \in SUBSET Storage /\ pc[p] = "adding"
    BY <1>2, <1>m DEF SaveStorage, WorkTyped
  <2>2. PICK outcome \in Outcome :
          /\ Saves(p, c, outcome, FALSE) /\ DriftAll(outcome, c)
          /\ IF outcome = "saved" THEN Goto(p, "creating", work[p], c)
                                  ELSE Goto(p, Home(p), NoWork, m)
    BY <1>2 DEF SaveStorage, Return, Home
  <2>3. c \in Config
    BY <1>m, <2>1, ConfigChanges
  <2>4. UNCHANGED <<credentials, timer, key>>
    BY <1>2 DEF SaveStorage
  <2> HIDE DEF c
  <2>5. CASE outcome = "saved"
    BY <1>l, <2>1, <2>2, <2>3, <2>4, <2>5, SaveAgrees
  <2>6. CASE outcome # "saved"
    BY <1>m, <1>h, <2>1, <2>2, <2>3, <2>4, <2>6, SaveAgrees
  <2> QED BY <2>5, <2>6
<1>3. CASE WithdrawStorage(p)
  <2> DEFINE c == [m EXCEPT !.storages = m.storages \ {work[p].on}]
  <2>1. m.storages \ {work[p].on} \in SUBSET Storage /\ pc[p] = "withdrawing"
    BY <1>3, <1>m DEF WithdrawStorage
  <2>2. PICK outcome \in Outcome : Saves(p, c, outcome, TRUE) /\ DriftAll(outcome, c)
    BY <1>3 DEF WithdrawStorage
  <2>3. c \in Config /\ Goto(p, Home(p), NoWork, c) /\ UNCHANGED <<credentials, timer, key>>
    BY <1>3, <1>m, <2>1, ConfigChanges DEF WithdrawStorage, Return, Home
  <2> HIDE DEF c
  <2> QED BY <1>m, <1>h, <2>1, <2>2, <2>3, SaveAgrees
<1>4. CASE WriteRemote(p)
  <2>1. /\ \/ Goto(p, Home(p), NoWork, m) \/ Goto(p, "adding", work[p], m)
        /\ pc[p] = "configuring"
        /\ UNCHANGED <<file, stale, diverged, credentials, timer, key, driftVars>>
    BY <1>4 DEF WriteRemote, Return, Home
  <2> QED BY <1>m, <1>h, <1>l, <2>1, PlainStepAgrees
<1>5. CASE \/ CreatePasswordFile(p) \/ WritePassword(p) \/ SyncPassword(p)
           \/ InitRepository(p)
  <2>1. \E l \in {"writing", "syncing", "withdrawing", "initializing", Home(p)},
           w \in {work[p], NoWork} : Goto(p, l, w, m)
    BY <1>5 DEF CreatePasswordFile, WritePassword, SyncPassword, InitRepository,
                PasswordFailed, Return, Home
  <2>2. /\ pc[p] \in {"creating", "writing", "syncing", "initializing"}
        /\ UNCHANGED <<file, stale, diverged, credentials, timer, key, driftVars>>
    BY <1>5 DEF CreatePasswordFile, WritePassword, SyncPassword, InitRepository, fileVars
  <2> QED BY <1>m, <1>h, <1>l, <2>1, <2>2, PlainStepAgrees
<1> QED BY <1>1, <1>2, <1>3, <1>4, <1>5 DEF StorageStep

---------------------------------------------------------------------------
(* The steps on jobs and their timers *)

\* A save of a job, which may give only this one another schedule without its
\* timer being adrift, and then goes on to set it
LEMMA JobSaveAgrees ==
  ASSUME IInv, Agreement, NEW p \in Process, NEW l \in Location, NEW w,
         NEW c \in Config, NEW d \in Config, NEW outcome \in Outcome, NEW kept \in BOOLEAN,
         NEW j \in Job, NEW J, pc[p] = "idle",
         Saves(p, c, outcome, kept), Goto(p, l, w, d),
         Drift(outcome, Added(c), J, Renamed(c)),
         \/ Rescheduled(c) \subseteq J
         \/ /\ Rescheduled(c) \ {j} \subseteq J /\ outcome = "saved"
            /\ l = "timing" /\ w = Work("job", j, None),
         outcome = "saved" => d = c,
         outcome # "saved" => /\ l = "closed" \/ p \in Menu
                              /\ d = IF kept THEN c ELSE memory[p],
         l \notin HandlesAt \cup ConfiguresAt, UNCHANGED <<credentials, timer, key>>
  PROVE  Agreement'
<1>1. /\ Effect(p, l, w, c, d)
      /\ outcome = "failed" => file' = file
      /\ outcome # "failed" => file' = c
  BY SavingEffect
<1>2. /\ LeavesCredentials(l) /\ LeavesKey(p, l)
      /\ timersAdrift \subseteq timersAdrift'
      /\ Rescheduled(c) \subseteq J => LeavesTimers(p)
  BY <1>1, SavingDrift DEF LeavesCredentials, LeavesTimers, LeavesKey, ConfiguresAt
<1>3. CASE Rescheduled(c) \subseteq J
  BY <1>1, <1>2, <1>3, ElsewhereKeeps
<1>4. CASE /\ Rescheduled(c) \ {j} \subseteq J /\ outcome = "saved"
           /\ l = "timing" /\ w = Work("job", j, None)
  <2>1. /\ file' = c /\ d = c /\ timer' = timer
        /\ J \subseteq timersAdrift'
    BY <1>1, <1>4 DEF Drift
  <2>2. /\ pc'[p] = "timing" /\ work'[p] = Work("job", j, None) /\ memory'[p] = c
        /\ \A q \in Process \ {p} :
             pc'[q] = pc[q] /\ work'[q] = work[q] /\ Wanted(q)' = Wanted(q)
    BY <1>1, <1>4, <2>1, EffectMoves
  <2>3. \A i : Due(file, i)' = Due(c, i)
    BY <2>1 DEF Due, Jobs
  <2>4. work'[p].on = j /\ Wanted(p)' = Due(c, j)
    BY <2>2 DEF Wanted, Work, Due, Jobs
  <2>5. TimerOK'
    <3> SUFFICES ASSUME NEW i \in Job \ timersAdrift', Due(file, i)' # None
                 PROVE  \/ timer'[i] = Due(file, i)'
                        \/ \E q \in Process : /\ pc'[q] = "timing" /\ work'[q].on = i
                                              /\ Wanted(q)' = Due(file, i)'
      BY DEF TimerOK
    <3>1. CASE i = j
      BY <2>2, <2>3, <2>4, <3>1
    <3>2. CASE i # j
      <4>1. Due(c, i) = Due(file, i) /\ i \in Job \ timersAdrift
        BY <1>2, <1>4, <2>1, <2>3, <3>2 DEF Rescheduled
      <4>2. \/ timer[i] = Due(file, i)
            \/ \E q \in Process \ {p} : /\ pc[q] = "timing" /\ work[q].on = i
                                        /\ Wanted(q) = Due(file, i)
        BY <2>3, <4>1 DEF Agreement, TimerOK
      <4> QED BY <2>1, <2>2, <2>3, <4>1, <4>2
    <3> QED BY <3>1, <3>2
  <2> QED BY <1>1, <1>2, <2>5, CopiesKept, CredentialsKept, KeyKept DEF Agreement
<1> QED BY <1>3, <1>4

\* A timer that is set from the file's configuration is right, one that is set
\* otherwise, or not set when it should be, is adrift
LEMMA SetTimerAgrees ==
  ASSUME IInv, Agreement, NEW p \in Process, SetTimer(p)
  PROVE  Agreement'
<1> DEFINE m == memory[p]
           j == work[p].on
<1>m. /\ m \in Config /\ Home(p) \in Location /\ j \in Job /\ pc[p] = "timing"
      /\ Home(p) \notin HandlesAt \cup ConfiguresAt \cup {"timing"}
  BY Before DEF SetTimer, WorkTyped, Home, HandlesAt, ConfiguresAt
<1>s. /\ Goto(p, Home(p), NoWork, m)
      /\ UNCHANGED <<file, stale, diverged, credentials, key, credentialsAdrift, keyAdrift>>
  BY DEF SetTimer, Return, Home
<1>e. Effect(p, Home(p), NoWork, m, m)
  BY <1>m, <1>s, PlainEffect
<1>g. \A q \in Process \ {p} : pc'[q] = pc[q] /\ work'[q] = work[q] /\ Wanted(q)' = Wanted(q)
  BY <1>m, <1>e, EffectMoves
<1>1. LeavesCredentials(Home(p)) /\ LeavesKey(p, Home(p))
  BY <1>m, <1>s, PlainLeaves DEF ConfiguresAt
<1>2. CopyOK' /\ DatabaseOK' /\ KeyOK'
  BY <1>m, <1>e, <1>1, CopiesKept, CredentialsKept, KeyKept DEF Agreement
<1>3. TimerOK'
  <2> SUFFICES ASSUME NEW i \in Job \ timersAdrift', Due(file, i)' # None
               PROVE  \/ timer'[i] = Due(file, i)'
                      \/ \E q \in Process : /\ pc'[q] = "timing" /\ work'[q].on = i
                                            /\ Wanted(q)' = Due(file, i)'
    BY DEF TimerOK
  <2>1. Due(file, i)' = Due(file, i) /\ timer \in [Job -> Schedule \cup {None}]
    BY <1>s DEF Due, Jobs, IInv, TypeOK
  <2>2. \/ /\ timer' = [timer EXCEPT ![j] = Wanted(p)]
           /\ timersAdrift' = IF p \in stale \cup diverged
                              THEN timersAdrift \cup {j} ELSE timersAdrift \ {j}
        \/ /\ timer' = timer
           /\ timersAdrift' = IF Wanted(p) # None
                              THEN timersAdrift \cup {j} ELSE timersAdrift
    BY DEF SetTimer
  <2>3. CASE i # j
    <3>1. timer'[i] = timer[i] /\ i \notin timersAdrift
      BY <1>m, <2>1, <2>2, <2>3
    <3>2. \/ timer[i] = Due(file, i)
          \/ \E q \in Process \ {p} : /\ pc[q] = "timing" /\ work[q].on = i
                                      /\ Wanted(q) = Due(file, i)
      BY <2>1, <2>3, <3>1 DEF Agreement, TimerOK
    <3> QED BY <1>g, <2>1, <3>1, <3>2
  <2>4. CASE /\ i = j /\ timer' = [timer EXCEPT ![j] = Wanted(p)]
             /\ timersAdrift' = IF p \in stale \cup diverged
                                THEN timersAdrift \cup {j} ELSE timersAdrift \ {j}
    <3>1. m = file
      BY <1>m, <2>4 DEF Agreement, CopyOK
    <3>2. Wanted(p) = Due(file, j)
      BY <2>1, <2>4, <3>1 DEF Wanted, Due
    <3> QED BY <1>m, <2>1, <2>4, <3>2
  <2>5. CASE /\ i = j /\ timer' = timer
             /\ timersAdrift' = IF Wanted(p) # None
                                THEN timersAdrift \cup {j} ELSE timersAdrift
    <3>1. Wanted(p) = None /\ i \in Job \ timersAdrift
      BY <1>m, <2>5
    <3>2. \/ timer[i] = Due(file, i)
          \/ \E q \in Process \ {p} : /\ pc[q] = "timing" /\ work[q].on = i
                                      /\ Wanted(q) = Due(file, i)
      BY <2>1, <3>1 DEF Agreement, TimerOK
    <3> QED BY <1>g, <2>1, <2>5, <3>2
  <2> QED BY <2>2, <2>3, <2>4, <2>5
<1> QED BY <1>2, <1>3 DEF Agreement

\* The steps on jobs and timers keep the agreement
LEMMA JobStepAgrees ==
  ASSUME IInv, Agreement, NEW p \in Process, JobStep(p)
  PROVE  Agreement'
<1> DEFINE m == memory[p]
<1>m. /\ m \in Config /\ Home(p) \in Location
      /\ Begin(p) => pc[p] = "idle"
  BY Before
<1>h. /\ Home(p) \notin HandlesAt \cup ConfiguresAt
      /\ Home(p) = "closed" \/ p \in Menu
  BY DEF Home, HandlesAt, ConfiguresAt
<1>t. "timing" \in Location /\ "timing" \notin HandlesAt \cup ConfiguresAt
  BY DEF Location, HandlesAt, ConfiguresAt
<1>j. \A j \in Jobs(m) : j \in Job /\ m.jobs[j] \in JobConfig
  BY <1>m DEF Jobs, Config
<1>s. ASSUME NEW j \in Job, NEW x \in JobConfig \cup {None}, NEW timed \in BOOLEAN,
             Begin(p), SaveJob(p, j, x, timed)
      PROVE  Agreement'
  <2> DEFINE c == [m EXCEPT !.jobs[j] = x]
  <2>1. c \in Config /\ pc[p] = "idle" /\ UNCHANGED <<credentials, timer, key>>
    BY <1>m, <1>s, ConfigChanges DEF SaveJob
  <2>2. PICK outcome \in Outcome :
          /\ Saves(p, c, outcome, FALSE)
          /\ Drift(outcome, Added(c),
                   Rescheduled(c) \ (IF timed THEN Seen(outcome, {j}) ELSE {}),
                   Renamed(c))
          /\ IF outcome # "saved" THEN Goto(p, Home(p), NoWork, m)
             ELSE IF timed THEN Goto(p, "timing", Work("job", j, None), c)
             ELSE Goto(p, Home(p), NoWork, c)
    BY <1>s DEF SaveJob, Return, Home
  <2> HIDE DEF c
  <2>3. CASE outcome = "saved" /\ timed
    <3>1. Drift(outcome, Added(c), Rescheduled(c) \ {j}, Renamed(c))
      BY <2>2, <2>3 DEF Seen
    <3> QED BY <1>t, <2>1, <2>2, <2>3, <3>1, JobSaveAgrees
  <2>4. CASE ~(outcome = "saved" /\ timed)
    <3>1. /\ DriftAll(outcome, c)
          /\ Goto(p, Home(p), NoWork, IF outcome = "saved" THEN c ELSE m)
      <4>1. (IF timed THEN Seen(outcome, {j}) ELSE {}) = {}
        BY <2>4 DEF Seen
      <4>2. Rescheduled(c) \ {} = Rescheduled(c)
        OBVIOUS
      <4> QED BY <2>2, <2>4, <4>1, <4>2 DEF DriftAll
    <3> QED BY <1>m, <1>h, <2>1, <2>2, <3>1, SaveAgrees
  <2> QED BY <2>3, <2>4
<1>1. ASSUME NEW j \in Job, NEW s \in Storage, NEW schedule \in Schedule \cup {None},
             AddJob(p, j, s, schedule)
      PROVE  Agreement'
  <2> DEFINE x == [enabled |-> TRUE, schedule |-> schedule, storage |-> s,
                   databases |-> {}, keeps |-> TRUE]
  <2>1. x \in JobConfig
    BY DEF JobConfig
  <2>2. Begin(p) /\ SaveJob(p, j, x, schedule # None)
    BY <1>1 DEF AddJob
  <2> HIDE DEF x
  <2> QED BY <2>1, <2>2, <1>s
<1>2. ASSUME NEW j \in Job, EditJob(p, j)
      PROVE  Agreement'
  <2>1. PICK x \in Edited(m.jobs[j]) : SaveJob(p, j, x, FALSE)
    BY <1>2 DEF EditJob
  <2>2. m.jobs[j] \in JobConfig /\ Begin(p)
    BY <1>2, <1>j DEF EditJob
  <2>3. x \in JobConfig
    BY <2>2 DEF Edited, JobConfig
  <2> QED BY <2>1, <2>2, <2>3, <1>s
<1>3. ASSUME NEW j \in Job, RescheduleJob(p, j)
      PROVE  Agreement'
  <2>1. PICK schedule \in Schedule \cup {None} :
          SaveJob(p, j, [m.jobs[j] EXCEPT !.schedule = schedule], TRUE)
    BY <1>3 DEF RescheduleJob
  <2>2. m.jobs[j] \in JobConfig /\ Begin(p)
    BY <1>3, <1>j DEF RescheduleJob
  <2>3. [m.jobs[j] EXCEPT !.schedule = schedule] \in JobConfig
    BY <2>2 DEF JobConfig
  <2> QED BY <2>1, <2>2, <2>3, <1>s
<1>4. ASSUME NEW j \in Job, DeleteJob(p, j)
      PROVE  Agreement'
  BY <1>4, <1>s DEF DeleteJob
<1>5. ASSUME NEW j \in Job, EnableJob(p, j)
      PROVE  Agreement'
  <2>1. PICK enabled \in BOOLEAN, outcome \in Outcome :
          LET c == [m EXCEPT !.jobs[j].enabled = enabled]
          IN /\ Saves(p, c, outcome, TRUE)
             /\ Drift(outcome, Added(c), Rescheduled(c) \ Seen(outcome, {j}),
                      Renamed(c))
             /\ IF outcome = "saved"
                THEN Goto(p, "timing", Work("job", j, None), c)
                ELSE Return(p, c)
    BY <1>5 DEF EnableJob
  <2> DEFINE x == [m.jobs[j] EXCEPT !.enabled = enabled]
             c == [m EXCEPT !.jobs[j] = x]
  <2>2. x \in JobConfig /\ pc[p] = "idle" /\ UNCHANGED <<credentials, timer, key>>
    BY <1>5, <1>j, <1>m DEF EnableJob, JobConfig
  <2>3. c = [m EXCEPT !.jobs[j].enabled = enabled]
    OBVIOUS
  <2>4. c \in Config
    <3> HIDE DEF x
    <3> QED BY <1>m, <2>2, ConfigChanges
  <2>5. /\ Saves(p, c, outcome, TRUE)
        /\ Drift(outcome, Added(c), Rescheduled(c) \ Seen(outcome, {j}), Renamed(c))
        /\ IF outcome = "saved"
           THEN Goto(p, "timing", Work("job", j, None), c)
           ELSE Goto(p, Home(p), NoWork, c)
    BY <2>1, <2>3 DEF Return, Home
  <2> HIDE DEF c
  <2>6. CASE outcome = "saved"
    <3>1. Drift(outcome, Added(c), Rescheduled(c) \ {j}, Renamed(c))
      BY <2>5, <2>6 DEF Seen
    <3> QED BY <1>t, <2>2, <2>4, <2>5, <2>6, <3>1, JobSaveAgrees
  <2>7. CASE outcome # "saved"
    <3>1. DriftAll(outcome, c)
      <4>1. Rescheduled(c) \ Seen(outcome, {j}) = Rescheduled(c)
        BY <2>7 DEF Seen
      <4> QED BY <2>5, <4>1 DEF DriftAll
    <3> QED BY <1>m, <1>h, <2>2, <2>4, <2>5, <2>7, <3>1, SaveAgrees
  <2> QED BY <2>6, <2>7
<1>6. ASSUME NEW j \in Job, ReinstallTimer(p, j)
      PROVE  Agreement'
  <2>1. /\ pc[p] = "idle" /\ Goto(p, "timing", Work("reinstall", j, None), m)
        /\ UNCHANGED <<file, stale, diverged, credentials, timer, key, driftVars>>
    BY <1>6, <1>m DEF ReinstallTimer, fileVars
  <2> QED BY <1>t, <2>1, PlainStepAgrees
<1> QED BY <1>1, <1>2, <1>3, <1>4, <1>5, <1>6, SetTimerAgrees DEF JobStep

---------------------------------------------------------------------------
(* The steps on databases and their credential files *)

\* Steps on databases leave timers and monitor.key alone
LEMMA DatabaseEffectAgrees ==
  ASSUME IInv, Agreement, NEW p \in Process, NEW l \in Location, NEW w, NEW c,
         NEW d \in Config, Effect(p, l, w, c, d), LeavesTimers(p), LeavesKey(p, l),
         DatabaseOK'
  PROVE  Agreement'
BY CopiesKept, TimersKept, KeyKept DEF Agreement

\* The steps on databases keep the agreement: a credential is made before its
\* database is saved and removed after that was taken out
LEMMA DatabaseStepAgrees ==
  ASSUME IInv, Agreement, NEW p \in Process, DatabaseStep(p)
  PROVE  Agreement'
<1> DEFINE m == memory[p]
           on == work[p].on
<1>m. /\ m \in Config /\ m.databases \in SUBSET Database /\ Home(p) \in Location
      /\ WorkTyped(pc[p], work[p]) /\ file \in Config
  BY Before
<1>b. Begin(p) => pc[p] = "idle"
  BY Before
<1>h. /\ Home(p) \notin HandlesAt \cup ConfiguresAt
      /\ Home(p) = "closed" \/ p \in Menu
  BY DEF Home, HandlesAt, ConfiguresAt
<1>l. {"adding_database", "dropping"} \subseteq (Location \cap HandlesAt) \ ConfiguresAt
  BY DEF Location, HandlesAt, ConfiguresAt
<1>o. /\ \A q \in Process : Handles(q) => q \in Menu
      /\ \A d \in Database \ credentialsAdrift :
           /\ d \in file.databases => d \in credentials
           /\ \A q \in Process : Handles(q) /\ work[q].on = d =>
                /\ d \in credentials \ file.databases
                /\ \A r \in Process \ {q} : Handles(r) => work[r].on # d
  BY DEF Agreement, DatabaseOK
<1>1. ASSUME NEW x \in Database, AddDatabase(p, x)
      PROVE  Agreement'
  <2> DEFINE w == Work("database", x, None)
  <2>1. /\ p \in Menu /\ pc[p] = "idle" /\ Goto(p, "adding_database", w, m)
        /\ UNCHANGED <<file, stale, diverged, timer, key, driftVars>>
        /\ x \notin credentials /\ credentials' = credentials \cup {x}
    BY <1>1, <1>b DEF AddDatabase, fileVars
  <2>2. Effect(p, "adding_database", w, m, m) /\ w.on = x
    BY <2>1, PlainEffect DEF Work
  <2> HIDE DEF w
  <2>3. /\ work'[p] = w
        /\ \A q \in Process \ {p} : (Handles(q)' <=> Handles(q)) /\ work'[q] = work[q]
    BY <1>m, <1>l, <2>2, EffectMoves DEF Handles
  <2>4. LeavesTimers(p) /\ LeavesKey(p, "adding_database")
    BY <1>l, <2>1, PlainLeaves DEF driftVars, ConfiguresAt
  <2>5. DatabaseOK'
    <3>1. file' = file /\ credentialsAdrift' = credentialsAdrift
      BY <2>1 DEF driftVars
    <3>2. \A q \in Process : Handles(q)' => q \in Menu
      BY <1>o, <2>1, <2>3
    <3>3. ASSUME NEW d \in Database \ credentialsAdrift
          PROVE  /\ d \in file.databases => d \in credentials'
                 /\ \A q \in Process : Handles(q)' /\ work'[q].on = d =>
                      /\ d \in credentials' \ file.databases
                      /\ \A r \in Process \ {q} : Handles(r)' => work'[r].on # d
      BY <1>o, <2>1, <2>2, <2>3
    <3> QED BY <3>1, <3>2, <3>3 DEF DatabaseOK
  <2> QED BY <1>m, <1>l, <2>2, <2>4, <2>5, DatabaseEffectAgrees
<1>2. CASE SaveDatabase(p)
  <2> DEFINE c == [m EXCEPT !.databases = m.databases \cup {on}]
  <2>1. /\ pc[p] = "adding_database" /\ on \in Database /\ Handles(p) /\ p \in Menu
        /\ UNCHANGED <<credentials, timer, key>>
    BY <1>2, <1>m, <1>o DEF SaveDatabase, WorkTyped, Handles, HandlesAt
  <2>2. PICK outcome \in Outcome :
          /\ Saves(p, c, outcome, FALSE)
          /\ Drift(outcome, Added(c) \ Seen(outcome, {on}), Rescheduled(c), Renamed(c))
          /\ IF outcome = "saved" THEN Goto(p, Home(p), NoWork, c)
                                  ELSE Goto(p, "dropping", work[p], m)
    BY <1>2 DEF SaveDatabase, Return, Home
  <2>3. c \in Config
    BY <1>m, <2>1, ConfigChanges
  <2> HIDE DEF c
  <2>4. CASE outcome = "saved"
    <3>1. Effect(p, Home(p), NoWork, c, c) /\ file' = c
      BY <2>1, <2>2, <2>4, SavingEffect
    <3>2. \A q \in Process : Handles(q)' => q # p /\ Handles(q) /\ work'[q] = work[q]
      BY <1>m, <1>h, <2>3, <3>1, EffectMoves DEF Handles
    <3>3. LeavesTimers(p) /\ LeavesKey(p, Home(p)) /\ credentialsAdrift \subseteq credentialsAdrift'
      BY <1>h, <2>1, <2>2, <2>4, <3>1, SavingDrift DEF LeavesTimers, LeavesKey, ConfiguresAt
    <3>4. file'.databases \ file.databases \subseteq credentialsAdrift' \cup {on}
      BY <2>2, <2>4, <3>1 DEF Drift, Added, Seen
    <3>5. DatabaseOK'
      <4>1. ASSUME NEW d \in Database \ credentialsAdrift'
            PROVE  /\ d \in file'.databases => d \in credentials
                   /\ \A q \in Process : Handles(q)' /\ work'[q].on = d =>
                        /\ d \in credentials \ file'.databases
                        /\ \A r \in Process \ {q} : Handles(r)' => work'[r].on # d
        <5>1. d \in Database \ credentialsAdrift /\ (d \in file'.databases => d \in file.databases \/ d = on)
          BY <3>3, <3>4
        <5> QED BY <1>o, <2>1, <3>2, <5>1
      <4> QED BY <1>o, <2>1, <3>2, <4>1 DEF DatabaseOK
    <3> QED BY <1>m, <2>3, <3>1, <3>3, <3>5, DatabaseEffectAgrees
  <2>5. CASE outcome # "saved"
    <3>1. /\ Effect(p, "dropping", work[p], c, m)
          /\ outcome = "failed" => file' = file
          /\ outcome # "failed" => file' = c
      BY <2>1, <2>2, <2>5, SavingEffect
    <3>2. /\ work'[p] = work[p]
          /\ \A q \in Process : Handles(q)' => Handles(q) /\ work'[q] = work[q]
      BY <1>m, <1>l, <2>1, <3>1, EffectMoves DEF Handles
    <3>3. Drift(outcome, Added(c), Rescheduled(c), Renamed(c))
      <4>1. Added(c) \ Seen(outcome, {on}) = Added(c)
        BY <2>5 DEF Seen
      <4> QED BY <2>2, <4>1
    <3>4. /\ LeavesTimers(p) /\ LeavesKey(p, "dropping")
          /\ credentialsAdrift \subseteq credentialsAdrift'
          /\ file'.databases \ file.databases \subseteq credentialsAdrift'
      BY <1>l, <2>1, <3>1, <3>3, SavingDrift DEF LeavesTimers, LeavesKey, ConfiguresAt
    <3>5. DatabaseOK'
      BY <1>o, <2>1, <3>2, <3>4 DEF DatabaseOK
    <3> QED BY <1>m, <1>l, <3>1, <3>4, <3>5, DatabaseEffectAgrees
  <2> QED BY <2>4, <2>5
<1>3. ASSUME NEW x \in Database, DeleteDatabase(p, x)
      PROVE  Agreement'
  <2> DEFINE c == [m EXCEPT !.databases = m.databases \ {x}]
             w == Work("database", x, None)
  <2>1. /\ p \in Menu /\ pc[p] = "idle" /\ ~Handles(p)
        /\ UNCHANGED <<credentials, timer, key>>
    BY <1>3, <1>b DEF DeleteDatabase, Handles, HandlesAt
  <2>2. PICK outcome \in Outcome :
          /\ Saves(p, c, outcome, FALSE)
          /\ Drift(outcome, Added(c) \cup ({x} \ file.databases), Rescheduled(c),
                   Renamed(c))
          /\ IF outcome = "saved" THEN Goto(p, "dropping", w, c)
                                  ELSE Goto(p, Home(p), NoWork, m)
    BY <1>3 DEF DeleteDatabase, Return, Home
  <2>3. c \in Config /\ c.databases = m.databases \ {x} /\ w.on = x
    BY <1>m, ConfigChanges, ChangeLeaves DEF Work
  <2> HIDE DEF c, w
  <2>4. outcome = "failed" => file' = file
    BY <2>2 DEF Saves
  <2>5. outcome # "failed" => file' = c
    BY <2>2 DEF Saves
  <2>6. /\ \A l \in {"dropping", Home(p)} : LeavesTimers(p) /\ LeavesKey(p, l)
        /\ credentialsAdrift \subseteq credentialsAdrift'
        /\ file'.databases \ file.databases \subseteq credentialsAdrift'
    BY <1>h, <1>l, <2>1, <2>2, <2>4, <2>5, SavingDrift
    DEF LeavesTimers, LeavesKey, ConfiguresAt
  <2>7. CASE outcome = "saved"
    <3>1. Effect(p, "dropping", w, c, c) /\ file' = c
      BY <2>1, <2>2, <2>7, SavingEffect
    <3>2. /\ work'[p] = w
          /\ \A q \in Process \ {p} : (Handles(q)' <=> Handles(q)) /\ work'[q] = work[q]
      BY <1>m, <1>l, <2>3, <3>1, EffectMoves DEF Handles
    <3>3. x \in credentialsAdrift' \/ x \in file.databases
      BY <2>2, <2>7 DEF Drift
    <3>4. DatabaseOK'
      <4>1. ASSUME NEW d \in Database \ credentialsAdrift'
            PROVE  /\ d \in file'.databases => d \in credentials
                   /\ \A q \in Process : Handles(q)' /\ work'[q].on = d =>
                        /\ d \in credentials \ file'.databases
                        /\ \A r \in Process \ {q} : Handles(r)' => work'[r].on # d
        <5>1. d \in Database \ credentialsAdrift /\ (d \in file'.databases => d \in file.databases)
          BY <2>6
        <5>2. x \notin file'.databases
          BY <2>3, <3>1
        <5>3. CASE d = x
          BY <1>o, <2>1, <2>3, <3>2, <3>3, <5>1, <5>2, <5>3
        <5>4. CASE d # x
          BY <1>o, <2>1, <2>3, <3>2, <5>1, <5>4
        <5> QED BY <5>3, <5>4
      <4> QED BY <1>o, <2>1, <3>2, <4>1 DEF DatabaseOK
    <3> QED BY <1>m, <1>l, <2>3, <2>6, <3>1, <3>4, DatabaseEffectAgrees
  <2>8. CASE outcome # "saved"
    <3>1. Effect(p, Home(p), NoWork, c, m)
      BY <1>h, <2>1, <2>2, <2>8, SavingEffect
    <3>2. LeavesCredentials(Home(p))
      BY <1>h, <2>1, <2>6 DEF LeavesCredentials
    <3> QED BY <1>m, <2>6, <3>1, <3>2, ElsewhereKeeps
  <2> QED BY <2>7, <2>8
<1>4. CASE DropCredential(p)
  <2>1. /\ pc[p] = "dropping" /\ Handles(p) /\ Goto(p, Home(p), NoWork, m)
        /\ UNCHANGED <<file, stale, diverged, timer, key, driftVars>>
        /\ credentials' \in {credentials, credentials \ {on}}
    BY <1>4 DEF DropCredential, Return, Home, Handles, HandlesAt
  <2>2. Effect(p, Home(p), NoWork, m, m)
    BY <2>1, PlainEffect
  <2>3. \A q \in Process : Handles(q)' => q # p /\ Handles(q) /\ work'[q] = work[q]
    BY <1>m, <1>h, <2>2, EffectMoves DEF Handles
  <2>4. LeavesTimers(p) /\ LeavesKey(p, Home(p)) /\ credentialsAdrift' = credentialsAdrift
    BY <1>h, <2>1, PlainLeaves DEF driftVars, ConfiguresAt
  <2>5. DatabaseOK'
    <3>1. ASSUME NEW d \in Database \ credentialsAdrift
          PROVE  /\ d \in file.databases => d \in credentials'
                 /\ \A q \in Process : Handles(q)' /\ work'[q].on = d =>
                      /\ d \in credentials' \ file.databases
                      /\ \A r \in Process \ {q} : Handles(r)' => work'[r].on # d
      BY <1>o, <2>1, <2>3
    <3> QED BY <1>o, <2>1, <2>3, <2>4, <3>1 DEF DatabaseOK
  <2> QED BY <1>m, <2>2, <2>4, <2>5, DatabaseEffectAgrees
<1> QED BY <1>1, <1>2, <1>3, <1>4 DEF DatabaseStep

---------------------------------------------------------------------------
(* The steps on the monitor and its key *)

\* Steps on the monitor leave credentials and timers alone
LEMMA MonitorEffectAgrees ==
  ASSUME IInv, Agreement, NEW p \in Process, NEW l \in Location, NEW w, NEW c,
         NEW d \in Config, Effect(p, l, w, c, d), LeavesTimers(p), LeavesCredentials(l),
         KeyOK'
  PROVE  Agreement'
BY CopiesKept, TimersKept, CredentialsKept DEF Agreement

\* What a save of the monitor does
LEMMA SaveMonitorEffect ==
  ASSUME IInv, NEW p \in Process, pc[p] \notin {"closed", "timing"},
         NEW monitor \in [enabled : BOOLEAN, node : Node \cup {None}],
         NEW connecting \in BOOLEAN, SaveMonitor(p, monitor, connecting)
  PROVE  LET c == [memory[p] EXCEPT !.monitor = monitor]
         IN /\ c \in Config
            /\ Effect(p, Home(p), NoWork, c, c)
            /\ LeavesTimers(p) /\ LeavesCredentials(Home(p)) /\ key' = key
            /\ keyAdrift => keyAdrift'
            /\ connecting => keyAdrift' \/ file'.monitor = monitor
            /\ ~connecting /\ ~keyAdrift' => file'.monitor.node \in {None, file.monitor.node}
<1> DEFINE c == [memory[p] EXCEPT !.monitor = monitor]
<1>1. c \in Config /\ c.monitor = monitor
  <2>1. memory[p] \in Config
    BY Before
  <2> QED BY <2>1, ConfigChanges, ChangeLeaves
<1>2. PICK outcome \in Outcome :
        /\ Saves(p, c, outcome, TRUE)
        /\ IF connecting /\ outcome = "failed"
           THEN keyAdrift' = TRUE /\ UNCHANGED <<credentialsAdrift, timersAdrift>>
           ELSE Drift(outcome, Added(c), Rescheduled(c), ~connecting /\ Renamed(c))
  BY DEF SaveMonitor
<1>3. /\ Goto(p, Home(p), NoWork, c) /\ UNCHANGED <<credentials, timer, key>>
      /\ Home(p) = "closed" \/ p \in Menu
      /\ Home(p) \notin HandlesAt
  BY DEF SaveMonitor, Return, Home, HandlesAt
<1> HIDE DEF c
<1>4. /\ Effect(p, Home(p), NoWork, c, c)
      /\ outcome = "failed" => file' = file
      /\ outcome # "failed" => file' = c
  BY <1>1, <1>2, <1>3, SavingEffect
<1>5. CASE connecting /\ outcome = "failed"
  <2>1. LeavesTimers(p) /\ LeavesCredentials(Home(p)) /\ keyAdrift'
    BY <1>2, <1>3, <1>4, <1>5, PlainLeaves
  <2> QED BY <1>1, <1>3, <1>4, <1>5, <2>1 DEF c
<1>6. CASE ~(connecting /\ outcome = "failed")
  <2>1. Drift(outcome, Added(c), Rescheduled(c), ~connecting /\ Renamed(c))
    BY <1>2, <1>6
  <2>2. /\ LeavesTimers(p) /\ LeavesCredentials(Home(p)) /\ (keyAdrift => keyAdrift')
        /\ ~connecting /\ ~keyAdrift' => file'.monitor.node \in {None, file.monitor.node}
    BY <1>3, <1>4, <2>1, SavingDrift DEF LeavesTimers, LeavesCredentials
  <2> QED BY <1>1, <1>3, <1>4, <1>6, <2>2 DEF c
<1> QED BY <1>5, <1>6

\* The steps on the monitor keep the agreement: the node's new secret is in
\* monitor.key before the node is saved, the old one after it was given up
LEMMA MonitorStepAgrees ==
  ASSUME IInv, Agreement, NEW p \in Process, MonitorStep(p)
  PROVE  Agreement'
<1> DEFINE m == memory[p]
<1>m. /\ m \in Config /\ Home(p) \in Location /\ WorkTyped(pc[p], work[p])
      /\ m.monitor \in [enabled : BOOLEAN, node : Node \cup {None}]
  BY Before DEF Config
<1>b. Begin(p) => pc[p] = "idle"
  BY Before
<1>h. Home(p) \notin HandlesAt \cup ConfiguresAt
  BY DEF Home, HandlesAt, ConfiguresAt
<1>l. {"testing", "connected"} \subseteq (Location \cap ConfiguresAt) \ HandlesAt
  BY DEF Location, HandlesAt, ConfiguresAt
<1>o. ~keyAdrift =>
        /\ \A q \in Process : pc[q] \in ConfiguresAt =>
             /\ key = work[q].on
             /\ \A r \in Process \ {q} : pc[r] \notin ConfiguresAt
             /\ file.monitor.node # None => work[q].seen = file.monitor.node
        /\ (\A q \in Process : pc[q] \notin ConfiguresAt) /\ file.monitor.node # None
           => key = file.monitor.node
  BY DEF Agreement, KeyOK
<1>1. ASSUME NEW n \in Node, ConfigureMonitor(p, n)
      PROVE  Agreement'
  <2> DEFINE w == Work("monitor", n, key)
  <2>1. /\ pc[p] = "idle" /\ Goto(p, "testing", w, m) /\ key' = n
        /\ UNCHANGED <<file, stale, diverged, credentials, timer, credentialsAdrift,
                       timersAdrift>>
        /\ keyAdrift' = (keyAdrift \/ Configuring # {})
    BY <1>1, <1>b DEF ConfigureMonitor, fileVars
  <2>2. Effect(p, "testing", w, m, m) /\ w.on = n /\ w.seen = key
    BY <2>1, PlainEffect DEF Work
  <2> HIDE DEF w
  <2>3. /\ pc'[p] = "testing" /\ work'[p] = w
        /\ \A q \in Process \ {p} : pc'[q] = pc[q]
    BY <1>m, <1>l, <2>2, EffectMoves
  <2>4. ~keyAdrift' => ~keyAdrift /\ \A q \in Process : pc[q] \notin ConfiguresAt
    BY <2>1 DEF Configuring, ConfiguresAt
  <2>5. KeyOK'
    BY <1>o, <1>l, <2>1, <2>2, <2>3, <2>4 DEF KeyOK
  <2>6. LeavesTimers(p) /\ LeavesCredentials("testing")
    BY <1>l, <2>1, PlainLeaves
  <2> QED BY <1>m, <1>l, <2>2, <2>5, <2>6, MonitorEffectAgrees
<1>2. ASSUME NEW enabled \in BOOLEAN, SwitchMonitor(p, enabled)
      PROVE  Agreement'
  <2> DEFINE monitor == [m.monitor EXCEPT !.enabled = enabled]
             c == [m EXCEPT !.monitor = monitor]
  <2>1. monitor \in [enabled : BOOLEAN, node : Node \cup {None}]
    BY <1>m
  <2>2. SaveMonitor(p, monitor, FALSE) /\ pc[p] = "idle"
    BY <1>2, <1>b DEF SwitchMonitor
  <2> HIDE DEF monitor
  <2>3. /\ c \in Config /\ Effect(p, Home(p), NoWork, c, c)
        /\ LeavesTimers(p) /\ LeavesCredentials(Home(p)) /\ key' = key
        /\ keyAdrift => keyAdrift'
        /\ ~keyAdrift' => file'.monitor.node \in {None, file.monitor.node}
    BY <2>1, <2>2, SaveMonitorEffect
  <2>4. LeavesKey(p, Home(p))
    BY <1>h, <2>2, <2>3 DEF LeavesKey, ConfiguresAt
  <2> HIDE DEF c
  <2> QED BY <1>m, <2>3, <2>4, ElsewhereKeeps
<1>3. CASE TestMonitor(p)
  <2>1. /\ pc[p] = "testing" /\ pc[p] \in ConfiguresAt
        /\ UNCHANGED <<file, stale, diverged, credentials, timer, credentialsAdrift,
                       timersAdrift>>
        /\ \/ /\ Goto(p, "connected", work[p], m)
              /\ UNCHANGED <<key, keyAdrift>>
           \/ /\ Goto(p, Home(p), NoWork, m)
              /\ keyAdrift' \/ (key' = work[p].seen /\ keyAdrift' = keyAdrift)
    BY <1>3 DEF TestMonitor, Return, Home, ConfiguresAt
  <2>2. LeavesTimers(p) /\ \A l \in {"connected", Home(p)} : LeavesCredentials(l)
    BY <1>h, <1>l, <2>1, PlainLeaves
  <2>3. CASE Goto(p, "connected", work[p], m) /\ UNCHANGED <<key, keyAdrift>>
    <3>1. Effect(p, "connected", work[p], m, m)
      BY <2>1, <2>3, PlainEffect
    <3>2. \A q \in Process : (pc'[q] \in ConfiguresAt <=> pc[q] \in ConfiguresAt) /\ work'[q] = work[q]
      BY <1>m, <1>l, <2>1, <3>1, EffectMoves
    <3>3. KeyOK'
      BY <1>o, <2>1, <2>3, <3>2 DEF KeyOK
    <3> QED BY <1>m, <1>l, <2>2, <3>1, <3>3, MonitorEffectAgrees
  <2>4. CASE /\ Goto(p, Home(p), NoWork, m)
             /\ keyAdrift' \/ (key' = work[p].seen /\ keyAdrift' = keyAdrift)
    <3>1. Effect(p, Home(p), NoWork, m, m)
      BY <2>1, <2>4, PlainEffect
    <3>2. pc'[p] = Home(p) /\ \A q \in Process \ {p} : pc'[q] = pc[q]
      BY <1>m, <3>1, EffectMoves
    <3>3. KeyOK'
      BY <1>o, <1>h, <2>1, <2>4, <3>2 DEF KeyOK
    <3> QED BY <1>m, <2>2, <3>1, <3>3, MonitorEffectAgrees
  <2> QED BY <2>1, <2>3, <2>4
<1>4. CASE ConnectMonitor(p)
  <2> DEFINE monitor == [enabled |-> TRUE, node |-> work[p].on]
             c == [m EXCEPT !.monitor = monitor]
  <2>1. /\ pc[p] = "connected" /\ pc[p] \in ConfiguresAt
        /\ monitor \in [enabled : BOOLEAN, node : Node \cup {None}]
        /\ monitor.node = work[p].on /\ SaveMonitor(p, monitor, TRUE)
    BY <1>4, <1>m DEF ConnectMonitor, WorkTyped, ConfiguresAt
  <2> HIDE DEF monitor
  <2>2. /\ c \in Config /\ Effect(p, Home(p), NoWork, c, c)
        /\ LeavesTimers(p) /\ LeavesCredentials(Home(p)) /\ key' = key
        /\ keyAdrift => keyAdrift'
        /\ keyAdrift' \/ file'.monitor = monitor
    BY <2>1, SaveMonitorEffect
  <2> HIDE DEF c
  <2>3. pc'[p] = Home(p) /\ \A q \in Process \ {p} : pc'[q] = pc[q]
    BY <1>m, <2>2, EffectMoves
  <2>4. KeyOK'
    BY <1>o, <1>h, <2>1, <2>2, <2>3 DEF KeyOK
  <2> QED BY <1>m, <2>2, <2>4, MonitorEffectAgrees
<1> QED BY <1>1, <1>2, <1>3, <1>4 DEF MonitorStep

---------------------------------------------------------------------------
(* Sessions *)

\* A session that is opened has the file's configuration and nothing begun
LEMMA OpenAgrees ==
  ASSUME IInv, Agreement, NEW p \in Process, Open(p)
  PROVE  Agreement'
<1>1. /\ pc[p] = "closed" /\ Goto(p, "idle", NoWork, file) /\ stale' = stale \ {p}
      /\ UNCHANGED <<file, diverged, credentials, timer, key, driftVars>>
  BY DEF Open
<1>2. /\ pc'[p] = "idle" /\ memory'[p] = file
      /\ \A q \in Process \ {p} :
           pc'[q] = pc[q] /\ work'[q] = work[q] /\ memory'[q] = memory[q]
  <2>1. "idle" \in Location \ {"closed"} /\ file \in Config
    BY DEF Location, IInv, TypeOK
  <2> QED BY <1>1, <2>1, GotoMoves, GotoCopy DEF IInv
<1>3. CopyOK'
  BY <1>1, <1>2 DEF Agreement, CopyOK
<1>4. DatabaseOK'
  <2>1. \A q \in Process : Handles(q)' => q # p /\ Handles(q)
    BY <1>2 DEF Handles, HandlesAt
  <2> QED BY <1>1, <1>2, <2>1 DEF Agreement, DatabaseOK, driftVars
<1>5. TimerOK'
  <2>1. \A q \in Process : pc[q] = "timing" =>
          pc'[q] = pc[q] /\ work'[q] = work[q] /\ Wanted(q)' = Wanted(q)
    BY <1>1, <1>2 DEF Wanted, Due, Jobs
  <2>2. /\ \A j : Due(file, j)' = Due(file, j)
        /\ timer' = timer /\ timersAdrift' = timersAdrift
    BY <1>1 DEF Due, Jobs, driftVars
  <2> QED BY <2>1, <2>2 DEF Agreement, TimerOK
<1>6. KeyOK'
  <2>1. \A q \in Process : /\ pc'[q] \in ConfiguresAt <=> pc[q] \in ConfiguresAt
                           /\ pc[q] \in ConfiguresAt => work'[q] = work[q]
    BY <1>1, <1>2 DEF ConfiguresAt
  <2> QED BY <1>1, <2>1 DEF Agreement, KeyOK, driftVars
<1> QED BY <1>3, <1>4, <1>5, <1>6 DEF Agreement

\* A session that ends in the middle of something sets a timer or the key adrift
\* if it leaves one behind
LEMMA ExitAgrees ==
  ASSUME IInv, Agreement, NEW p \in Process, Exit(p)
  PROVE  Agreement'
<1> DEFINE m == memory[p]
<1>m. m \in Config /\ "closed" \in Location /\ "closed" \notin HandlesAt \cup ConfiguresAt
  BY Before DEF Location, HandlesAt, ConfiguresAt
<1>1. /\ pc[p] # "closed" /\ Goto(p, "closed", NoWork, m) /\ diverged' = diverged \ {p}
      /\ UNCHANGED <<file, stale, credentials, timer, key, credentialsAdrift>>
      /\ timersAdrift' = IF pc[p] = "timing" /\ Wanted(p) # None
                         THEN timersAdrift \cup {work[p].on} ELSE timersAdrift
      /\ keyAdrift' = (keyAdrift \/ p \in Configuring)
  BY DEF Exit, Goto
<1>e. Effect(p, "closed", NoWork, m, m)
  BY <1>1 DEF Effect
<1>g. /\ pc'[p] = "closed"
      /\ \A q \in Process \ {p} : pc'[q] = pc[q] /\ work'[q] = work[q] /\ Wanted(q)' = Wanted(q)
  BY <1>m, <1>e, EffectMoves
<1>3. CopyOK' /\ DatabaseOK'
  <2>1. LeavesCredentials("closed")
    BY <1>m, <1>1, PlainLeaves
  <2> QED BY <1>m, <1>e, <2>1, CopiesKept, CredentialsKept DEF Agreement
<1>4. TimerOK'
  <2>1. ASSUME NEW j \in Job \ timersAdrift', Due(file, j) # None
        PROVE  \/ timer[j] = Due(file, j)
               \/ \E q \in Process \ {p} : /\ pc[q] = "timing" /\ work[q].on = j
                                           /\ Wanted(q) = Due(file, j)
    <3>1. j \notin timersAdrift /\ (pc[p] = "timing" /\ work[p].on = j => Wanted(p) = None)
      BY <1>1, <2>1
    <3> QED BY <2>1, <3>1 DEF Agreement, TimerOK
  <2>2. \A j : Due(file, j)' = Due(file, j)
    BY <1>1 DEF Due, Jobs
  <2> QED BY <1>1, <1>g, <2>1, <2>2 DEF TimerOK
<1>5. KeyOK'
  <2>1. ~keyAdrift' => ~keyAdrift /\ pc[p] \notin ConfiguresAt
    BY <1>1 DEF Configuring, ConfiguresAt
  <2>2. pc[p] \notin ConfiguresAt => LeavesKey(p, "closed")
    BY <1>m, <1>1 DEF LeavesKey
  <2>3. CASE pc[p] \in ConfiguresAt
    BY <2>1, <2>3 DEF KeyOK
  <2>4. CASE pc[p] \notin ConfiguresAt
    BY <1>m, <1>e, <2>2, <2>4, KeyKept DEF Agreement
  <2> QED BY <2>3, <2>4
<1> QED BY <1>3, <1>4, <1>5 DEF Agreement

\* The default configuration names nothing that could be missing, and every
\* copy is older than it
LEMMA ForceInitAgrees ==
  ASSUME IInv, Agreement, NEW p \in Process, ForceInit(p)
  PROVE  Agreement'
<1>1. PICK outcome \in Outcome :
        Saves(p, Default, outcome, TRUE) /\ DriftAll(outcome, Default)
  BY DEF ForceInit
<1>2. p \in Command /\ pc[p] = "closed"
      /\ UNCHANGED <<pc, memory, work, credentials, timer, key>>
  BY DEF ForceInit, processVars
<1>3. /\ outcome = "failed" => file' = file
      /\ outcome # "failed" => file' = Default
      /\ diverged \ {p} \subseteq diverged'
  BY <1>1 DEF Saves
<1>4. /\ credentialsAdrift \subseteq credentialsAdrift'
      /\ file'.databases \ file.databases \subseteq credentialsAdrift'
      /\ timersAdrift \subseteq timersAdrift'
      /\ \A j \in Job \ timersAdrift' : Due(file, j)' \in {None, Due(file, j)}
      /\ keyAdrift => keyAdrift'
      /\ ~keyAdrift' => file'.monitor.node \in {None, file.monitor.node}
  BY <1>1, <1>3, SavingDrift DEF DriftAll
<1>5. CopyOK'
  <2>1. CASE UNCHANGED <<file, stale>>
    BY <1>2, <1>3, <2>1 DEF Agreement, CopyOK
  <2>2. CASE stale' = Opened \ {p}
    BY <1>2, <2>2 DEF Opened, CopyOK
  <2> QED BY <1>1, <2>1, <2>2 DEF Saves
<1>6. \A q \in Process : /\ Wanted(q)' = Wanted(q) /\ (Handles(q)' <=> Handles(q))
                         /\ work'[q] = work[q] /\ pc'[q] = pc[q]
  BY <1>2 DEF Wanted, Due, Jobs, Handles
<1>7. DatabaseOK'
  BY <1>2, <1>4, <1>6 DEF Agreement, DatabaseOK
<1>8. TimerOK'
  <2> SUFFICES ASSUME NEW j \in Job \ timersAdrift', Due(file, j)' # None
               PROVE  \/ timer'[j] = Due(file, j)'
                      \/ \E q \in Process : /\ pc'[q] = "timing" /\ work'[q].on = j
                                            /\ Wanted(q)' = Due(file, j)'
    BY DEF TimerOK
  <2>1. j \in Job \ timersAdrift /\ Due(file, j)' = Due(file, j)
    BY <1>4
  <2> QED BY <1>2, <1>6, <2>1 DEF Agreement, TimerOK
<1>9. KeyOK'
  BY <1>2, <1>4, <1>6 DEF Agreement, KeyOK
<1> QED BY <1>5, <1>7, <1>8, <1>9 DEF Agreement

---------------------------------------------------------------------------
\* At first everything agrees with config.yaml
LEMMA InitAgrees == Init => Agreement
<1> SUFFICES ASSUME Init PROVE Agreement
  OBVIOUS
<1>1. CopyOK
  BY DEF Init, CopyOK
<1>2. DatabaseOK
  BY DEF Init, DatabaseOK, Handles, HandlesAt
<1>3. TimerOK
  BY DEF Init, TimerOK
<1>4. KeyOK
  BY DEF Init, KeyOK, ConfiguresAt
<1> QED BY <1>1, <1>2, <1>3, <1>4 DEF Agreement

\* Every step keeps the agreement
LEMMA AgreementInvariant == Spec => [](IInv /\ Agreement)
<1>1. IInv /\ Agreement /\ [Next]_vars => Agreement'
  <2>1. IInv /\ Agreement /\ Next => Agreement'
    BY OpenAgrees, ExitAgrees, ForceInitAgrees, StorageStepAgrees, JobStepAgrees,
       DatabaseStepAgrees, MonitorStepAgrees DEF Next
  <2>2. ASSUME Agreement, UNCHANGED vars
        PROVE  Agreement'
    <3>1. CopyOK' /\ DatabaseOK'
      BY <2>2 DEF vars, Agreement, CopyOK, DatabaseOK, Handles
    <3>2. TimerOK' /\ KeyOK'
      BY <2>2 DEF vars, Agreement, TimerOK, Due, Jobs, Wanted, KeyOK
    <3> QED BY <3>1, <3>2 DEF Agreement
  <2> QED BY <2>1, <2>2
<1> QED BY InitAgrees, IInvInvariant, <1>1, PTL DEF Spec

---------------------------------------------------------------------------
\* No database of config.yaml is without its credential file, whatever fails or
\* dies between the two changes, but a database that is itself adrift
THEOREM CredentialsAreKept == Spec => []CredentialKept
<1>1. IInv /\ Agreement => CredentialKept
  <2>1. IInv => file.databases \subseteq Database
    BY DEF IInv, TypeOK, Config
  <2> QED BY <2>1 DEF Agreement, DatabaseOK, CredentialKept
<1> QED BY <1>1, AgreementInvariant, PTL

\* A session that is neither outdated nor diverged by its own last save never
\* carries a change that is not in config.yaml into its next operation
THEOREM CopiesAgree == Spec => []MemoryMatchesFile
<1>1. Agreement => MemoryMatchesFile
  BY DEF Agreement, CopyOK, MemoryMatchesFile, Process
<1> QED BY <1>1, AgreementInvariant, PTL

\* No enabled job is left without its timer, but a job whose own timer is adrift
THEOREM TimersAreSet == Spec => []EnabledJobHasTimer
<1>1. Agreement => EnabledJobHasTimer
  BY DEF Agreement, TimerOK, EnabledJobHasTimer
<1> QED BY <1>1, AgreementInvariant, PTL

\* A monitor that is switched on has its node's secret, whichever connection was
\* tried and given up in between, unless the key is adrift
THEOREM KeysAgree == Spec => []KeyMatchesFile
<1>1. IInv /\ Agreement => KeyMatchesFile
  <2>1. IInv => (file.monitor.enabled => file.monitor.node # None)
    BY DEF IInv, Validate, ValidMonitor
  <2> QED BY <2>1 DEF Agreement, KeyOK, KeyMatchesFile, Configuring, ConfiguresAt
<1> QED BY <1>1, AgreementInvariant, PTL
=============================================================================
