----------------------- MODULE BackupSnapshotProofs -----------------------
(***************************************************************************)
(* Theorems of BackupRun on the repository and on the sequence of runs of  *)
(* a job: retention spares the newest snapshot the table knows, and a      *)
(* recovery is announced when there was something to recover from.         *)
(***************************************************************************)
EXTENDS BackupHistoryProofs, WellFoundedInduction, NaturalsInduction

SnapshotOf(r) == [id |-> r.id, job |-> r.job]
HasSnap(id)   == runs[id] # None /\ runs[id].snap

\* While p runs a job, it is the latest run of it in every respect.  This is
\* what the job lock is for.
Latest(p) ==
  run[p].id # 0 =>
    /\ \A id \in RowsOf(run[p].job) : id <= run[p].id
    /\ \A s \in snapshots : s.job = run[p].job => s.id <= run[p].id
    /\ \A o \in orphans : o.job = run[p].job => o.id < run[p].id

\* Commands that outlived their process belong to no run that is executed
OrphansOK ==
  /\ \A s \in snapshots : s.id <= lastId
  /\ \A o \in orphans :
       /\ o.id <= lastId /\ \A p \in Process : run[p].id # o.id
       /\ o.phase = "retention" =>
            \A k \in RowsOf(o.job) : k < o.id /\ HasSnap(k) =>
              HasSnap(o.id) /\ runs[o.id].job = o.job

\* The snapshot of the run p executes
SnapOK(p) ==
  /\ HasRow(p) /\ run[p].snap => SnapshotOf(run[p]) \in snapshots
  /\ HasRow(p) /\ HasSnap(run[p].id) => run[p].snap
  /\ Working(p, "retention") =>
       \A k \in RowsOf(run[p].job) : HasSnap(k) => HasSnap(run[p].id)

SnapInv ==
  /\ \A p \in Process : Latest(p) /\ SnapOK(p)
  /\ OrphansOK /\ NewestRecordedSnapshotKept /\ RecoveryPaired

---------------------------------------------------------------------------
(* Of some runs there is a latest one *)

\* A set of runs has a latest one
LEMMA LatestExists ==
  ASSUME NEW T, T \subseteq RunId, T # {}
  PROVE  \E x \in T : \A y \in T : y <= x
<1> DEFINE R == OpToRel(<, Nat)
           D == {n \in Nat : \E y \in T : n = MaxRuns - y}
<1>1. MaxRuns \in Nat /\ \A y \in T : y \in Nat /\ MaxRuns - y \in Nat
  BY BackupRunAssumption DEF RunId
<1>2. D \subseteq Nat /\ D # {}
  BY <1>1
<1>3. IsWellFoundedOn(R, Nat)
  BY NatLessThanWellFounded
<1>4. \A a, b \in Nat : a < b => <<a, b>> \in R
  BY DEF OpToRel
<1> HIDE DEF R
<1>5. PICK m \in D : \A n \in D : <<n, m>> \notin R
  <2> HIDE DEF D
  <2> QED BY <1>2, <1>3, WFMin
<1>6. PICK x \in T : m = MaxRuns - x
  OBVIOUS
<1>7. ASSUME NEW y \in T PROVE y <= x
  <2>1. MaxRuns - y \in D
    BY <1>1
  <2>2. ~(MaxRuns - y < MaxRuns - x)
    BY <1>1, <1>4, <1>5, <1>6, <2>1
  <2> QED BY <1>1, <2>2
<1> QED BY <1>7

---------------------------------------------------------------------------
(* A step of one process *)

\* What a step of p may do to rows, snapshots, orphans and notices
SnapSteps(p) ==
  /\ Steps(p) /\ SnapOK(p)'
  /\ run'[p].id # 0 /\ run'[p].id = run[p].id /\ run[p].snap => run'[p].snap
  /\ run'[p].id # 0 => HoldsJob(p) /\ run'[p].job = run[p].job
  /\ \/ runs' = runs
     \/ /\ run'[p].id # 0 /\ HasRow(p)' /\ (run'[p].id = run[p].id => HasRow(p))
        /\ runs' = [runs EXCEPT ![run'[p].id] = RowOf(run'[p])]
        /\ notice'[run'[p].id] = None
  /\ \A s \in snapshots' : s \in snapshots \/ (s = SnapshotOf(run[p]) /\ run[p].id # 0)
  /\ \A s \in snapshots \ snapshots' :
       /\ Working(p, "retention") /\ s.job = run[p].job
       /\ \E t \in snapshots : t.job = s.job /\ t.id > s.id
  /\ \A o \in orphans' :
       \/ o \in orphans
       \/ /\ o = [id |-> run[p].id, job |-> run[p].job, phase |-> run[p].phase]
          /\ pc[p] = "working" /\ run'[p].id = 0 /\ runs' = runs
  /\ thinned' = thinned
  /\ unread \subseteq unread'
  /\ \/ \A id \in RunId : notice'[id] = notice[id] \/ notice'[id] = None
     \/ /\ runs' = runs /\ pc[p] = "notifying"
        /\ Tell(run[p])

\* The rows of a job after the step
RowsAfter(j) == {id \in RunId : runs'[id] # None /\ runs'[id].job = j}

\* The processes that have a run hold its job, each another one
LEMMA OwnJob ==
  ASSUME IInv, HInv
  PROVE  /\ \A p \in Process : run[p].id # 0 => HoldsJob(p) /\ run[p].job \in Job
         /\ \A p, q \in Process : p # q /\ HoldsJob(p) /\ HoldsJob(q) => run[p].job # run[q].job
<1>1. ASSUME NEW p \in Process, run[p].id # 0 PROVE HoldsJob(p) /\ run[p].job \in Job
  <2>1. ~Fresh(pc[p])
    BY <1>1 DEF HInv, Coherent
  <2> QED BY <2>1 DEF Fresh, HoldsJob, IInv, LocalOK
<1> QED BY <1>1 DEF IInv, LockOK

\* What the table gains in a step of p
LEMMA RowsGained ==
  ASSUME IInv, NEW p \in Process, IInv', SnapSteps(p)
  PROVE  /\ \A id \in RunId : id # run'[p].id => runs'[id] = runs[id]
         /\ \A id \in RunId : id = run'[p].id /\ runs'[id] # runs[id] =>
              runs'[id].job = run'[p].job /\ HasRow(p)' /\ notice'[id] = None
         /\ \A j : \A id \in RowsAfter(j) :
              id \in RowsOf(j) \/ (id = run'[p].id /\ id # 0 /\ j = run'[p].job)
<1>1. \A id \in RunId : id # run'[p].id => runs'[id] = runs[id]
  BY DEF SnapSteps, Steps
<1>2. \A id \in RunId : id = run'[p].id /\ runs'[id] # runs[id] =>
        runs'[id].job = run'[p].job /\ HasRow(p)' /\ notice'[id] = None
  BY DEF SnapSteps, RowOf, IInv, TypeOK
<1>3. \A id \in RunId : id # 0
  BY DEF RunId
<1>4. ASSUME NEW j, NEW id \in RowsAfter(j)
      PROVE  id \in RowsOf(j) \/ (id = run'[p].id /\ id # 0 /\ j = run'[p].job)
  <2>1. id \in RunId /\ runs'[id] # None /\ runs'[id].job = j
    BY DEF RowsAfter
  <2>2. CASE runs'[id] = runs[id]
    BY <2>1, <2>2 DEF RowsOf
  <2>3. CASE runs'[id] # runs[id]
    BY <1>1, <1>2, <1>3, <2>1, <2>3
  <2> QED BY <2>2, <2>3
<1> QED BY <1>1, <1>2, <1>4

\* The types of what has an identifier
LEMMA IdsAreNumbers ==
  ASSUME TypeOK
  PROVE  /\ lastId \in Nat /\ \A p \in Process : run[p].id \in Nat
         /\ \A s \in snapshots : s.id \in RunId /\ s.job \in Job
         /\ \A o \in orphans : o.id \in RunId /\ o.job \in Job
         /\ \A id \in RunId : id \in Nat /\ id # 0
BY BackupRunAssumption DEF TypeOK, LocalRun, Snapshot, RunId

\* The run a process executes stays the latest of its job: no other process
\* holds the job's lock
LEMMA LatestKept ==
  ASSUME IInv, IInv', HInv, HInv', SnapInv, NEW p \in Process, SnapSteps(p)
  PROVE  \A q \in Process : Latest(q)'
<1>1. /\ lastId \in Nat /\ \A q \in Process : run[q].id \in Nat /\ run'[q].id \in Nat
      /\ \A id \in RunId : id \in Nat /\ id # 0
      /\ \A s \in snapshots : s.id \in RunId /\ s.job \in Job
      /\ \A o \in orphans : o.id \in RunId /\ o.job \in Job
  <2>1. \A q \in Process : run'[q].id \in Nat
    BY DEF IInv, TypeOK, LocalRun
  <2> QED BY <2>1, IdsAreNumbers DEF IInv
<1>2. \A q \in Process : q # p => pc'[q] = pc[q] /\ run'[q] = run[q]
  BY DEF SnapSteps, Steps
<1>3. /\ \A q \in Process : run[q].id # 0 => HoldsJob(q) /\ run[q].job \in Job
      /\ \A q, r \in Process : q # r /\ HoldsJob(q) /\ HoldsJob(r) => run[q].job # run[r].job
  BY OwnJob
<1>4. \A j : \A id \in RowsAfter(j) :
        id \in RowsOf(j) \/ (id = run'[p].id /\ id # 0 /\ j = run'[p].job)
  BY RowsGained
<1>5. /\ \A s \in snapshots' : s \in snapshots \/ (s = SnapshotOf(run[p]) /\ run[p].id # 0)
      /\ \A o \in orphans' :
           \/ o \in orphans
           \/ /\ o = [id |-> run[p].id, job |-> run[p].job, phase |-> run[p].phase]
              /\ pc[p] = "working" /\ run'[p].id = 0 /\ runs' = runs
      /\ run'[p].id # 0 => HoldsJob(p) /\ run'[p].job = run[p].job
  BY DEF SnapSteps
<1>6. SnapshotOf(run[p]).id = run[p].id /\ SnapshotOf(run[p]).job = run[p].job
  BY DEF SnapshotOf
<1>7. \A q \in Process : Latest(q)
  BY DEF SnapInv
<1> SUFFICES ASSUME NEW q \in Process, run'[q].id # 0
             PROVE  /\ \A id \in RowsAfter(run'[q].job) : id <= run'[q].id
                    /\ \A s \in snapshots' : s.job = run'[q].job => s.id <= run'[q].id
                    /\ \A o \in orphans' : o.job = run'[q].job => o.id < run'[q].id
  BY DEF Latest, RowsOf, RowsAfter
<1>8. CASE q # p
  <2>1. run'[q] = run[q] /\ run[q].id # 0 /\ HoldsJob(q) /\ Latest(q)
    BY <1>2, <1>3, <1>7, <1>8
  <2>2. HoldsJob(p) => run[p].job # run[q].job
    BY <1>3, <1>8, <2>1
  <2>3. pc[p] = "working" => HoldsJob(p)
    BY DEF HoldsJob
  <2>4. \A id \in RowsAfter(run[q].job) : id \in RowsOf(run[q].job)
    BY <1>4, <1>5, <2>2
  <2>5. \A s \in snapshots' : s.job = run[q].job => s \in snapshots
    BY <1>3, <1>5, <1>6, <2>2
  <2>6. \A o \in orphans' : o.job = run[q].job => o \in orphans
    BY <1>5, <2>2, <2>3
  <2> QED BY <2>1, <2>4, <2>5, <2>6 DEF Latest
<1>9. CASE q = p /\ run'[p].id = run[p].id
  <2>1. Latest(p) /\ run'[p].job = run[p].job /\ run[p].id # 0
    BY <1>5, <1>7, <1>9
  <2>2. \A id \in RowsAfter(run[p].job) : id \in RowsOf(run[p].job) \/ id = run[p].id
    BY <1>4, <1>9
  <2>3. \A o \in orphans' : o \in orphans
    BY <1>5, <1>9
  <2> QED BY <1>1, <1>5, <1>6, <1>9, <2>1, <2>2, <2>3 DEF Latest
<1>10. CASE q = p /\ run'[p].id = lastId + 1
  <2>1. \A j : \A id \in RowsOf(j) : id <= lastId
    BY <1>1 DEF HInv, IdsOK, RowsOf
  <2>2. (\A s \in snapshots : s.id <= lastId) /\ (\A o \in orphans : o.id <= lastId)
        /\ run[p].id <= lastId
    BY DEF SnapInv, OrphansOK, HInv, IdsOK
  <2>3. \A id \in RowsAfter(run'[p].job) : id <= lastId \/ id = run'[p].id
    BY <1>4, <2>1
  <2>4. \A s \in snapshots' : s.id <= lastId
    BY <1>5, <1>6, <2>2
  <2>5. \A o \in orphans' : o \in orphans
    BY <1>5, <1>10
  <2>6. \A s \in snapshots' : s.id \in Nat
    BY <1>1, <1>5, <1>6
  <2>7. \A id \in RowsAfter(run'[p].job) : id \in Nat
    BY <1>1 DEF RowsAfter
  <2> QED BY <1>1, <1>10, <2>2, <2>3, <2>4, <2>5, <2>6, <2>7
<1> QED BY <1>8, <1>9, <1>10 DEF SnapSteps, Steps

\* A step of p takes no snapshot from the table and none of another job's from
\* the repository
LEMMA SnapshotsKept ==
  ASSUME IInv, IInv', HInv, SnapInv, NEW p \in Process, SnapSteps(p)
  PROVE  /\ \A id \in RunId : HasSnap(id) => HasSnap(id)' /\ runs'[id].job = runs[id].job
         /\ \A id \in RunId : id # run'[p].id => (HasSnap(id)' <=> HasSnap(id))
         /\ \A q \in Process : q # p /\ run[q].id # 0 =>
              \A s \in snapshots : s.job = run[q].job => s \in snapshots'
<1>1. \A id \in RunId : id # run'[p].id => runs'[id] = runs[id]
  BY RowsGained
<1>2. ASSUME NEW id \in RunId, HasSnap(id)
      PROVE  HasSnap(id)' /\ runs'[id].job = runs[id].job
  <2>1. CASE runs'[id] = runs[id]
    BY <1>2, <2>1 DEF HasSnap
  <2>2. CASE runs'[id] # runs[id]
    <3>1. id = run'[p].id /\ runs[id] # None /\ run'[p].id # 0 /\ HasRow(p)'
          /\ runs'[id] = RowOf(run'[p])
      BY <1>1, <1>2, <2>2 DEF SnapSteps, HasSnap, IInv, TypeOK
    <3>2. runs'[id] # None /\ runs'[id].job = runs[id].job
      BY <3>1 DEF SnapSteps, Steps
    <3>3. id = run[p].id
      <4>1. lastId \in Nat /\ id \in Nat /\ id <= lastId
        BY <3>1, BackupRunAssumption DEF IInv, TypeOK, HInv, IdsOK, RunId
      <4> QED BY <3>1, <4>1 DEF SnapSteps, Steps
    <3>4. runs[id].status = "running"
      BY <2>2, <3>1 DEF SnapSteps, Steps
    <3>5. run'[p].snap
      <4>1. HasRow(p)
        BY <2>2, <3>1, <3>3 DEF SnapSteps
      <4>2. run[p].snap
        BY <1>2, <3>3, <4>1 DEF SnapInv, SnapOK
      <4> QED BY <3>1, <3>3, <4>2 DEF SnapSteps
    <3> QED BY <3>1, <3>2, <3>5 DEF HasSnap, RowOf
  <2> QED BY <2>1, <2>2
<1>3. ASSUME NEW q \in Process, q # p, run[q].id # 0, NEW s \in snapshots,
             s.job = run[q].job, s \notin snapshots'
      PROVE  FALSE
  <2>1. Working(p, "retention") /\ s.job = run[p].job
    BY <1>3 DEF SnapSteps
  <2>2. HoldsJob(p)
    BY <2>1 DEF Working, HoldsJob
  <2> QED BY <1>3, <2>1, <2>2, OwnJob
<1> QED BY <1>1, <1>2, <1>3 DEF HasSnap

\* A process that does not move keeps what is known of its run's snapshot
LEMMA SnapOKKept ==
  ASSUME IInv, IInv', HInv, HInv', SnapInv, NEW p \in Process, SnapSteps(p)
  PROVE  \A q \in Process : SnapOK(q)'
<1> SUFFICES ASSUME NEW q \in Process PROVE SnapOK(q)'
  OBVIOUS
<1>1. CASE q = p
  BY <1>1 DEF SnapSteps
<1>2. CASE q # p
  <2>1. pc'[q] = pc[q] /\ run'[q] = run[q] /\ SnapOK(q)
    BY <1>2 DEF SnapSteps, Steps, SnapInv
  <2>2. CASE ~HasRow(q)
    BY <2>1, <2>2 DEF SnapOK, HasRow, Working
  <2>3. CASE HasRow(q)
    <3>1. run[q].id \in RunId /\ run[q].id # 0 /\ HoldsJob(q)
      BY <2>3 DEF IInv, LocalOK, RunId, HasRow, HoldsJob
    <3>2. run[q].id # run'[p].id
      BY <1>2, <2>1, <3>1 DEF HInv, IdsOK
    <3>3. HasSnap(run[q].id)' <=> HasSnap(run[q].id)
      BY <2>1, <3>1, <3>2, SnapshotsKept DEF HasSnap
    <3>4. run[q].snap => SnapshotOf(run[q]) \in snapshots'
      <4>1. SnapshotOf(run[q]).job = run[q].job
        BY DEF SnapshotOf
      <4> QED BY <1>2, <2>3, <2>1, <3>1, <4>1, SnapshotsKept DEF SnapOK
    <3>5. ASSUME NEW k \in RowsAfter(run[q].job), HasSnap(k)'
          PROVE  k \in RowsOf(run[q].job) /\ HasSnap(k)
      <4>1. k \in RunId /\ runs'[k] # None /\ runs'[k].job = run[q].job
        BY DEF RowsAfter
      <4>2. CASE runs'[k] = runs[k]
        BY <3>5, <4>1, <4>2 DEF RowsOf, HasSnap
      <4>3. CASE runs'[k] # runs[k]
        <5>1. k = run'[p].id /\ runs'[k].job = run'[p].job
          BY <4>1, <4>3, RowsGained
        <5>2. run'[p].id # 0
          BY <4>1, <5>1 DEF RunId
        <5> QED BY <1>2, <2>1, <3>1, <4>1, <5>1, <5>2, OwnJob DEF SnapSteps
      <4> QED BY <4>2, <4>3
    <3> QED
      BY <2>1, <2>3, <3>3, <3>4, <3>5 DEF SnapOK, HasRow, Working, RowsOf, RowsAfter, HasSnap,
         SnapshotOf
  <2> QED BY <2>2, <2>3
<1> QED BY <1>1, <1>2

\* Orphans stay behind the runs of their jobs
LEMMA OrphansKept ==
  ASSUME IInv, IInv', HInv, HInv', SnapInv, NEW p \in Process, SnapSteps(p)
  PROVE  OrphansOK'
<1>1. /\ lastId \in Nat /\ lastId' \in Nat /\ \A q \in Process : run[q].id \in Nat
      /\ \A id \in RunId : id \in Nat /\ id # 0
      /\ \A o \in orphans : o.id \in RunId /\ o.job \in Job
      /\ \A s \in snapshots : s.id \in RunId
      /\ run'[p].id \in Nat
  BY IdsAreNumbers, BackupRunAssumption DEF IInv, TypeOK, LocalRun
<1>2. OrphansOK /\ SnapOK(p) /\ \A q \in Process : run[q].id <= lastId
  BY DEF SnapInv, HInv, IdsOK
<1>3. /\ lastId <= lastId'
      /\ \A q \in Process : run'[q].id = run[q].id \/ run'[q].id = 0 \/ run'[q].id = lastId + 1
  BY <1>1 DEF SnapSteps, Steps
<1>4. ASSUME NEW s \in snapshots' PROVE s.id <= lastId'
  <2>1. s \in snapshots \/ s.id = run[p].id
    BY DEF SnapSteps, SnapshotOf
  <2> QED BY <1>1, <1>2, <1>3, <2>1 DEF OrphansOK
<1>5. ASSUME NEW o \in orphans, NEW k \in RowsAfter(o.job), o.phase = "retention",
             k < o.id, HasSnap(k)'
      PROVE  HasSnap(o.id)' /\ runs'[o.id].job = o.job
  <2>1. k \in RunId /\ runs'[k] # None /\ runs'[k].job = o.job
    BY DEF RowsAfter
  <2>2. CASE runs'[k] = runs[k]
    <3>1. k \in RowsOf(o.job) /\ HasSnap(k)
      BY <1>5, <2>1, <2>2 DEF RowsOf, HasSnap
    <3>2. HasSnap(o.id) /\ runs[o.id].job = o.job
      BY <1>2, <1>5, <3>1 DEF OrphansOK
    <3> QED BY <1>1, <3>2, SnapshotsKept
  <2>3. CASE runs'[k] # runs[k]
    <3>1. k = run'[p].id /\ o.job = run'[p].job /\ k # 0
      BY <1>1, <2>1, <2>3, RowsGained
    <3>2. o.job = run[p].job /\ (run'[p].id = run[p].id \/ run'[p].id = lastId + 1)
      BY <1>1, <1>3, <3>1 DEF SnapSteps
    <3>3. run[p].id # 0 => o.id < run[p].id
      BY <3>2 DEF SnapInv, Latest
    <3>4. o.id <= lastId
      BY <1>2 DEF OrphansOK
    <3>5. o.id < k
      BY <1>1, <3>1, <3>2, <3>3, <3>4
    <3> QED BY <1>1, <1>5, <2>1, <3>5
  <2> QED BY <2>2, <2>3
<1>6. ASSUME NEW o \in orphans'
      PROVE  /\ o.id <= lastId' /\ \A q \in Process : run'[q].id # o.id
             /\ o.phase = "retention" =>
                  \A k \in RowsAfter(o.job) : k < o.id /\ HasSnap(k)' =>
                    HasSnap(o.id)' /\ runs'[o.id].job = o.job
  <2>1. CASE o \in orphans
    <3>1. o.id <= lastId /\ \A q \in Process : run[q].id # o.id
      BY <1>2, <2>1 DEF OrphansOK
    <3>2. \A q \in Process : run'[q].id # o.id
      BY <1>1, <1>3, <2>1, <3>1
    <3> QED BY <1>1, <1>3, <1>5, <2>1, <3>1, <3>2
  <2>2. CASE /\ o = [id |-> run[p].id, job |-> run[p].job, phase |-> run[p].phase]
             /\ pc[p] = "working" /\ run'[p].id = 0 /\ runs' = runs
    <3>1. HasRow(p) /\ run[p].id \in RunId /\ o.id = run[p].id /\ o.job = run[p].job
          /\ o.phase = run[p].phase
      BY <2>2 DEF HasRow, IInv, LocalOK
    <3>2. \A q \in Process : run'[q].id # o.id
      <4>1. \A q \in Process : q # p => run'[q] = run[q] /\ run[q].id # run[p].id
        BY <1>1, <3>1 DEF SnapSteps, Steps, HInv, IdsOK
      <4> QED BY <1>1, <2>2, <3>1, <4>1
    <3>3. ASSUME o.phase = "retention", NEW k \in RowsAfter(o.job), HasSnap(k)'
          PROVE  HasSnap(o.id)' /\ runs'[o.id].job = o.job
      <4>1. Working(p, "retention") /\ k \in RowsOf(run[p].job) /\ HasSnap(k)
        BY <2>2, <3>1, <3>3 DEF Working, RowsAfter, RowsOf, HasSnap
      <4>2. HasSnap(run[p].id)
        BY <1>2, <4>1 DEF SnapOK
      <4>3. runs[run[p].id].job = run[p].job
        BY <3>1, <4>2 DEF HInv, RowFits, HasSnap
      <4> QED BY <2>2, <3>1, <4>2, <4>3 DEF HasSnap
    <3> QED BY <1>1, <1>2, <1>3, <3>1, <3>2, <3>3
  <2> QED BY <2>1, <2>2 DEF SnapSteps
<1> QED BY <1>4, <1>6 DEF OrphansOK, RowsAfter, RowsOf, HasSnap

\* Retention of p spares the newest snapshot the table knows
LEMMA NewestKept ==
  ASSUME IInv, IInv', HInv, HInv', SnapInv, NEW p \in Process, SnapSteps(p)
  PROVE  NewestRecordedSnapshotKept'
<1>1. /\ \A q \in Process : run[q].id \in Nat
      /\ \A id \in RunId : id \in Nat /\ id # 0
      /\ \A s \in snapshots : s.id \in Nat
  BY IdsAreNumbers DEF IInv
<1> SUFFICES ASSUME NEW id \in RunId, HasSnap(id)',
                    \A k \in RowsAfter(runs'[id].job) : HasSnap(k)' => k <= id
             PROVE  \/ [id |-> id, job |-> runs'[id].job] \in snapshots'
                    \/ /\ runs'[id].job \in thinned
                       /\ \E s \in snapshots' : s.job = runs'[id].job /\ s.id > id
  <2>1. thinned' = thinned
    BY DEF SnapSteps
  <2> QED BY <2>1 DEF NewestRecordedSnapshotKept, HasSnap, RowsOf, RowsAfter
<1>2. CASE runs'[id] # runs[id]
  <2>1. id = run'[p].id /\ HasRow(p)' /\ runs'[id].job = run'[p].job
    BY <1>2, RowsGained
  <2>2. SnapOK(p)'
    BY DEF SnapSteps
  <2> QED BY <2>1, <2>2 DEF SnapOK, HasSnap, SnapshotOf
<1>3. CASE runs'[id] = runs[id]
  <2> DEFINE j == runs[id].job
  <2>1. HasSnap(id) /\ id \in RowsOf(j)
    BY <1>3 DEF HasSnap, RowsOf
  <2>2. ASSUME NEW k \in RowsOf(j), HasSnap(k) PROVE k <= id
    <3>1. k \in RunId /\ runs[k].job = j
      BY DEF RowsOf
    <3>2. HasSnap(k)' /\ runs'[k].job = j
      BY <2>2, <3>1, SnapshotsKept
    <3> QED BY <1>3, <3>1, <3>2 DEF RowsAfter, HasSnap
  <2>3. ASSUME NEW s \in snapshots, s.job = j, s.id >= id, s \notin snapshots'
        PROVE  FALSE
    <3>1. PICK t \in snapshots : /\ Working(p, "retention") /\ s.job = run[p].job
                                 /\ t.job = s.job /\ t.id > s.id
      BY <2>3 DEF SnapSteps
    <3>2. HasRow(p) /\ run[p].id \in RunId
      BY <3>1 DEF Working, HasRow, IInv, LocalOK
    <3>3. HasSnap(run[p].id)
      BY <2>1, <2>3, <3>1 DEF SnapInv, SnapOK
    <3>4. run[p].id \in RowsOf(j)
      BY <2>3, <3>1, <3>2, <3>3 DEF HInv, RowFits, HasSnap, RowsOf
    <3>5. t.id <= run[p].id
      BY <1>1, <3>1, <3>2 DEF SnapInv, Latest
    <3>6. run[p].id <= id
      BY <2>2, <3>3, <3>4
    <3> QED BY <1>1, <2>3, <3>1, <3>5, <3>6
  <2>4. \/ [id |-> id, job |-> j] \in snapshots
        \/ j \in thinned /\ \E s \in snapshots : s.job = j /\ s.id > id
    <3>1. \A k \in RowsOf(runs[id].job) : runs[k].snap => k <= id
      BY <2>2 DEF RowsOf, HasSnap
    <3>2. runs[id] # None /\ runs[id].snap
      BY <2>1 DEF HasSnap
    <3>3. NewestRecordedSnapshotKept
      BY DEF SnapInv
    <3> QED BY <3>1, <3>2, <3>3 DEF NewestRecordedSnapshotKept
  <2>5. CASE [id |-> id, job |-> j] \in snapshots
    <3> DEFINE s == [id |-> id, job |-> j]
    <3>1. s \in snapshots /\ s.job = j /\ s.id >= id
      BY <1>1, <2>5
    <3>2. s \in snapshots'
      BY <2>3, <3>1
    <3> QED BY <1>3, <3>2
  <2>6. CASE j \in thinned /\ \E s \in snapshots : s.job = j /\ s.id > id
    <3>1. PICK s \in snapshots : s.job = j /\ s.id > id
      BY <2>6
    <3>2. s \in snapshots'
      BY <1>1, <2>3, <3>1
    <3> QED BY <1>3, <2>6, <3>1, <3>2
  <2> QED BY <2>4, <2>5, <2>6
<1> QED BY <1>2, <1>3

\* In a table t: the ended runs of job j before id, and whether the latest of
\* them failed or ended with a warning
Preceding(t, j, id) ==
  {k \in RunId : k < id /\ t[k] # None /\ t[k].status # "running" /\ t[k].job = j}
BadBefore(t, j, id) ==
  \E k \in Preceding(t, j, id) : /\ \A i \in Preceding(t, j, id) : i <= k
                                 /\ t[k].status \in {"failed", "warning"}
Paired(t, said, unseen, id) ==
  t[id] # None => /\ said = "success" => ~BadBefore(t, t[id].job, id) \/ id \in unseen
                  /\ said = "recovery" => BadBefore(t, t[id].job, id)

\* RecoveryPaired, one notice at a time
LEMMA PairedNotices ==
  /\ RecoveryPaired <=> \A id \in RunId : Paired(runs, notice[id], unread, id)
  /\ RecoveryPaired' <=> \A id \in RunId : Paired(runs', notice'[id], unread', id)
BY DEF RecoveryPaired, Paired, BadBefore, Preceding, Ended

\* Only rows of the job decide whether the run before one was bad
LEMMA SameBefore ==
  ASSUME NEW t, NEW u, NEW j, NEW id,
         \A k \in RunId : k < id => \/ t[k] = u[k]
                                    \/ /\ t[k] # None => t[k].job # j
                                       /\ u[k] # None => u[k].job # j
  PROVE  BadBefore(t, j, id) <=> BadBefore(u, j, id)
<1>1. Preceding(t, j, id) = Preceding(u, j, id)
  BY DEF Preceding
<1>2. \A k \in Preceding(t, j, id) : t[k] = u[k]
  BY DEF Preceding
<1> QED BY <1>1, <1>2 DEF BadBefore

\* What a run tells of its predecessor is read while it holds the job's lock
LEMMA RecoveryKept ==
  ASSUME IInv, IInv', HInv, HInv', SnapInv, NEW p \in Process, SnapSteps(p)
  PROVE  RecoveryPaired'
<1>1. /\ \A q \in Process : run[q].id \in Nat
      /\ \A id \in RunId : id \in Nat /\ id # 0
  BY IdsAreNumbers DEF IInv
<1>2. None \notin {"success", "recovery"}
  BY NoneIsNoRow DEF Notice
<1> SUFFICES ASSUME NEW id \in RunId, runs'[id] # None
             PROVE  Paired(runs', notice'[id], unread', id)
  BY PairedNotices DEF Paired
<1>3. CASE notice'[id] = None
  BY <1>2, <1>3 DEF Paired
<1>4. ASSUME notice'[id] # None PROVE runs'[id] = runs[id]
  BY <1>4, RowsGained
<1>5. CASE notice'[id] = notice[id] /\ notice[id] # None
  <2>1. runs'[id] = runs[id]
    BY <1>4, <1>5
  <2>2. Paired(runs, notice[id], unread, id)
    BY PairedNotices DEF SnapInv
  <2>3. ASSUME NEW k \in RunId, k < id, runs'[k] # runs[k]
        PROVE  /\ runs[k] # None => runs[k].job # runs[id].job
               /\ runs'[k] # None => runs'[k].job # runs[id].job
    <3>1. k = run'[p].id /\ runs'[k].job = run'[p].job
      BY <2>3, RowsGained
    <3>2. runs[k] # None => runs'[k].job = runs[k].job
      BY <3>1 DEF SnapSteps, Steps
    <3>3. ASSUME runs[id].job = run'[p].job PROVE FALSE
      <4>1. id \in RowsAfter(run'[p].job)
        BY <2>1, <3>3 DEF RowsAfter
      <4>2. Latest(p)'
        BY LatestKept
      <4>3. id <= run'[p].id
        BY <1>1, <3>1, <4>1, <4>2 DEF Latest, RowsAfter, RowsOf
      <4> QED BY <1>1, <2>3, <3>1, <4>3
    <3> QED BY <3>1, <3>2, <3>3
  <2>4. BadBefore(runs', runs[id].job, id) <=> BadBefore(runs, runs[id].job, id)
    BY <2>3, SameBefore
  <2>5. unread \subseteq unread'
    BY DEF SnapSteps
  <2> QED BY <1>5, <2>1, <2>2, <2>4, <2>5 DEF Paired
<1>6. CASE runs' = runs /\ pc[p] = "notifying" /\ Tell(run[p])
  <2>0. PICK read \in BOOLEAN :
          /\ notice' = [notice EXCEPT ![run[p].id] = NoticeFor(run[p], read)]
          /\ unread' = IF read \/ run[p].status # "success" THEN unread
                       ELSE unread \cup {run[p].id}
    BY <1>6 DEF Tell
  <2>1. HasRow(p) /\ run[p].id \in RunId /\ notice \in [RunId -> Notice \cup {None}]
    BY <1>6 DEF HasRow, IInv, LocalOK, TypeOK
  <2>2. CASE id # run[p].id
    <3>1. notice'[id] = notice[id]
      BY <2>0, <2>1, <2>2
    <3> QED BY <1>3, <1>5, <3>1
  <2>3. CASE id = run[p].id
    <3> DEFINE j == run[p].job
    <3>1. notice'[id] = NoticeFor(run[p], read) /\ runs[id].job = j
      <4>1. runs[id].job = j
        BY <1>6, <2>1, <2>3 DEF HInv, RowFits
      <4>2. notice'[id] = NoticeFor(run[p], read)
        BY <2>0, <2>1, <2>3
      <4> QED BY <4>1, <4>2
    <3>2. \A k \in RowsOf(j) : k <= id
      BY <1>1, <2>1, <2>3 DEF SnapInv, Latest
    <3>3. CompletedBefore(j, id) = Preceding(runs, j, id)
      <4>1. \A k \in RunId : k \in RowsOf(j) /\ k # id => k < id
        BY <1>1, <3>2
      <4>2. \A k \in RunId : k < id => k # id
        BY <1>1
      <4> QED BY <4>1, <4>2 DEF CompletedBefore, Preceding, RowsOf
    <3>4. RecoversFrom(j, id) <=> BadBefore(runs, j, id)
      BY <3>3 DEF RecoversFrom, BadBefore
    <3>5. /\ notice'[id] = "success" => ~RecoversFrom(j, id) \/ id \in unread'
          /\ notice'[id] = "recovery" => RecoversFrom(j, id)
      <4>1. run[p].status \in {"success", "warning", "failed"}
        BY <1>6, <2>1 DEF HInv, Coherent, IInv, TypeOK, LocalRun, Status
      <4> QED BY <2>0, <2>3, <3>1, <4>1 DEF NoticeFor
    <3> QED BY <1>6, <3>1, <3>4, <3>5 DEF Paired
  <2> QED BY <2>2, <2>3
<1>7. \/ notice'[id] \in {notice[id], None}
      \/ runs' = runs /\ pc[p] = "notifying" /\ Tell(run[p])
  BY DEF SnapSteps
<1> QED BY <1>3, <1>5, <1>6, <1>7

\* A step of one process within SnapSteps keeps the invariant
LEMMA StepKeepsSnapshots ==
  ASSUME IInv, IInv', HInv, HInv', SnapInv, NEW p \in Process, SnapSteps(p)
  PROVE  SnapInv'
BY LatestKept, SnapOKKept, OrphansKept, NewestKept, RecoveryKept DEF SnapInv

---------------------------------------------------------------------------
(* The actions *)

\* A step that touches neither table, repository nor notices
LEMMA SilentSnap ==
  ASSUME IInv, HInv, SnapInv, NEW p \in Process, Steps(p),
         NEW l \in Location, NEW r \in LocalRun, Goto(p, l, r),
         UNCHANGED <<runs, snapshots, orphans, thinned, notice, unread>>,
         r.id \in {0, run[p].id},
         r.id # 0 => HoldsJob(p) /\ r.job = run[p].job /\ (r.snap <=> run[p].snap),
         l \in {"announcing", "preflight", "saving", "working", "failing", "notifying",
                "cleaning"} => HasRow(p) /\ r.id = run[p].id,
         l = "working" /\ r.phase = "retention" => Working(p, "retention")
  PROVE  SnapSteps(p)
<1>1. pc'[p] = l /\ run'[p] = r
  BY GotoMoves DEF IInv
<1>2. HasRow(p)' => HasRow(p) /\ r.id = run[p].id /\ r.id # 0
  BY <1>1 DEF HasRow, IInv, LocalOK, RunId
<1>3. SnapOK(p)
  BY DEF SnapInv
<1>4. HasRow(p)' => /\ run'[p].job = run[p].job /\ (run'[p].snap <=> run[p].snap)
                    /\ run'[p].id = run[p].id
  BY <1>1, <1>2
<1>5. Working(p, "retention")' => HasRow(p)' /\ Working(p, "retention")
  BY <1>1 DEF Working, HasRow
<1>6. SnapOK(p)'
  BY <1>2, <1>3, <1>4, <1>5 DEF SnapOK, HasSnap, SnapshotOf, RowsOf
<1>7. /\ \A s \in snapshots' : s \in snapshots
      /\ \A s \in snapshots \ snapshots' : FALSE
      /\ \A o \in orphans' : o \in orphans
      /\ \A id \in RunId : notice'[id] = notice[id]
  OBVIOUS
<1> QED BY <1>1, <1>6, <1>7 DEF SnapSteps

\* The run's row is saved, which was not final
LEMMA SavingSnap ==
  ASSUME IInv, HInv, SnapInv, NEW p \in Process, Steps(p), NEW l \in {"working", "notifying"},
         Goto(p, l, run[p]), SaveRun(run[p]), Unfinished(pc[p]),
         pc[p] \in {"saving", "failing"}, l = "working" => pc[p] = "saving",
         UNCHANGED <<snapshots, orphans, thinned, notice, unread>>
  PROVE  SnapSteps(p)
<1>1. pc'[p] = l /\ run'[p] = run[p]
  <2>1. l \in Location /\ run[p] \in LocalRun
    BY DEF Location, IInv, TypeOK
  <2> QED BY <2>1, GotoMoves DEF IInv
<1>2. HasRow(p) /\ run[p].id \in RunId /\ run[p].id # 0 /\ HoldsJob(p)
  BY DEF HasRow, IInv, LocalOK, RunId, HoldsJob
<1>3. /\ runs'[run[p].id] = RowOf(run[p]) /\ RowOf(run[p]).snap = run[p].snap
      /\ runs' = [runs EXCEPT ![run[p].id] = RowOf(run[p])]
  BY <1>2 DEF SaveRun, RowOf, IInv, TypeOK
<1>4. RowOf(run[p]) # None
  <2>1. RowOf(run[p]) \in Row
    BY <1>2 DEF RowOf, Row, LocalRun, IInv, TypeOK, LocalOK, HasRow
  <2> QED BY <2>1, NoneIsNoRow
<1>5. HasSnap(run[p].id)' <=> run[p].snap
  BY <1>1, <1>3, <1>4 DEF HasSnap
<1>6. notice'[run'[p].id] = None
  BY <1>1, <1>2 DEF HInv, RowFits
<1>7. Working(p, "retention")' => run[p].snap
  BY <1>1 DEF Working, HInv, Coherent
<1>8. HasRow(p)'
  BY <1>1 DEF HasRow
<1>9. SnapOK(p)'
  BY <1>1, <1>2, <1>5, <1>7 DEF SnapInv, SnapOK, SnapshotOf, HasSnap
<1>10. /\ \A s \in snapshots' : s \in snapshots
       /\ \A s \in snapshots \ snapshots' : FALSE
       /\ \A o \in orphans' : o \in orphans
       /\ \A id \in RunId : notice'[id] = notice[id]
  OBVIOUS
<1> QED BY <1>1, <1>2, <1>3, <1>6, <1>8, <1>9, <1>10 DEF SnapSteps

\* Admission and the deferred calls touch neither rows nor snapshots
LEMMA AdmissionSnaps ==
  ASSUME IInv, HInv, SnapInv, NEW p \in Process,
         \/ \E j \in Job : Request(p, j)
         \/ AcquireJob(p) \/ AcquireSlot(p) \/ RemoveStage(p) \/ ReleaseSlot(p)
         \/ ReleaseJob(p)
  PROVE  SnapSteps(p)
<1>1. Steps(p)
  BY AdmissionKeepsHistory
<1>2. /\ run[p] \in LocalRun /\ NoRun \in LocalRun /\ NoRun.id = 0
      /\ Fresh(pc[p]) => run[p].id = 0
      /\ UNCHANGED <<runs, snapshots, orphans, thinned, notice, unread>>
  BY NoRunType DEF IInv, TypeOK, NoRun, HInv, Coherent, Request, AcquireJob, AcquireSlot,
     RemoveStage, ReleaseSlot, ReleaseJob, history, adminVars
<1>3. PICK l \in Location, r \in LocalRun :
        /\ Goto(p, l, r) /\ r.id \in {0, run[p].id}
        /\ l \in {"idle", "locking", "slotting", "beginning", "releasing", "unlocking"}
        /\ r.id # 0 => r = run[p] /\ ~Fresh(pc[p])
  <2>0. {"idle", "locking", "slotting", "beginning", "releasing", "unlocking"} \subseteq Location
    BY DEF Location
  <2>1. CASE \E j \in Job : Request(p, j)
    <3>1. PICK j \in Job : Goto(p, "locking", [NoRun EXCEPT !.job = j])
      BY <2>1 DEF Request
    <3>2. [NoRun EXCEPT !.job = j] \in LocalRun /\ [NoRun EXCEPT !.job = j].id = 0
      BY <1>2 DEF LocalRun
    <3> QED BY <2>0, <3>1, <3>2
  <2>2. CASE AcquireJob(p)
    BY <1>2, <2>0, <2>2 DEF AcquireJob, Fresh
  <2>3. CASE AcquireSlot(p)
    <3>1. [run[p] EXCEPT !.slot = run[p].slot + 1] \in LocalRun
          /\ [run[p] EXCEPT !.slot = run[p].slot + 1].id = run[p].id
      BY <1>2 DEF LocalRun
    <3>2. run[p].id = 0
      BY <1>2, <2>3 DEF AcquireSlot, Fresh
    <3> QED BY <1>2, <2>0, <2>3, <3>1, <3>2 DEF AcquireSlot
  <2>4. CASE RemoveStage(p) \/ ReleaseSlot(p)
    BY <1>2, <2>0, <2>4 DEF RemoveStage, ReleaseSlot, Fresh
  <2>5. CASE ReleaseJob(p)
    BY <1>2, <2>0, <2>5 DEF ReleaseJob
  <2> QED BY <2>1, <2>2, <2>3, <2>4, <2>5
<1>4. ~Fresh(pc[p]) => HoldsJob(p)
  BY DEF Fresh, HoldsJob
<1> QED BY <1>1, <1>2, <1>3, <1>4, SilentSnap

\* The new row knows no snapshot, and its identifier was never used
LEMMA BeginSnaps ==
  ASSUME IInv, HInv, SnapInv, NEW p \in Process, Begin(p)
  PROVE  SnapSteps(p)
<1>1. /\ Steps(p) /\ pc[p] = "beginning" /\ run[p] \in LocalRun /\ run[p].id = 0
      /\ HoldsJob(p) /\ ~run[p].snap /\ run[p].job \in Job
      /\ UNCHANGED <<snapshots, orphans, thinned, notice, unread>>
  BY BeginKeepsHistory
  DEF Begin, IInv, TypeOK, LocalOK, HInv, Coherent, Fresh, HoldsJob, history, adminVars
<1>2. CASE Goto(p, "releasing", run[p]) /\ UNCHANGED runs
  BY <1>1, <1>2, SilentSnap DEF Location
<1> DEFINE r == [run[p] EXCEPT !.id = lastId + 1]
<1>3. CASE lastId < MaxRuns /\ SaveRun(r) /\ Goto(p, "announcing", r)
  <2>1. lastId + 1 \in RunId /\ lastId + 1 \in 0..MaxRuns /\ lastId + 1 # 0
    BY <1>3, BackupRunAssumption DEF IInv, TypeOK, RunId
  <2>2. r \in LocalRun /\ r.id = lastId + 1 /\ r.job = run[p].job /\ ~r.snap
    BY <1>1, <2>1 DEF LocalRun
  <2>3. SaveRun(r) /\ Goto(p, "announcing", r)
    BY <1>3
  <2> HIDE DEF r
  <2>4. pc'[p] = "announcing" /\ run'[p] = r
    BY <2>2, <2>3, GotoMoves DEF Location, IInv
  <2>5. /\ runs' = [runs EXCEPT ![r.id] = RowOf(r)] /\ runs'[r.id] = RowOf(r)
        /\ ~RowOf(r).snap
    BY <2>1, <2>2, <2>3 DEF SaveRun, RowOf, IInv, TypeOK
  <2>6. notice'[r.id] = None
    BY <1>1, <2>1, <2>2 DEF HInv, IdsOK, IInv, TypeOK
  <2>7. SnapOK(p)'
    BY <2>2, <2>4, <2>5 DEF SnapOK, HasSnap, Working
  <2>8. HasRow(p)'
    BY <2>4 DEF HasRow
  <2>9. /\ \A s \in snapshots' : s \in snapshots
        /\ \A s \in snapshots \ snapshots' : FALSE
        /\ \A o \in orphans' : o \in orphans
        /\ \A id \in RunId : notice'[id] = notice[id]
    BY <1>1
  <2> QED BY <1>1, <2>1, <2>2, <2>4, <2>5, <2>6, <2>7, <2>8, <2>9 DEF SnapSteps
<1> QED BY <1>2, <1>3 DEF Begin

\* Advancing and failing leave the snapshot as the commands set it
LEMMA SnapUnmoved ==
  ASSUME NEW r \in LocalRun
  PROVE  /\ Advanced(r).snap = r.snap
         /\ \A code \in ErrorCode : FailedRun(r, code).snap = r.snap
BY DEF Advanced, FailedRun, LocalRun

\* Announcing, preparing, dumping, verifying, expiring and failing
LEMMA PhasesSnaps ==
  ASSUME IInv, HInv, SnapInv, NEW p \in Process,
         \/ Announce(p) \/ Preflight(p) \/ DumpDatabases(p) \/ Verify(p) \/ Expire(p)
  PROVE  SnapSteps(p)
<1>1. /\ Steps(p) /\ run[p] \in LocalRun
      /\ UNCHANGED <<runs, snapshots, orphans, thinned, notice, unread>>
  BY PhasesKeepHistory, PreflightKeepsHistory
  DEF IInv, TypeOK, Announce, Preflight, DumpDatabases, Verify, Expire, history, adminVars
<1>2. "NOT_PREPARED" \in ErrorCode
      /\ {"preflight", "saving", "failing", "working"} \subseteq Location
  BY DEF ErrorCode, Location
<1>3. /\ [run[p] EXCEPT !.warned = TRUE] \in LocalRun
      /\ [run[p] EXCEPT !.warned = TRUE].id = run[p].id
      /\ [run[p] EXCEPT !.warned = TRUE].job = run[p].job
      /\ [run[p] EXCEPT !.warned = TRUE].snap = run[p].snap
      /\ [run[p] EXCEPT !.expired = TRUE] \in LocalRun
      /\ [run[p] EXCEPT !.expired = TRUE].id = run[p].id
      /\ [run[p] EXCEPT !.expired = TRUE].job = run[p].job
      /\ [run[p] EXCEPT !.expired = TRUE].phase = run[p].phase
      /\ [run[p] EXCEPT !.expired = TRUE].snap = run[p].snap
  BY <1>1 DEF LocalRun
<1>4. PICK l \in {"preflight", "saving", "failing", "working"}, r \in LocalRun :
        /\ Goto(p, l, r) /\ r.id = run[p].id /\ r.job = run[p].job /\ (r.snap <=> run[p].snap)
        /\ pc[p] \in {"announcing", "preflight", "saving", "working"}
        /\ l = "working" => pc[p] = "working" /\ r.phase = run[p].phase
  <2>1. CASE Announce(p)
    BY <1>1, <2>1 DEF Announce
  <2>2. CASE Expire(p)
    BY <1>3, <2>2 DEF Expire
  <2>3. CASE Preflight(p)
    BY <1>1, <1>2, <2>3, RunChanges, SnapUnmoved DEF Preflight
  <2>4. CASE DumpDatabases(p)
    BY <1>1, <1>2, <2>4, RunChanges, SnapUnmoved DEF DumpDatabases, Working
  <2>5. CASE Verify(p)
    BY <1>1, <1>3, <2>5, RunChanges, SnapUnmoved DEF Verify, Working
  <2> QED BY <2>1, <2>2, <2>3, <2>4, <2>5
<1>5. HasRow(p) /\ HoldsJob(p)
  BY <1>4 DEF HasRow, HoldsJob
<1> QED BY <1>1, <1>2, <1>4, <1>5, SilentSnap DEF Working

\* The saves, and the failures to save
LEMMA SavesSnaps ==
  ASSUME IInv, HInv, SnapInv, NEW p \in Process, SavePhase(p) \/ SaveFailure(p)
  PROVE  SnapSteps(p)
<1>1. /\ Steps(p) /\ run[p] \in LocalRun /\ pc[p] \in {"saving", "failing"}
      /\ UNCHANGED <<snapshots, orphans, thinned, notice, unread>>
      /\ HasRow(p) /\ HoldsJob(p) /\ Unfinished(pc[p])
  BY SavesKeepHistory
  DEF IInv, TypeOK, SavePhase, SaveFailure, history, adminVars, HasRow, HoldsJob, Unfinished
<1> DEFINE l == IF run[p].phase = "completed" THEN "notifying" ELSE "working"
<1>2. CASE SaveRun(run[p]) /\ pc[p] = "saving" /\ Goto(p, l, run[p])
  <2>1. l \in {"working", "notifying"} /\ Goto(p, l, run[p])
    BY <1>2
  <2> HIDE DEF l
  <2> QED BY <1>1, <1>2, <2>1, SavingSnap
<1>3. CASE SaveRun(run[p]) /\ pc[p] = "failing" /\ Goto(p, "notifying", run[p])
  BY <1>1, <1>3, SavingSnap
<1>4. CASE /\ UNCHANGED runs
           /\ Goto(p, "failing", FailedRun(run[p], "STATE_SAVE_FAILED"))
  <2> DEFINE r == FailedRun(run[p], "STATE_SAVE_FAILED")
  <2>1. /\ r \in LocalRun /\ r.id = run[p].id /\ r.job = run[p].job /\ (r.snap <=> run[p].snap)
        /\ Goto(p, "failing", r) /\ "failing" \in Location
    BY <1>1, <1>4, RunChanges, SnapUnmoved DEF ErrorCode, Location
  <2> HIDE DEF r
  <2> QED BY <1>1, <1>4, <2>1, SilentSnap
<1>5. CASE UNCHANGED runs /\ Goto(p, "cleaning", run[p])
  BY <1>1, <1>5, SilentSnap DEF Location
<1> QED BY <1>2, <1>3, <1>4, <1>5 DEF SavePhase, SaveFailure

\* The notice of a run is the one its predecessor's row calls for
LEMMA NotifySnaps ==
  ASSUME IInv, HInv, SnapInv, NEW p \in Process, Notify(p)
  PROVE  SnapSteps(p)
<1>1. /\ Steps(p) /\ run[p] \in LocalRun /\ pc[p] = "notifying" /\ Goto(p, "cleaning", run[p])
      /\ UNCHANGED <<runs, snapshots, orphans, thinned>>
      /\ Tell(run[p]) /\ unread \subseteq unread'
      /\ HasRow(p) /\ HoldsJob(p)
  BY NotifyKeepsHistory DEF IInv, TypeOK, Notify, Tell, adminVars, HasRow, HoldsJob
<1>2. pc'[p] = "cleaning" /\ run'[p] = run[p]
  BY <1>1, GotoMoves DEF IInv, Location
<1>3. SnapOK(p)'
  BY <1>1, <1>2 DEF SnapInv, SnapOK, HasSnap, SnapshotOf, Working
<1>4. /\ \A s \in snapshots' : s \in snapshots
      /\ \A s \in snapshots \ snapshots' : FALSE
      /\ \A o \in orphans' : o \in orphans
  BY <1>1
<1> QED BY <1>1, <1>2, <1>3, <1>4 DEF SnapSteps

\* restic backup adds the run's own snapshot, on success and perhaps on failure
LEMMA BackUpSnaps ==
  ASSUME IInv, HInv, SnapInv, NEW p \in Process, BackUp(p)
  PROVE  SnapSteps(p)
<1>1. /\ Steps(p) /\ run[p] \in LocalRun /\ pc[p] = "working" /\ ~run[p].snap
      /\ UNCHANGED <<runs, orphans, thinned, notice, unread>>
      /\ snapshots' \in {snapshots, snapshots \cup {SnapshotOf(run[p])}}
      /\ HasRow(p) /\ HoldsJob(p) /\ run[p].id # 0
  <2>1. Steps(p)
    BY PhasesKeepHistory
  <2>2. /\ pc[p] = "working" /\ run[p].phase = "backing_up"
        /\ UNCHANGED <<runs, orphans, thinned, notice, unread>>
        /\ snapshots' \in {snapshots, snapshots \cup {SnapshotOf(run[p])}}
    BY DEF BackUp, Working, SnapshotOf, history, adminVars
  <2>3. HasRow(p) /\ HoldsJob(p) /\ run[p].id # 0 /\ run[p] \in LocalRun
    BY <2>2 DEF IInv, TypeOK, LocalOK, RunId, HasRow, HoldsJob
  <2>4. ~run[p].snap
    BY <2>2 DEF HInv, Coherent
  <2> QED BY <2>1, <2>2, <2>3, <2>4
<1> DEFINE made == [run[p] EXCEPT !.snap = TRUE]
<1>2. made \in LocalRun /\ made.id = run[p].id /\ made.job = run[p].job /\ made.snap
  BY <1>1 DEF LocalRun
<1>3. {"TASK_TIMEOUT", "RESTIC_FAILED"} \subseteq ErrorCode
      /\ {"saving", "failing"} \subseteq Location
  BY DEF ErrorCode, Location
<1>4. PICK l \in {"saving", "failing"}, r \in LocalRun :
        /\ Goto(p, l, r) /\ r.id = run[p].id /\ r.job = run[p].job
        /\ r.snap => snapshots' = snapshots \cup {SnapshotOf(run[p])}
  <2>1. CASE /\ snapshots' = snapshots \cup {SnapshotOf(run[p])}
             /\ Goto(p, "saving", Advanced(made))
    <3> HIDE DEF made
    <3> QED BY <1>2, <2>1, RunChanges
  <2>2. CASE \E code \in {"TASK_TIMEOUT", "RESTIC_FAILED"} :
               Goto(p, "failing", FailedRun(run[p], code))
    <3>1. PICK code \in ErrorCode : Goto(p, "failing", FailedRun(run[p], code))
      BY <1>3, <2>2
    <3> QED BY <1>1, <3>1, RunChanges, SnapUnmoved
  <2> QED BY <2>1, <2>2 DEF BackUp, SnapshotOf
<1>5. pc'[p] = l /\ run'[p] = r
  BY <1>3, <1>4, GotoMoves DEF IInv
<1>6. ~HasSnap(run[p].id)
  BY <1>1 DEF SnapInv, SnapOK
<1>7. SnapOK(p)'
  BY <1>1, <1>4, <1>5, <1>6 DEF SnapOK, HasSnap, SnapshotOf, Working
<1>8. /\ \A s \in snapshots' : s \in snapshots \/ (s = SnapshotOf(run[p]) /\ run[p].id # 0)
      /\ \A s \in snapshots \ snapshots' : FALSE
      /\ \A o \in orphans' : o \in orphans
      /\ \A id \in RunId : notice'[id] = notice[id]
  BY <1>1
<1> QED BY <1>1, <1>4, <1>5, <1>7, <1>8 DEF SnapSteps

\* restic forget keeps the newest snapshot, which is the run's own
LEMMA ForgetSnaps ==
  ASSUME IInv, HInv, SnapInv, NEW p \in Process, Forget(p)
  PROVE  SnapSteps(p)
<1>1. /\ Steps(p) /\ run[p] \in LocalRun /\ Working(p, "retention") /\ pc[p] = "working"
      /\ UNCHANGED <<runs, orphans, thinned, notice, unread>>
      /\ HasRow(p) /\ HoldsJob(p) /\ run[p].id \in RunId /\ run[p].id # 0
  <2>1. Steps(p)
    BY PhasesKeepHistory
  <2>2. /\ Working(p, "retention") /\ pc[p] = "working"
        /\ UNCHANGED <<runs, orphans, thinned, notice, unread>>
    BY DEF Forget, Working, history, adminVars
  <2>3. HasRow(p) /\ HoldsJob(p) /\ run[p].id \in RunId /\ run[p].id # 0 /\ run[p] \in LocalRun
    BY <2>2 DEF IInv, TypeOK, LocalOK, RunId, HasRow, HoldsJob
  <2> QED BY <2>1, <2>2, <2>3
<1>2. \A s \in snapshots' : s \in snapshots
  BY DEF Forget, Thinned
<1>3. ASSUME NEW s \in snapshots, s \notin snapshots'
      PROVE  s.job = run[p].job /\ \E t \in snapshots : t.job = s.job /\ t.id > s.id
  BY <1>3 DEF Forget, Thinned
<1> DEFINE warned == [run[p] EXCEPT !.warned = TRUE]
<1>4. /\ warned \in LocalRun /\ warned.id = run[p].id /\ warned.job = run[p].job
      /\ (warned.snap <=> run[p].snap)
  BY <1>1 DEF LocalRun
<1>5. PICK r \in LocalRun : /\ Goto(p, "saving", r) /\ r.id = run[p].id
                            /\ r.job = run[p].job /\ (r.snap <=> run[p].snap)
  <2>1. Goto(p, "saving", Advanced(run[p])) \/ Goto(p, "saving", Advanced(warned))
    BY DEF Forget
  <2> HIDE DEF warned
  <2> QED BY <1>1, <1>4, <2>1, RunChanges, SnapUnmoved
<1>6. pc'[p] = "saving" /\ run'[p] = r
  BY <1>5, GotoMoves DEF IInv, Location
<1>7. SnapOK(p) /\ Latest(p)
  BY DEF SnapInv
<1>8. run[p].snap => SnapshotOf(run[p]) \in snapshots'
  <2> SUFFICES ASSUME SnapshotOf(run[p]) \in snapshots, SnapshotOf(run[p]) \notin snapshots'
               PROVE  FALSE
    BY <1>1, <1>7 DEF SnapOK
  <2>1. SnapshotOf(run[p]).id = run[p].id /\ SnapshotOf(run[p]).job = run[p].job
    BY DEF SnapshotOf
  <2>2. PICK t \in snapshots : t.job = run[p].job /\ t.id > run[p].id
    BY <1>3, <2>1
  <2>3. t.id <= run[p].id
    BY <1>1, <1>7, <2>2 DEF Latest
  <2>4. t.id \in Nat /\ run[p].id \in Nat
    BY IdsAreNumbers DEF IInv
  <2> QED BY <2>2, <2>3, <2>4
<1>9. SnapOK(p)'
  BY <1>1, <1>5, <1>6, <1>7, <1>8 DEF SnapOK, HasSnap, SnapshotOf, Working
<1>10. /\ \A o \in orphans' : o \in orphans
       /\ \A id \in RunId : notice'[id] = notice[id]
  BY <1>1
<1> QED BY <1>1, <1>2, <1>3, <1>5, <1>6, <1>9, <1>10 DEF SnapSteps

\* A crash leaves the command behind, and no run
LEMMA CrashSnaps ==
  ASSUME IInv, HInv, SnapInv, NEW p \in Process, Crash(p)
  PROVE  SnapSteps(p)
<1>1. /\ Steps(p) /\ Goto(p, "idle", NoRun) /\ NoRun.id = 0
      /\ UNCHANGED <<runs, snapshots, thinned, notice, unread>>
  BY AdmissionKeepsHistory DEF Crash, adminVars, NoRun
<1>2. pc'[p] = "idle" /\ run'[p] = NoRun
  BY <1>1, GotoMoves, NoRunType DEF IInv, Location
<1>3. SnapOK(p)'
  BY <1>2 DEF SnapOK, HasRow, Working
<1>4. ASSUME NEW o \in orphans', o \notin orphans
      PROVE  /\ o = [id |-> run[p].id, job |-> run[p].job, phase |-> run[p].phase]
             /\ pc[p] = "working"
  BY <1>4 DEF Crash, Working
<1>5. /\ \A s \in snapshots' : s \in snapshots
      /\ \A s \in snapshots \ snapshots' : FALSE
      /\ \A id \in RunId : notice'[id] = notice[id]
  BY <1>1
<1> QED BY <1>1, <1>2, <1>3, <1>4, <1>5 DEF SnapSteps

---------------------------------------------------------------------------
(* The administrator, and commands that outlived their process *)

\* A command that outlived its process ends, its effect the one it would have had
LEMMA OrphanEndsSnaps ==
  ASSUME IInv, HInv, SnapInv, NEW o \in orphans, OrphanEnds(o)
  PROVE  SnapInv'
<1>1. /\ \A p \in Process : run[p].id \in Nat
      /\ \A id \in RunId : id \in Nat /\ id # 0
      /\ \A s \in snapshots : s.id \in Nat
      /\ o.id \in Nat
      /\ UNCHANGED <<pc, run, runs, lastId, notice, unread, thinned>>
      /\ orphans' \subseteq orphans
  <2>1. UNCHANGED <<pc, run, runs, lastId, notice, unread, thinned>> /\ orphans' \subseteq orphans
    BY DEF OrphanEnds, history, adminVars
  <2> QED BY <2>1, IdsAreNumbers DEF IInv
<1> DEFINE made == [id |-> o.id, job |-> o.job]
<1>2. /\ \A s \in snapshots' : s \in snapshots \/ s = made
      /\ \A s \in snapshots : s \notin snapshots' =>
           o.phase = "retention" /\ s.job = o.job /\ s.id < o.id
  <2>1. o.phase \in {"backing_up", "retention"}
    BY DEF IInv, TypeOK
  <2> QED BY <2>1 DEF OrphanEnds
<1>3. made.id = o.id /\ made.job = o.job
  OBVIOUS
<1>4. OrphansOK
  BY DEF SnapInv
<1>5. ASSUME NEW p \in Process PROVE (Latest(p) /\ SnapOK(p))'
  <2>1. Latest(p) /\ SnapOK(p)
    BY DEF SnapInv
  <2>2. Latest(p)'
    <3>1. ASSUME NEW s \in snapshots', run[p].id # 0, s.job = run[p].job
          PROVE  s.id <= run[p].id
      BY <1>1, <1>2, <1>3, <2>1, <3>1 DEF Latest
    <3> QED BY <1>1, <2>1, <3>1 DEF Latest, RowsOf
  <2>3. ASSUME HasRow(p), SnapshotOf(run[p]) \in snapshots
        PROVE  SnapshotOf(run[p]) \in snapshots'
    <3>1. SnapshotOf(run[p]).id = run[p].id /\ SnapshotOf(run[p]).job = run[p].job
      BY DEF SnapshotOf
    <3>2. run[p].id # 0
      BY <2>3 DEF IInv, LocalOK, RunId
    <3> QED BY <1>1, <1>2, <2>1, <2>3, <3>1, <3>2 DEF Latest
  <2>4. SnapOK(p)'
    BY <1>1, <2>1, <2>3 DEF SnapOK, HasRow, Working, HasSnap, RowsOf, SnapshotOf
  <2> QED BY <2>2, <2>4
<1>6. OrphansOK'
  <2>1. \A s \in snapshots' : s.id <= lastId
    BY <1>2, <1>3, <1>4 DEF OrphansOK
  <2> QED BY <1>1, <1>4, <2>1 DEF OrphansOK, RowsOf, HasSnap
<1>7. NewestRecordedSnapshotKept'
  <2> SUFFICES ASSUME NEW id \in RunId, HasSnap(id),
                      \A k \in RowsOf(runs[id].job) : HasSnap(k) => k <= id
               PROVE  \/ [id |-> id, job |-> runs[id].job] \in snapshots'
                      \/ /\ runs[id].job \in thinned
                         /\ \E s \in snapshots' : s.job = runs[id].job /\ s.id > id
    BY <1>1 DEF NewestRecordedSnapshotKept, HasSnap, RowsOf
  <2> DEFINE j == runs[id].job
  <2>1. ASSUME NEW s \in snapshots, s.job = j, s.id >= id, s \notin snapshots' PROVE FALSE
    <3>1. o.phase = "retention" /\ o.job = j /\ s.id < o.id
      BY <1>2, <2>1
    <3>2. id \in RowsOf(o.job) /\ id < o.id
      BY <1>1, <2>1, <3>1 DEF RowsOf, HasSnap
    <3>3. HasSnap(o.id) /\ runs[o.id].job = o.job
      BY <1>4, <3>1, <3>2 DEF OrphansOK
    <3>4. o.id \in RowsOf(j)
      BY <3>1, <3>3 DEF RowsOf, HasSnap, IInv, TypeOK
    <3> QED BY <1>1, <3>2, <3>3, <3>4
  <2>2. \/ [id |-> id, job |-> j] \in snapshots
        \/ j \in thinned /\ \E s \in snapshots : s.job = j /\ s.id > id
    <3>1. \A k \in RowsOf(runs[id].job) : runs[k].snap => k <= id
      BY DEF RowsOf, HasSnap
    <3> QED BY <3>1 DEF SnapInv, NewestRecordedSnapshotKept, HasSnap
  <2>3. CASE [id |-> id, job |-> j] \in snapshots
    <3> DEFINE s == [id |-> id, job |-> j]
    <3>1. s \in snapshots /\ s.job = j /\ s.id >= id
      BY <1>1, <2>3
    <3> QED BY <2>1, <3>1
  <2>4. CASE j \in thinned /\ \E s \in snapshots : s.job = j /\ s.id > id
    <3>1. PICK s \in snapshots : s.job = j /\ s.id > id
      BY <2>4
    <3>2. s \in snapshots'
      BY <1>1, <2>1, <3>1
    <3> QED BY <2>4, <3>1, <3>2
  <2> QED BY <2>2, <2>3, <2>4
<1>8. RecoveryPaired'
  BY <1>1 DEF SnapInv, RecoveryPaired, Ended
<1> QED BY <1>5, <1>6, <1>7, <1>8 DEF SnapInv

\* By hand too, retention leaves the newest snapshot of the job
LEMMA ForgetByHandSnaps ==
  ASSUME IInv, HInv, SnapInv, NEW j \in Job, ForgetByHand(j)
  PROVE  SnapInv'
<1>1. /\ \A p \in Process : run[p].id \in Nat
      /\ \A id \in RunId : id \in Nat /\ id # 0
      /\ \A s \in snapshots : s.id \in RunId /\ s.id \in Nat
      /\ UNCHANGED <<pc, run, runs, lastId, notice, unread, orphans>>
      /\ thinned' = thinned \cup {j}
  <2>1. UNCHANGED <<pc, run, runs, lastId, notice, unread, orphans>> /\ thinned' = thinned \cup {j}
    BY DEF ForgetByHand, history
  <2> QED BY <2>1, IdsAreNumbers DEF IInv
<1>2. /\ snapshots' \subseteq snapshots
      /\ \A s \in snapshots : s \notin snapshots' =>
           s.job = j /\ \E t \in snapshots : t.job = j /\ t.id > s.id
  BY DEF ForgetByHand, Thinned
<1>3. ASSUME NEW p \in Process PROVE (Latest(p) /\ SnapOK(p))'
  <2>1. Latest(p) /\ SnapOK(p)
    BY DEF SnapInv
  <2>2. Latest(p)'
    BY <1>1, <1>2, <2>1 DEF Latest, RowsOf
  <2>3. ASSUME HasRow(p), SnapshotOf(run[p]) \in snapshots
        PROVE  SnapshotOf(run[p]) \in snapshots'
    <3>1. SnapshotOf(run[p]).id = run[p].id /\ SnapshotOf(run[p]).job = run[p].job
      BY DEF SnapshotOf
    <3>2. run[p].id # 0
      BY <2>3 DEF IInv, LocalOK, RunId
    <3> QED BY <1>1, <1>2, <2>1, <2>3, <3>1, <3>2 DEF Latest
  <2>4. SnapOK(p)'
    BY <1>1, <2>1, <2>3 DEF SnapOK, HasRow, Working, HasSnap, RowsOf, SnapshotOf
  <2> QED BY <2>2, <2>4
<1>4. OrphansOK'
  BY <1>1, <1>2 DEF SnapInv, OrphansOK, RowsOf, HasSnap
\* A snapshot that is not the newest has a newer one that stays
<1>5. ASSUME NEW t \in snapshots, t.job = j
      PROVE  \E s \in snapshots' : s.job = j /\ s.id >= t.id
  <2> DEFINE T == {s.id : s \in {u \in snapshots : u.job = j}}
  <2>1. T \subseteq RunId /\ t.id \in T
    BY <1>1, <1>5
  <2>2. PICK x \in T : \A y \in T : y <= x
    <3> HIDE DEF T
    <3> QED BY <2>1, LatestExists
  <2>3. PICK s \in snapshots : s.job = j /\ s.id = x
    OBVIOUS
  <2>4. \A u \in snapshots : u.job = j => u.id <= s.id
    BY <2>2, <2>3
  <2>5. s \in snapshots'
    BY <1>1, <1>2, <2>3, <2>4
  <2> QED BY <1>1, <1>5, <2>3, <2>4, <2>5
<1>6. NewestRecordedSnapshotKept'
  <2> SUFFICES ASSUME NEW id \in RunId, HasSnap(id),
                      \A k \in RowsOf(runs[id].job) : HasSnap(k) => k <= id
               PROVE  \/ [id |-> id, job |-> runs[id].job] \in snapshots'
                      \/ /\ runs[id].job \in thinned'
                         /\ \E s \in snapshots' : s.job = runs[id].job /\ s.id > id
    BY <1>1 DEF NewestRecordedSnapshotKept, HasSnap, RowsOf
  <2> DEFINE i == runs[id].job
             own == [id |-> id, job |-> i]
  <2>1. \/ own \in snapshots
        \/ i \in thinned /\ \E s \in snapshots : s.job = i /\ s.id > id
    <3>1. \A k \in RowsOf(runs[id].job) : runs[k].snap => k <= id
      BY DEF RowsOf, HasSnap
    <3> QED BY <3>1 DEF SnapInv, NewestRecordedSnapshotKept, HasSnap
  <2>2. ASSUME NEW t \in snapshots, t.job = i, t.id > id, i \in thinned'
        PROVE  \E s \in snapshots' : s.job = i /\ s.id > id
    <3>1. CASE t \in snapshots'
      BY <2>2, <3>1
    <3>2. CASE t \notin snapshots'
      <4>1. i = j
        BY <1>2, <2>2, <3>2
      <4>2. PICK s \in snapshots' : s.job = j /\ s.id >= t.id
        BY <1>5, <2>2, <4>1
      <4> QED BY <1>1, <1>2, <2>2, <4>1, <4>2
    <3> QED BY <3>1, <3>2
  <2>3. CASE own \in snapshots
    <3>1. CASE own \in snapshots'
      BY <3>1
    <3>2. CASE own \notin snapshots'
      <4>1. own.job = i /\ own.id = id
        OBVIOUS
      <4>2. i = j /\ \E t \in snapshots : t.job = j /\ t.id > id
        BY <1>2, <2>3, <3>2, <4>1
      <4> QED BY <1>1, <2>2, <4>2
    <3> QED BY <3>1, <3>2
  <2>4. CASE i \in thinned /\ \E s \in snapshots : s.job = i /\ s.id > id
    BY <1>1, <2>2, <2>4
  <2> QED BY <2>1, <2>3, <2>4
<1>7. RecoveryPaired'
  BY <1>1 DEF SnapInv, RecoveryPaired, Ended
<1> QED BY <1>3, <1>4, <1>6, <1>7 DEF SnapInv

\* The rows of a job go all at once, so what is known of the other jobs stays
LEMMA DeleteRowsSnaps ==
  ASSUME IInv, HInv, SnapInv, DeleteRows
  PROVE  SnapInv'
<1>1. UNCHANGED <<pc, run, snapshots, orphans, lastId, notice, unread, thinned>>
  BY DEF DeleteRows, history
<1> DEFINE j == purge.job
<1>2. \A id \in RunId : \/ runs'[id] = runs[id]
                        \/ runs'[id] = None /\ runs[id] # None /\ runs[id].job = j
  BY DEF DeleteRows, RowsOf
<1>3. \/ \A id \in RunId : runs'[id] = runs[id]
      \/ \A id \in RunId : runs'[id] # None => runs'[id] = runs[id] /\ runs[id].job # j
  BY DEF DeleteRows, RowsOf
<1>4. \A id \in RunId : /\ HasSnap(id)' => HasSnap(id)
                        /\ runs'[id] # None => runs'[id] = runs[id]
  BY <1>2 DEF HasSnap
<1>5. ASSUME NEW p \in Process PROVE (Latest(p) /\ SnapOK(p))'
  <2>1. Latest(p) /\ SnapOK(p)
    BY DEF SnapInv
  <2>2. Latest(p)'
    BY <1>1, <1>4, <2>1 DEF Latest, RowsOf
  <2>3. HasRow(p) => run[p].id \in RunId
    BY DEF IInv, LocalOK
  <2>4. ASSUME Working(p, "retention"), NEW k \in RowsAfter(run[p].job), HasSnap(k)'
        PROVE  HasSnap(run[p].id)'
    <3>1. HasRow(p) /\ run[p].id \in RunId
      BY <2>3, <2>4 DEF Working, HasRow
    <3>2. k \in RowsOf(run[p].job) /\ HasSnap(k)
      BY <1>4, <2>4 DEF RowsAfter, RowsOf, HasSnap
    <3>3. HasSnap(run[p].id)
      BY <2>1, <2>4, <3>2 DEF SnapOK
    <3>4. runs[run[p].id].job = run[p].job
      BY <3>1, <3>3 DEF HInv, RowFits, HasSnap
    <3>5. k \in RunId /\ runs'[k] # None /\ runs'[k].job = runs[run[p].id].job
      BY <2>4, <3>4 DEF RowsAfter
    <3>6. runs'[run[p].id] = runs[run[p].id]
      BY <1>2, <1>3, <3>1, <3>3, <3>5 DEF HasSnap
    <3> QED BY <1>1, <3>3, <3>6 DEF HasSnap
  <2>5. HasRow(p) /\ HasSnap(run[p].id)' => run[p].snap
    BY <1>1, <1>2, <2>1, <2>3 DEF SnapOK, HasSnap
  <2>6. SnapOK(p)'
    BY <1>1, <2>1, <2>4, <2>5 DEF SnapOK, HasRow, Working, HasSnap, RowsOf, RowsAfter, SnapshotOf
  <2> QED BY <2>2, <2>6
<1>6. OrphansOK'
  <2>1. ASSUME NEW o \in orphans, o.phase = "retention", NEW k \in RowsAfter(o.job),
               k < o.id, HasSnap(k)'
        PROVE  HasSnap(o.id)' /\ runs'[o.id].job = o.job
    <3>1. k \in RowsOf(o.job) /\ HasSnap(k)
      BY <1>4, <2>1 DEF RowsAfter, RowsOf, HasSnap
    <3>2. HasSnap(o.id) /\ runs[o.id].job = o.job /\ o.id \in RunId
      BY <2>1, <3>1 DEF SnapInv, OrphansOK, IInv, TypeOK
    <3>3. runs'[o.id] = runs[o.id]
      BY <1>2, <1>3, <2>1, <3>2 DEF RowsAfter, HasSnap
    <3> QED BY <3>2, <3>3 DEF HasSnap
  <2> QED BY <1>1, <2>1 DEF SnapInv, OrphansOK, RowsOf, RowsAfter, HasSnap
<1>7. NewestRecordedSnapshotKept'
  <2> SUFFICES ASSUME NEW id \in RunId, HasSnap(id)',
                      \A k \in RowsAfter(runs'[id].job) : runs'[k].snap => k <= id
               PROVE  \/ [id |-> id, job |-> runs'[id].job] \in snapshots
                      \/ /\ runs'[id].job \in thinned
                         /\ \E s \in snapshots : s.job = runs'[id].job /\ s.id > id
    BY <1>1 DEF NewestRecordedSnapshotKept, HasSnap, RowsOf, RowsAfter
  <2>1. runs'[id] = runs[id] /\ HasSnap(id)
    BY <1>4 DEF HasSnap
  <2>2. ASSUME NEW k \in RowsOf(runs[id].job), runs[k].snap PROVE k <= id
    <3>1. runs'[k] = runs[k]
      BY <1>2, <1>3, <2>1, <2>2 DEF RowsOf, HasSnap
    <3> QED BY <2>1, <2>2, <3>1 DEF RowsOf, RowsAfter
  <2>3. NewestRecordedSnapshotKept
    BY DEF SnapInv
  <2> QED BY <2>1, <2>2, <2>3 DEF NewestRecordedSnapshotKept, HasSnap
<1>8. RecoveryPaired'
  <2> SUFFICES ASSUME NEW id \in RunId, runs'[id] # None
               PROVE  Paired(runs', notice'[id], unread', id)
    BY PairedNotices DEF Paired
  <2>1. runs'[id] = runs[id] /\ Paired(runs, notice[id], unread, id)
    BY <1>4, PairedNotices DEF SnapInv
  <2>2. \A k \in RunId : \/ runs'[k] = runs[k]
                         \/ /\ runs'[k] # None => runs'[k].job # runs[id].job
                            /\ runs[k] # None => runs[k].job # runs[id].job
    BY <1>2, <1>3, <2>1
  <2>3. BadBefore(runs', runs[id].job, id) <=> BadBefore(runs, runs[id].job, id)
    BY <2>2, SameBefore
  <2> QED BY <1>1, <2>1, <2>3 DEF Paired
<1> QED BY <1>5, <1>6, <1>7, <1>8 DEF SnapInv

\* The removal of a job or of its history
LEMMA AdminSnaps ==
  ASSUME IInv, HInv, SnapInv,
         \/ \E o \in orphans : OrphanEnds(o)
         \/ \E j \in Job : RemoveJob(j) \/ ForgetByHand(j)
         \/ SelectRows \/ DeleteRows \/ DeleteLogs \/ UNCHANGED vars
  PROVE  SnapInv'
<1>1. CASE (\E j \in Job : RemoveJob(j)) \/ SelectRows \/ DeleteLogs \/ UNCHANGED vars
  <2>1. UNCHANGED <<pc, run, runs, lastId, snapshots, orphans, notice, unread, thinned>>
    BY <1>1 DEF RemoveJob, SelectRows, DeleteLogs, vars, history, adminVars
  <2>2. \A p \in Process : (Latest(p) /\ SnapOK(p))'
    BY <2>1 DEF SnapInv, Latest, SnapOK, HasRow, Working, HasSnap, RowsOf, SnapshotOf
  <2>3. OrphansOK'
    BY <2>1 DEF SnapInv, OrphansOK, HasSnap, RowsOf
  <2>4. NewestRecordedSnapshotKept'
    BY <2>1 DEF SnapInv, NewestRecordedSnapshotKept, RowsOf
  <2>5. RecoveryPaired'
    BY <2>1 DEF SnapInv, RecoveryPaired, Ended
  <2> QED BY <2>2, <2>3, <2>4, <2>5 DEF SnapInv
<1> QED BY <1>1, OrphanEndsSnaps, ForgetByHandSnaps, DeleteRowsSnaps

---------------------------------------------------------------------------
(* The invariant, and the theorems *)

\* The invariant holds at first
LEMMA InitSnaps == Init => SnapInv
<1> SUFFICES ASSUME Init PROVE SnapInv
  OBVIOUS
<1>1. \A p \in Process : pc[p] = "idle" /\ run[p].id = 0
  BY DEF Init, NoRun
<1>2. \A p \in Process : Latest(p) /\ SnapOK(p)
  BY <1>1 DEF Latest, SnapOK, HasRow, Working
<1>3. OrphansOK
  BY DEF Init, OrphansOK
<1>4. NewestRecordedSnapshotKept /\ RecoveryPaired
  BY DEF Init, NewestRecordedSnapshotKept, RecoveryPaired
<1> QED BY <1>2, <1>3, <1>4 DEF SnapInv

\* Every step keeps the invariant
LEMMA NextKeepsSnapshots ==
  ASSUME IInv, HInv, SnapInv, [Next]_vars
  PROVE  SnapInv'
<1>1. IInv' /\ HInv'
  BY IInvInductive, NextKeepsHistory
<1>2. CASE \E p \in Process :
             \/ Advance(p) \/ Notify(p) \/ Command(p) \/ Expire(p) \/ Crash(p)
             \/ \E j \in Job : Request(p, j)
  <2> PICK p \in Process :
        \/ Advance(p) \/ Notify(p) \/ Command(p) \/ Expire(p) \/ Crash(p)
        \/ \E j \in Job : Request(p, j)
    BY <1>2
  <2>1. SnapSteps(p)
    BY AdmissionSnaps, BeginSnaps, PhasesSnaps, BackUpSnaps, ForgetSnaps, SavesSnaps,
       NotifySnaps, CrashSnaps DEF Advance, Command
  <2> QED BY <1>1, <2>1, StepKeepsSnapshots
<1>3. CASE \/ \E o \in orphans : OrphanEnds(o)
           \/ \E j \in Job : RemoveJob(j) \/ ForgetByHand(j)
           \/ SelectRows \/ DeleteRows \/ DeleteLogs \/ UNCHANGED vars
  BY <1>3, AdminSnaps
<1> QED BY <1>2, <1>3 DEF Next

\* The invariant holds in every behaviour
LEMMA SnapInvariant == Spec => [](IInv /\ HInv /\ SnapInv)
<1>1. Init => IInv /\ HInv /\ SnapInv
  BY InitIInv, InitHistory, InitSnaps
<1>2. IInv /\ HInv /\ SnapInv /\ [Next]_vars => IInv' /\ HInv' /\ SnapInv'
  BY IInvInductive, NextKeepsHistory, NextKeepsSnapshots
<1> QED BY <1>1, <1>2, PTL DEF Spec

\* Whatever crashes leave running and whenever retention is applied by hand,
\* the newest snapshot the table knows stays, or a newer one does
THEOREM NewestSnapshotsStay == Spec => []NewestRecordedSnapshotKept
<1>1. SnapInv => NewestRecordedSnapshotKept
  BY DEF SnapInv
<1> QED BY <1>1, SnapInvariant, PTL

\* Success and recovery notices follow the outcome of the run before, for any
\* number of processes that run the job in turn, as far as a success could read it
THEOREM RecoveriesArePaired == Spec => []RecoveryPaired
<1>1. SnapInv => RecoveryPaired
  BY DEF SnapInv
<1> QED BY <1>1, SnapInvariant, PTL
=============================================================================
